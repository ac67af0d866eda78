--------------------------- MODULE SettlementProofs ---------------------------
(***************************************************************************)
(* The refinement of zones, the placing of buildings, the placement of     *)
(* infrastructure and the accessibility on the road network, for any       *)
(* number of cells, sources, footprints, demands, candidate sites, nodes   *)
(* and roads. The sums, extremes, regions and inductions over finite sets  *)
(* are those of PlanningProofs.                                            *)
(*                                                                         *)
(* Zoning: what is better than something better is better, so a refinement *)
(* carries along that it is better than what it was given; one that stops  *)
(* as stable leaves no undersized remnant it could still join.             *)
(*                                                                         *)
(* Infrastructure: serving demands in order until the capacity is used     *)
(* gives out exactly the benefit a site was selected for, so the accepted  *)
(* benefits are an account of the demand that is gone; a benefit only      *)
(* falls as demand does, so the account is kept in falling order.          *)
(*                                                                         *)
(* Accessibility: a function on the nodes that climbs no road by more than *)
(* its length climbs no way by more, so bounds that the search keeps along *)
(* roads are bounds on the metric; the settled distances are such a        *)
(* function. The order of the heap keeps later entries later, whether the  *)
(* priority has a heuristic or not, since the heuristic climbs no road by  *)
(* more than its length either.                                            *)
(*                                                                         *)
(* Buildings: each source has an account of what was proposed, taken and   *)
(* refused, and why; what was refused stays unfit as more is placed, and   *)
(* the chunks of the loop hold whatever was taken.                         *)
(***************************************************************************)
EXTENDS PlanningProofs, Infrastructure, Buildings, Accessibility

-----------------------------------------------------------------------------
(* Zoning: the refinement. *)

\* Borders join two different cells, and both ways.
LEMMA NeighborsMutual ==
  ASSUME given \in ZoningCases, plat \in given.plats, NEW x \in Cells
  PROVE /\ x \notin Neighbors(x) /\ Neighbors(x) \subseteq Cells
        /\ \A y \in Neighbors(x) : x \in Neighbors(y)
<1>1. \A e \in plat.borders : e \in kSubset(2, Cells)
  BY PlanFacts
<1>2. {x, x} \notin plat.borders
  <2>1. {x, x} = {x} /\ Cardinality({x}) = 1
    BY FS_Singleton
  <2>2. \A e \in kSubset(2, Cells) : Cardinality(e) = 2
    BY DEF kSubset
  <2> QED BY <1>1, <2>1, <2>2
<1>3. \A y : {x, y} = {y, x}
  OBVIOUS
<1> QED BY <1>2, <1>3 DEF Neighbors

\* The cells of a region have one region.
LEMMA RegionSame ==
  ASSUME given \in ZoningCases, plat \in given.plats, NEW lab, NEW x \in Cells, NEW y \in Region(lab, x)
  PROVE Region(lab, y) = Region(lab, x)
<1> DEFINE R == Region(lab, x)
           Q == Region(lab, y)
           c == lab[x]
<1>0. given.count \in Nat
  BY PlanFacts
<1>1. /\ x \in R /\ R \subseteq Cells /\ Closed(lab, c, R) /\ lab[y] = c /\ y \in Cells
      /\ \A u \in R : lab[u] = c
      /\ \A T : x \in T /\ Closed(lab, c, T) => R \subseteq T
  BY <1>0, RegionIs
<1>2. /\ y \in Q /\ Closed(lab, c, Q) /\ \A T : y \in T /\ Closed(lab, c, T) => Q \subseteq T
  BY <1>0, <1>1, RegionIs
<1> HIDE DEF R, Q, c
<1>3. Q \subseteq R
  BY <1>1, <1>2 DEF R
<1>4. x \in Q
  <2> SUFFICES ASSUME x \notin Q PROVE FALSE
    OBVIOUS
  <2>1. Closed(lab, c, R \ Q)
    <3> SUFFICES ASSUME NEW v \in Cells, lab[v] = c, NEW u \in Neighbors(v), u \in R \ Q
                 PROVE v \in R \ Q
      BY DEF Closed
    <3>1. v \in R
      BY <1>1 DEF Closed
    <3>2. u \in Cells /\ v \in Neighbors(u)
      BY NeighborsMutual
    <3>3. lab[u] = c
      BY <1>1
    <3>4. v \in Q => u \in Q
      BY <1>2, <3>2, <3>3 DEF Closed
    <3> QED BY <3>1, <3>4
  <2>2. R \subseteq R \ Q
    BY <1>1, <2>1
  <2> QED BY <1>2, <2>2 DEF R
<1>5. R \subseteq Q
  BY <1>1, <1>2, <1>4
<1> QED BY <1>3, <1>5 DEF R, Q

\* The shortfall of a region is that of the class of any of its cells.
LEMMA ShortfallIs ==
  ASSUME given \in ZoningCases, plat \in given.plats, NEW lab \in [Cells -> ClassIds], NEW x \in Cells
  PROVE /\ Min(Region(lab, x)) \in Region(lab, x) /\ IsFiniteSet(Region(lab, x))
        /\ Shortfall(lab, Region(lab, x))
             = given.minimum[lab[x]] - SumFunctionOnSet(plat.area, Region(lab, x))
<1>1. /\ x \in Region(lab, x) /\ Region(lab, x) \in SUBSET Cells
      /\ \A y \in Region(lab, x) : lab[y] = lab[x]
  BY PlanFacts, RegionIs
<1>2. IsFiniteSet(Region(lab, x)) /\ Region(lab, x) \subseteq Int
  BY <1>1, PlanFacts, FS_Subset DEF Cells
<1>3. Min(Region(lab, x)) \in Region(lab, x)
  BY <1>1, <1>2, MinOf
<1> QED BY <1>1, <1>2, <1>3 DEF Shortfall

LEMMA UndersizedFinite ==
  ASSUME given \in ZoningCases, NEW lab
  PROVE IsFiniteSet(Undersized(lab)) /\ Undersized(lab) \subseteq SUBSET Cells
<1>1. \A i \in Cells : Region(lab, i) \in SUBSET Cells
  BY PlanFacts, RegionIs
<1>2. Undersized(lab) \in SUBSET SUBSET Cells
  BY <1>1 DEF Undersized
<1>3. IsFiniteSet(SUBSET Cells)
  BY PlanFacts, FS_SUBSET
<1> QED BY <1>2, <1>3, FS_Subset

\* A cell alone below the minimum of its class that joins a neighbour: no region
\* falls below its minimum that did not before, and the cell's own is gone.
LEMMA JoiningHelps ==
  ASSUME given \in ZoningCases, plat \in given.plats, NEW lab \in [Cells -> ClassIds],
         NEW i \in Cells, NEW j \in Neighbors(i), \A y \in Neighbors(i) : lab[y] # lab[i],
         plat.area[i] < given.minimum[lab[i]]
  PROVE Cardinality(Undersized([lab EXCEPT ![i] = lab[j]])) < Cardinality(Undersized(lab))
<1> DEFINE z == lab[j]
           new == [lab EXCEPT ![i] = z]
           P(x) == Region(lab, x)
           Q(x) == Region(new, x)
           A == plat.area
<1>0. /\ given.count \in Nat /\ IsFiniteSet(Cells) /\ given.minimum \in [ClassIds -> Nat \ {0}]
      /\ A \in [Cells -> Nat \ {0}]
  BY PlanFacts
<1>1. /\ j \in Cells /\ j # i /\ i \in Neighbors(j) /\ z \in ClassIds /\ z # lab[i]
      /\ i \notin Neighbors(i)
  BY NeighborsMutual
<1>2. /\ new \in [Cells -> ClassIds] /\ new[i] = z /\ new[j] = z
      /\ \A x \in Cells : x # i => new[x] = lab[x]
  BY <1>1
<1> HIDE DEF new, z
<1>3. \A x \in Cells : /\ x \in P(x) /\ P(x) \subseteq Cells /\ Closed(lab, lab[x], P(x))
                       /\ \A u \in P(x) : lab[u] = lab[x]
                       /\ \A T : x \in T /\ Closed(lab, lab[x], T) => P(x) \subseteq T
  BY <1>0, RegionIs
<1>4. \A x \in Cells : /\ x \in Q(x) /\ Q(x) \subseteq Cells /\ Closed(new, new[x], Q(x))
                       /\ \A u \in Q(x) : new[u] = new[x]
                       /\ \A T : x \in T /\ Closed(new, new[x], T) => Q(x) \subseteq T
  BY <1>0, RegionIs
<1>5. \A x \in Cells : \A y \in Q(x) : Q(y) = Q(x)
  BY RegionSame
<1> HIDE DEF P, Q
<1>6. P(i) = {i}
  <2>1. Closed(lab, lab[i], {i})
    <3> SUFFICES ASSUME NEW y \in Cells, lab[y] = lab[i], i \in Neighbors(y) PROVE FALSE
      BY DEF Closed
    <3> QED BY NeighborsMutual
  <2> QED BY <1>3, <2>1
<1>7. ASSUME NEW x \in Cells, i \notin Q(x) PROVE Q(x) = P(x)
  <2> DEFINE c == lab[x]
  <2>1. x # i /\ new[x] = c /\ x \in Q(x) /\ x \in P(x)
    BY <1>2, <1>3, <1>4, <1>7
  <2>2. Closed(lab, c, Q(x))
    <3> SUFFICES ASSUME NEW y \in Cells, lab[y] = c, NEW u \in Neighbors(y), u \in Q(x)
                 PROVE y \in Q(x)
      BY DEF Closed
    <3>1. y # i
      <4> SUFFICES ASSUME y = i PROVE FALSE
        OBVIOUS
      <4>1. u \in Cells /\ u # i
        BY <1>4, <1>7
      <4>2. lab[u] = c
        BY <1>2, <1>4, <2>1, <4>1
      <4> QED BY <4>2
    <3> QED BY <1>2, <1>4, <2>1, <3>1 DEF Closed
  <2>3. Closed(new, c, Q(x) \cap P(x))
    <3> SUFFICES ASSUME NEW y \in Cells, new[y] = c, NEW u \in Neighbors(y), u \in Q(x), u \in P(x)
                 PROVE y \in Q(x) \cap P(x)
      BY DEF Closed
    <3>1. y \in Q(x)
      BY <1>4, <2>1 DEF Closed
    <3>2. lab[y] = c
      BY <1>2, <1>7, <3>1
    <3>3. y \in P(x)
      BY <1>3, <3>2 DEF Closed
    <3> QED BY <3>1, <3>3
  <2>4. P(x) \subseteq Q(x)
    BY <1>3, <2>1, <2>2
  <2>5. Q(x) \subseteq Q(x) \cap P(x)
    BY <1>4, <2>1, <2>3
  <2> QED BY <2>4, <2>5
<1>8. j \in Q(i) /\ Q(j) = Q(i) /\ P(j) \subseteq Q(i) /\ j \in P(j)
  <2>1. j \in Q(i)
    BY <1>1, <1>2, <1>4 DEF Closed
  <2>2. Closed(lab, lab[j], Q(i))
    <3> SUFFICES ASSUME NEW y \in Cells, lab[y] = z, NEW u \in Neighbors(y), u \in Q(i)
                 PROVE y \in Q(i)
      BY DEF Closed, z
    <3> QED BY <1>1, <1>2, <1>4 DEF Closed
  <2> QED BY <1>1, <1>3, <1>5, <2>1, <2>2
<1> DEFINE Short(x) == given.minimum[lab[x]] - SumFunctionOnSet(A, P(x))
           Old == Undersized(lab)
           New == Undersized(new)
<1>9. /\ \A r : r \in Old <=> \E x \in Cells : r = P(x) /\ Shortfall(lab, P(x)) > 0
      /\ \A r : r \in New <=> \E x \in Cells : r = Q(x) /\ Shortfall(new, Q(x)) > 0
  BY DEF Undersized, P, Q
<1>10. \A x \in Cells : /\ Shortfall(lab, P(x)) = given.minimum[lab[x]] - SumFunctionOnSet(A, P(x))
                        /\ Shortfall(new, Q(x)) = given.minimum[new[x]] - SumFunctionOnSet(A, Q(x))
  BY <1>2, ShortfallIs DEF P, Q
<1>11. {i} \in Old
  <2>1. SumFunctionOnSet(A, {i}) = A[i]
    <3>1. A[i] \in Int
      BY <1>0
    <3> QED BY <3>1, SumOfOne
  <2>2. given.minimum[lab[i]] \in Nat /\ A[i] \in Nat
    BY <1>0
  <2>3. Shortfall(lab, P(i)) > 0
    <3>1. Shortfall(lab, P(i)) = given.minimum[lab[i]] - SumFunctionOnSet(A, P(i))
      BY <1>10
    <3>2. SumFunctionOnSet(A, P(i)) = SumFunctionOnSet(A, {i})
      BY ONLY <1>6
    <3> HIDE DEF A
    <3> QED BY ONLY plat.area[i] < given.minimum[lab[i]], <2>1, <2>2, <3>1, <3>2 DEF A
  <2> QED BY <1>6, <1>9, <2>3
<1> DEFINE f == [r \in New |-> IF i \in r THEN P(j) ELSE r]
<1>12. ASSUME NEW r \in New PROVE f[r] \in Old \ {{i}}
  <2>1. PICK x \in Cells : r = Q(x) /\ Shortfall(new, Q(x)) > 0
    BY <1>9
  <2>2. CASE i \notin r
    <3>1. r = P(x) /\ r = Q(x) /\ f[r] = r
      BY <1>7, <2>1, <2>2
    <3>2. lab[x] = new[x]
      BY <1>2, <1>4, <2>1, <2>2
    <3>3. Shortfall(lab, P(x)) > 0
      BY <1>10, <2>1, <3>1, <3>2
    <3> QED BY <1>9, <2>2, <3>1, <3>3
  <2>3. CASE i \in r
    <3>1. r = Q(i) /\ f[r] = P(j)
      BY <1>5, <2>1, <2>3
    <3>2. P(j) \in SUBSET Q(i) /\ IsFiniteSet(Q(i)) /\ IsFiniteSet(P(j)) /\ Q(i) \subseteq Cells
      BY <1>0, <1>4, <1>8, FS_Subset
    <3>3. SumFunctionOnSet(A, P(j)) <= SumFunctionOnSet(A, Q(i))
      <4>1. \A u \in Q(i) : A[u] \in Nat
        BY <1>0, <3>2
      <4> QED BY <3>2, <4>1, SumGrows
    <3>4. SumFunctionOnSet(A, P(j)) \in Nat /\ SumFunctionOnSet(A, Q(i)) \in Nat
      <4>1. \A u \in Cells : A[u] \in Nat
        BY <1>0
      <4> QED BY <1>8, <3>2, <4>1, SumIsNat
    <3>5. /\ Shortfall(new, Q(i)) = given.minimum[z] - SumFunctionOnSet(A, Q(i))
          /\ Shortfall(lab, P(j)) = given.minimum[z] - SumFunctionOnSet(A, P(j))
          /\ given.minimum[z] \in Nat
      BY <1>0, <1>1, <1>2, <1>10 DEF z
    <3>6. Shortfall(new, Q(i)) > 0
      BY <2>1, <3>1
    <3>7. Shortfall(lab, P(j)) > 0
      BY ONLY <3>3, <3>4, <3>5, <3>6
    <3> QED BY <1>1, <1>8, <1>9, <3>1, <3>7
  <2> QED BY <2>2, <2>3
<1>13. ASSUME NEW r \in New, NEW s \in New, f[r] = f[s] PROVE r = s
  <2>1. PICK x \in Cells : r = Q(x)
    BY <1>9
  <2>2. PICK y \in Cells : s = Q(y)
    BY <1>9
  <2>3. i \in r => r = Q(i)
    BY <1>5, <2>1
  <2>4. i \in s => s = Q(i)
    BY <1>5, <2>2
  <2>5. j \in r => r = Q(i)
    BY <1>5, <1>8, <2>1
  <2>6. j \in s => s = Q(i)
    BY <1>5, <1>8, <2>2
  <2>7. i \in Q(i)
    BY <1>4
  <2> HIDE DEF Old, New
  <2> QED BY <1>8, <1>13, <2>3, <2>4, <2>5, <2>6, <2>7
<1> HIDE DEF Old, New
<1>14. f \in Injection(New, Old \ {{i}})
  <2> HIDE DEF f
  <2>1. f \in [New -> Old \ {{i}}]
    BY <1>12 DEF f
  <2> QED BY <1>13, <2>1 DEF Injection, IsInjective
<1>15. IsFiniteSet(Old)
  BY UndersizedFinite DEF Old
<1>16. IsFiniteSet(Old \ {{i}}) /\ Cardinality(Old \ {{i}}) = Cardinality(Old) - 1
  BY <1>11, <1>15, FS_RemoveElement
<1>17. Cardinality(New) <= Cardinality(Old \ {{i}}) /\ IsFiniteSet(New)
  <2> HIDE DEF f
  <2> QED BY <1>14, <1>16, FS_Injection
<1>18. Cardinality(New) \in Nat /\ Cardinality(Old) \in Nat
  BY <1>15, <1>17, FS_CardinalityType
<1>19. Cardinality(New) < Cardinality(Old)
  BY <1>16, <1>17, <1>18
<1> QED BY <1>19 DEF Old, New, new, z


LEMMA NothingForbidden ==
  ASSUME given \in ZoningCases, "FORBIDDEN" \notin Range(given.policy), NEW lab
  PROVE Edges(lab, "FORBIDDEN") = 0
<1>1. \A a, b : Policy(a, b) # "FORBIDDEN"
  BY DEF Policy, Range
<1>2. {e \in plat.borders : \E i, j \in e :
         lab[i] # lab[j] /\ Policy(lab[i], lab[j]) = "FORBIDDEN"} = {}
  BY <1>1
<1> QED BY <1>2, FS_EmptySet DEF Edges

\* Where no move improves the labels, no cell is left alone below its minimum.
LEMMA Settled ==
  ASSUME given \in ZoningCases, plat \in given.plats, label \in [Cells -> ClassIds],
         best = Objective(label), Improving = {}, "FORBIDDEN" \notin Range(given.policy),
         NEW i \in Cells, plat.area[i] < given.minimum[label[i]]
  PROVE Neighbors(i) = {} \/ \E j \in Neighbors(i) : label[j] = label[i]
<1> SUFFICES ASSUME NEW j \in Neighbors(i), \A y \in Neighbors(i) : label[y] # label[i]
             PROVE FALSE
  OBVIOUS
<1> DEFINE new == [label EXCEPT ![i] = label[j]]
           p == Objective(new)
           m == [at |-> <<i, label[j]>>, value |-> p]
<1>1. m \in Candidates
  <2> DEFINE n == <<i, label[j]>>
  <2>1. /\ n \in Cells \X ClassIds /\ n[1] = i /\ n[2] = label[j]
        /\ n[2] # label[n[1]] /\ \E y \in Neighbors(n[1]) : label[y] = n[2]
    BY NeighborsMutual
  <2>2. m = [at |-> n, value |-> Objective([label EXCEPT ![n[1]] = n[2]])]
    BY <2>1
  <2> HIDE DEF n, m
  <2> QED BY <2>1, <2>2, CandidateIs
<1>2. p[1] = best[1]
  BY NothingForbidden DEF Objective
<1>3. p[2] < best[2]
  <2>1. p[2] = Cardinality(Undersized(new)) /\ best[2] = Cardinality(Undersized(label))
    BY DEF Objective
  <2>2. Cardinality(Undersized(new)) < Cardinality(Undersized(label))
    BY JoiningHelps
  <2> QED BY <2>1, <2>2
<1>4. 2 \in DOMAIN p
  BY DEF Objective
<1>5. m.value = p
  OBVIOUS
<1> HIDE DEF p, m
<1>6. Better(m.value, best)
  <2>1. \A k \in 1..(2 - 1) : p[k] = best[k]
    BY <1>2
  <2> QED BY <1>3, <1>4, <1>5, <2>1 DEF Better
<1> QED BY <1>1, <1>6 DEF Improving

LEMMA SettingKept == ASSUME given' = given, plat' = plat, NEW lab PROVE Objective(lab)' = Objective(lab)
<1>1. /\ Cells' = Cells /\ Developable' = Developable
      /\ \A i : Neighbors(i)' = Neighbors(i)
      /\ \A z : LabelArea(lab, z)' = LabelArea(lab, z)
      /\ \A a, b : Policy(a, b)' = Policy(a, b)
  BY DEF Cells, Developable, Neighbors, LabelArea, Policy
<1>2. \A policy : Edges(lab, policy)' = Edges(lab, policy)
  BY <1>1 DEF Edges
<1>3. \A i : Region(lab, i)' = Region(lab, i)
  BY <1>1, Z3 DEF Region, Cells, Neighbors
<1>4. \A r : Shortfall(lab, r)' = Shortfall(lab, r)
  BY DEF Shortfall
<1>5. Undersized(lab)' = Undersized(lab)
  BY <1>1, <1>3, <1>4 DEF Undersized
<1>6. [r \in Undersized(lab) |-> Shortfall(lab, r)]' = [r \in Undersized(lab) |-> Shortfall(lab, r)]
  BY <1>4, <1>5
<1>7. TargetError(lab)' = TargetError(lab)
  BY <1>1 DEF TargetError
<1> QED BY <1>2, <1>5, <1>6, <1>7 DEF Objective

\* The objective is a tuple of six whole numbers.
LEMMA ObjectiveTyped ==
  ASSUME given \in ZoningCases, plat \in given.plats, NEW lab \in [Cells -> ClassIds]
  PROVE DOMAIN Objective(lab) = 1..6 /\ \A k \in 1..6 : Objective(lab)[k] \in Int
<1> DEFINE S == Undersized(lab)
           f == [r \in S |-> Shortfall(lab, r)]
           g == [z \in ClassIds |-> Distance(Unit * LabelArea(lab, z), Developable * given.share[z])]
<1>1. ASSUME NEW policy PROVE Edges(lab, policy) \in Int
  <2> DEFINE E == {e \in plat.borders :
                     \E i, j \in e : lab[i] # lab[j] /\ Policy(lab[i], lab[j]) = policy}
  <2>1. E \in SUBSET SUBSET Cells
    BY PlanFacts DEF kSubset
  <2>2. IsFiniteSet(E)
    BY <2>1, PlanFacts, FS_SUBSET, FS_Subset
  <2> QED BY <2>2, FS_CardinalityType DEF Edges
<1>2. IsFiniteSet(S) /\ Cardinality(S) \in Int
  BY UndersizedFinite, FS_CardinalityType
<1>3. SumFunction(f) \in Int
  <2>1. ASSUME NEW r \in S PROVE Shortfall(lab, r) \in Int
    <3>1. PICK i \in Cells : r = Region(lab, i)
      BY DEF Undersized
    <3>2. r \in SUBSET Cells
      BY <3>1, PlanFacts, RegionIs
    <3>3. SumFunctionOnSet(plat.area, r) \in Int
      <4>1. IsFiniteSet(r) /\ \A x \in r : plat.area[x] \in Int
        BY <3>2, PlanFacts, FS_Subset
      <4> QED BY <4>1, SumIsInt
    <3>4. given.minimum[lab[i]] \in Int
      BY PlanFacts
    <3>5. Shortfall(lab, r) = given.minimum[lab[i]] - SumFunctionOnSet(plat.area, r)
      BY <3>1, ShortfallIs
    <3> QED BY ONLY <3>3, <3>4, <3>5
  <2>2. DOMAIN f = S /\ \A r \in S : f[r] \in Int
    BY <2>1
  <2> HIDE DEF f, S
  <2> QED BY <1>2, <2>2, SumIsSum, SumIsInt
<1>4. SumFunction(g) \in Int
  <2>1. IsFiniteSet(ClassIds)
    <3>1. IsFiniteSet({1, 2, 3, 4})
      BY FourFinite
    <3> QED BY <3>1, ClassesAre
  <2>2. Developable \in Int
    <3>1. plat.area \in [Cells -> Nat \ {0}] /\ IsFiniteSet(Cells)
      BY PlanFacts
    <3> QED BY <3>1, SumIsInt, SumIsSum DEF Developable
  <2>3. ASSUME NEW z \in ClassIds
        PROVE Distance(Unit * LabelArea(lab, z), Developable * given.share[z]) \in Int
    <3>1. LabelArea(lab, z) \in Int
      <4>1. lab \in [Cells -> {0} \cup ClassIds]
        OBVIOUS
      <4>2. \A y \in {0} \cup ClassIds : LabelArea(lab, y) \in Nat
        BY <4>1, AreasAddUp
      <4>3. LabelArea(lab, z) \in Nat
        BY ONLY <4>2, z \in ClassIds, Zenon
      <4> QED BY <4>3
    <3>2. given.share[z] \in Int /\ Unit \in Int
      BY PlanFacts
    <3>3. Unit * LabelArea(lab, z) \in Int /\ Developable * given.share[z] \in Int
      BY ONLY <2>2, <3>1, <3>2
    <3> QED BY ONLY <3>3 DEF Distance
  <2>4. DOMAIN g = ClassIds /\ \A z \in ClassIds : g[z] \in Int
    BY <2>3
  <2> HIDE DEF g
  <2> QED BY <2>1, <2>4, SumIsSum, SumIsInt
<1>5. TargetError(lab) \in Int
  BY <1>4 DEF TargetError
<1>6. Objective(lab) = <<Edges(lab, "FORBIDDEN"), Cardinality(S), SumFunction(f),
                         Edges(lab, "DISCOURAGED"), -Edges(lab, "PREFERRED"), TargetError(lab)>>
  BY DEF Objective
<1> HIDE DEF f, g, S
<1>7. -Edges(lab, "PREFERRED") \in Int
  BY <1>1
<1> QED BY <1>1, <1>2, <1>3, <1>5, <1>6, <1>7

\* What is better than something better is better.
LEMMA BetterStill ==
  ASSUME NEW p, NEW q, NEW r,
         DOMAIN p = 1..6 /\ \A k \in 1..6 : p[k] \in Int,
         DOMAIN q = 1..6 /\ \A k \in 1..6 : q[k] \in Int,
         DOMAIN r = 1..6 /\ \A k \in 1..6 : r[k] \in Int,
         Better(p, q), Better(q, r)
  PROVE Better(p, r)
<1>1. PICK k \in 1..6 : p[k] < q[k] /\ \A j \in 1..(k - 1) : p[j] = q[j]
  BY DEF Better
<1>2. PICK l \in 1..6 : q[l] < r[l] /\ \A j \in 1..(l - 1) : q[j] = r[j]
  BY DEF Better
<1> DEFINE m == IF k <= l THEN k ELSE l
<1>3. m \in 1..6 /\ m - 1 <= k - 1 /\ m - 1 <= l - 1
  OBVIOUS
<1>4. \A j \in 1..(m - 1) : p[j] = r[j]
  BY <1>1, <1>2, <1>3
<1>5. p[m] < r[m]
  BY <1>1, <1>2
<1> QED BY <1>3, <1>4, <1>5 DEF Better

\* The objective the refinement carries along is that of its labels. It was given other
\* labels only if it has moved, and each move has found something better and has changed
\* one cell.
Relabelled == {i \in Cells : label[i] # dealt[i]}
NoWorse == IF moves = 0 THEN label = dealt ELSE Better(best, Objective(dealt))
CarriedInv ==
  /\ moves \in Nat
  /\ zoning \in {"seeds", "partition", "assign"} => moves = 0
  /\ Refined => /\ best = Objective(label)
                /\ dealt \in [Cells -> ClassIds]
                /\ NoWorse
                /\ Cardinality(Relabelled) <= moves

\* A move is better than the labels, so than what the refinement was given.
LEMMA MoveCarries ==
  ASSUME ZoningInv, CarriedInv, Move PROVE CarriedInv'
<1>1. /\ given' = given /\ plat' = plat /\ dealt' = dealt /\ moves' = moves + 1
      /\ zoning' = "refine" /\ zoning = "refine" /\ moves \in Nat
      /\ given \in ZoningCases /\ plat \in given.plats /\ label \in [Cells -> ClassIds]
      /\ dealt \in [Cells -> ClassIds] /\ best = Objective(label) /\ NoWorse
      /\ Cardinality(Relabelled) <= moves
  BY DEF Move, ZoningInv, CarriedInv, Refined, Labelled
<1>2. PICK m \in Improving : label' = [label EXCEPT ![m.at[1]] = m.at[2]] /\ best' = m.value
  BY DEF Move
<1>3. PICK n \in Cells \X ClassIds :
            m = [at |-> n, value |-> Objective([label EXCEPT ![n[1]] = n[2]])]
  <2>1. m \in Candidates
    BY <1>2 DEF Improving
  <2> QED BY <2>1, CandidateIs, Zenon
<1>4. m.at = n /\ m.value = Objective([label EXCEPT ![n[1]] = n[2]])
  <2>1. \A a, v : [at |-> a, value |-> v].at = a /\ [at |-> a, value |-> v].value = v
    OBVIOUS
  <2> QED BY ONLY <1>3, <2>1, Zenon
<1>5. /\ label' = [label EXCEPT ![n[1]] = n[2]] /\ label' \in [Cells -> ClassIds]
      /\ n[1] \in Cells /\ \A i \in Cells : i # n[1] => label'[i] = label[i]
  BY <1>1, <1>2, <1>4
<1>6. best' = Objective(label') /\ Better(best', best)
  BY <1>2, <1>4, <1>5 DEF Improving
<1>7. Objective(label)' = Objective(label') /\ Objective(dealt)' = Objective(dealt)
  BY <1>1, SettingKept
<1>8. Better(best', Objective(dealt))
  <2>1. CASE label = dealt
    BY <1>1, <1>6, <2>1
  <2>2. CASE Better(best, Objective(dealt))
    <3> DEFINE o(lab) == Objective(lab)
               Typed(p) == DOMAIN p = 1..6 /\ \A k \in 1..6 : p[k] \in Int
    <3>1. \A lab \in [Cells -> ClassIds] : Typed(o(lab))
      BY <1>1, ObjectiveTyped
    <3>2. Typed(best') /\ Typed(best) /\ Typed(o(dealt))
      BY <1>1, <1>5, <1>6, <3>1
    <3> QED BY <1>6, <2>2, <3>2, BetterStill
  <2> QED BY <1>1, <2>1, <2>2 DEF NoWorse
<1>9. NoWorse'
  BY <1>1, <1>7, <1>8 DEF NoWorse
<1>10. Cardinality(Relabelled)' <= moves'
  <2>1. Relabelled' \subseteq Relabelled \cup {n[1]} /\ Relabelled \subseteq Cells
    BY <1>1, <1>5 DEF Relabelled, Cells
  <2>2. IsFiniteSet(Relabelled) /\ IsFiniteSet(Relabelled \cup {n[1]})
    BY <1>1, <2>1, PlanFacts, FS_Subset, FS_AddElement
  <2>3. Cardinality(Relabelled \cup {n[1]}) <= Cardinality(Relabelled) + 1
    BY <2>2, FS_AddElement, FS_CardinalityType
  <2>4. Cardinality(Relabelled') <= Cardinality(Relabelled \cup {n[1]})
    BY <2>1, <2>2, FS_Subset
  <2>5. /\ Cardinality(Relabelled) \in Nat /\ Cardinality(Relabelled \cup {n[1]}) \in Nat
        /\ Cardinality(Relabelled') \in Nat
    BY <2>1, <2>2, FS_Subset, FS_CardinalityType
  <2> QED BY <1>1, <2>3, <2>4, <2>5
<1>11. dealt' \in [Cells' -> ClassIds']
  BY <1>1 DEF Cells
<1> QED BY <1>1, <1>6, <1>7, <1>9, <1>10, <1>11 DEF CarriedInv

LEMMA CarriedStep ==
  ASSUME ZoningInv, ZoningInv', CarriedInv, [ZoningNext]_zoningVars PROVE CarriedInv'
<1>1. CASE GenerateSeeds \/ Partition
  BY <1>1 DEF GenerateSeeds, Partition, CarriedInv, Refined
<1>2. ASSUME NEW i \in Cells, NEW z \in ClassIds, Assign(i, z) PROVE CarriedInv'
  BY <1>2 DEF Assign, CarriedInv, Refined
<1>3. CASE BeginRefinement
  <2>1. /\ given' = given /\ plat' = plat /\ label' = label /\ dealt' = label /\ moves' = 0
        /\ best' = Objective(label) /\ zoning' = "refine"
    BY <1>3 DEF BeginRefinement, CarriedInv
  <2>2. dealt' \in [Cells' -> ClassIds'] /\ label' = dealt'
    BY <2>1 DEF ZoningInv, Refined
  <2>3. Objective(label)' = Objective(label')
    BY <2>1, SettingKept
  <2>4. Relabelled' = {}
    BY <2>1 DEF Relabelled
  <2>5. Cardinality(Relabelled') = 0
    BY <2>4, FS_EmptySet
  <2> QED BY <2>1, <2>2, <2>3, <2>5 DEF CarriedInv, NoWorse
<1>4. CASE Move
  BY <1>4, MoveCarries
<1>5. CASE Stop \/ EvaluateZones \/ UNCHANGED zoningVars
  <2>1. /\ given' = given /\ plat' = plat /\ label' = label /\ dealt' = dealt /\ moves' = moves
        /\ best' = best /\ (Refined' => Refined)
        /\ (zoning' \in {"seeds", "partition", "assign"} => zoning' = zoning)
    BY <1>5 DEF Stop, EvaluateZones, zoningVars, Refined
  <2>2. Objective(label)' = Objective(label') /\ Objective(dealt)' = Objective(dealt')
    BY <2>1, SettingKept
  <2>3. Objective(label') = Objective(label) /\ Objective(dealt') = Objective(dealt)
    BY <2>1
  <2>4. NoWorse => NoWorse'
    BY <2>1, <2>2, <2>3 DEF NoWorse
  <2>5. Relabelled' = Relabelled /\ Cells' = Cells /\ ClassIds' = ClassIds
    BY <2>1 DEF Relabelled, Cells
  <2> QED BY <2>1, <2>2, <2>3, <2>4, <2>5 DEF CarriedInv
<1> QED BY <1>1, <1>2, <1>3, <1>4, <1>5 DEF ZoningNext

\* The labels a refinement returns carry its objective, are those it was given or strictly
\* better, with at most one cell changed a move, and where it converged without forbidden
\* pairs, it has left no cell alone below its minimum.
THEOREM RefinementIsSettled == ZoningSpec => []RefinementSettles
<1>1. ZoningInit => CarriedInv /\ RefinementSettles
  BY DEF ZoningInit, CarriedInv, Refined, RefinementSettles
<1>2. ASSUME ZoningInv, ZoningInv', CarriedInv, RefinementSettles, [ZoningNext]_zoningVars
      PROVE CarriedInv' /\ RefinementSettles'
  <2>1. CarriedInv'
    BY <1>2, CarriedStep
  <2>2. CASE GenerateSeeds \/ Partition \/ BeginRefinement \/ Move \/ EvaluateZones
    <3>1. zoning' \notin {"stable", "max_iterations"}
      BY <2>2 DEF GenerateSeeds, Partition, BeginRefinement, Move, EvaluateZones
    <3> QED BY <2>1, <3>1 DEF RefinementSettles
  <2>3. ASSUME NEW i \in Cells, NEW z \in ClassIds, Assign(i, z) PROVE RefinementSettles'
    BY <2>3 DEF Assign, RefinementSettles
  <2>4. zoning' \in {"stable", "max_iterations"} =>
          (best = Objective(label) /\ NoWorse /\ Cardinality(Relabelled) <= moves)'
    BY <2>1 DEF CarriedInv, Refined
  <2>5. CASE Stop
    <3>1. /\ given' = given /\ plat' = plat /\ label' = label /\ best' = best
          /\ zoning = "refine" /\ (zoning' = "stable" => Improving = {})
      BY <2>5 DEF Stop
    <3>2. given \in ZoningCases /\ plat \in given.plats /\ label \in [Cells -> ClassIds]
          /\ best = Objective(label)
      BY <1>2, <3>1 DEF ZoningInv, CarriedInv, Labelled, Refined
    <3>3. ASSUME zoning' = "stable", "FORBIDDEN" \notin Range(given.policy), NEW i \in Cells,
                 plat.area[i] < given.minimum[label[i]]
          PROVE Neighbors(i) = {} \/ \E j \in Neighbors(i) : label[j] = label[i]
      BY ONLY <3>1, <3>2, <3>3, Settled
    <3>4. \A i : Neighbors(i)' = Neighbors(i)
      BY <3>1 DEF Neighbors, Cells
    <3>5. Cells' = Cells
      BY <3>1 DEF Cells
    <3>6. RefinementSettles'
      BY <2>4, <3>1, <3>3, <3>4, <3>5 DEF RefinementSettles, NoWorse, Relabelled
    <3> QED BY <2>1, <3>6
  <2>6. CASE UNCHANGED zoningVars
    <3>1. Cells' = Cells /\ \A i : Neighbors(i)' = Neighbors(i)
      BY <2>6 DEF zoningVars, Neighbors, Cells
    <3>2. RefinementSettles'
      BY <1>2, <2>4, <2>6, <3>1 DEF zoningVars, RefinementSettles, NoWorse, Relabelled
    <3> QED BY <2>1, <3>2
  <2> QED BY <1>2, <2>1, <2>2, <2>3, <2>5, <2>6 DEF ZoningNext
<1> QED BY <1>1, <1>2, ZoningAlways, PTL DEF ZoningSpec

-----------------------------------------------------------------------------
(* Infrastructure: what a facility serves. *)

\* What each demand gets of a facility that reaches those in C, and the benefit of that.
GivenBy(q, C, cap) ==
  [d \in DOMAIN q |->
     IF d \notin C THEN 0
     ELSE Min({q[d], Max({cap - SumFunctionOnSet(q, {x \in C : x < d}), 0})})]
BenefitBy(q, C, cap) == Min({SumFunctionOnSet(q, C), cap})

Giving(D, q, C, cap) ==
  IsFiniteSet(D) /\ D \subseteq Int /\ q \in [D -> Nat] /\ C \in SUBSET D /\ cap \in Nat
\* The demands of C before d, and what they want.
Wanted(q, C, B, d, s) ==
  B \in SUBSET C /\ (\A x \in C : x \in B <=> x < d) /\ s = SumFunctionOnSet(q, B)

\* What a facility gives to one demand.
LEMMA GivenIs ==
  ASSUME NEW D, NEW q, NEW C, NEW cap, Giving(D, q, C, cap), NEW d, d \in D,
         NEW B, NEW s, Wanted(q, C, B, d, s)
  PROVE /\ s \in Nat
        /\ GivenBy(q, C, cap)[d] =
             IF d \notin C THEN 0
             ELSE IF s + q[d] <= cap THEN q[d] ELSE IF s <= cap THEN cap - s ELSE 0
        /\ GivenBy(q, C, cap)[d] \in 0..q[d]
<1>0. /\ IsFiniteSet(D) /\ D \subseteq Int /\ q \in [D -> Nat] /\ C \in SUBSET D /\ cap \in Nat
      /\ B \in SUBSET C /\ (\A x \in C : x \in B <=> x < d) /\ s = SumFunctionOnSet(q, B)
  BY DEF Giving, Wanted
<1>1. s \in Nat
  <2>1. IsFiniteSet(B) /\ \A y \in B : q[y] \in Nat
    BY <1>0, FS_Subset, B \in SUBSET D
  <2> QED BY <1>0, <2>1, SumIsNat
<1>2. GivenBy(q, C, cap)[d] = IF d \notin C THEN 0 ELSE Min({q[d], Max({cap - s, 0})})
  <2>1. B = {x \in C : x < d}
    BY <1>0
  <2> QED BY <1>0, <2>1 DEF GivenBy
<1>3. Max({cap - s, 0}) = IF s <= cap THEN cap - s ELSE 0
  <2>1. cap - s \in Int /\ 0 \in Int
    BY <1>0, <1>1
  <2>2. Max({cap - s, 0}) = IF cap - s <= 0 THEN 0 ELSE cap - s
    BY ONLY <2>1, TwoOf
  <2> QED BY ONLY <1>0, <1>1, <2>2
<1>4. q[d] \in Nat
  BY <1>0
<1>5. Min({q[d], Max({cap - s, 0})})
        = IF s + q[d] <= cap THEN q[d] ELSE IF s <= cap THEN cap - s ELSE 0
  <2> DEFINE m == Max({cap - s, 0})
  <2>1. m = (IF s <= cap THEN cap - s ELSE 0) /\ m \in Int
    BY <1>0, <1>1, <1>3
  <2> HIDE DEF m
  <2>2. Min({q[d], m}) = IF q[d] <= m THEN q[d] ELSE m
    BY <1>4, <2>1, TwoOf
  <2>3. Min({q[d], m}) = IF s + q[d] <= cap THEN q[d] ELSE IF s <= cap THEN cap - s ELSE 0
    BY ONLY <1>0, <1>1, <1>4, <2>1, <2>2
  <2> QED BY <2>3 DEF m
<1>6. GivenBy(q, C, cap)[d] =
        IF d \notin C THEN 0
        ELSE IF s + q[d] <= cap THEN q[d] ELSE IF s <= cap THEN cap - s ELSE 0
  BY <1>2, <1>5
<1>7. GivenBy(q, C, cap)[d] \in 0..q[d]
  BY ONLY <1>0, <1>1, <1>4, <1>6
<1> QED BY <1>1, <1>6, <1>7

LEMMA GivenIsLess ==
  ASSUME NEW D, NEW q, NEW C, NEW cap, Giving(D, q, C, cap), NEW d, d \in D
  PROVE GivenBy(q, C, cap)[d] \in 0..q[d] /\ q[d] \in Nat
<1> DEFINE B == {y \in C : y < d}
           s == SumFunctionOnSet(q, B)
<1>1. Wanted(q, C, B, d, s)
  BY DEF Wanted
<1> HIDE DEF B, s
<1> QED BY <1>1, GivenIs DEF Giving

\* Served in order until the capacity is used, the demands get the benefit in all.
LEMMA GivenIsBenefit ==
  ASSUME NEW D, NEW q, NEW C, NEW cap, Giving(D, q, C, cap)
  PROVE SumFunctionOnSet(GivenBy(q, C, cap), D) = BenefitBy(q, C, cap)
<1> DEFINE g == GivenBy(q, C, cap)
           G(T) == SumFunctionOnSet(g, T)
           Q(T) == SumFunctionOnSet(q, T)
           Initial(T) == \A x \in T : \A y \in C : y < x => y \in T
           Lesser(a) == IF a <= cap THEN a ELSE cap
           Good == {T \in SUBSET C : Initial(T) => G(T) = Lesser(Q(T))}
<1>0. /\ IsFiniteSet(C) /\ (\A x \in D : g[x] \in 0..q[x]) /\ \A x \in D : q[x] \in Nat
      /\ IsFiniteSet(D) /\ D \subseteq Int /\ q \in [D -> Nat] /\ C \in SUBSET D /\ cap \in Nat
  BY GivenIsLess, FS_Subset DEF Giving
<1>1. ASSUME NEW T \in SUBSET C, \A R \in SUBSET T : R # T => R \in Good PROVE T \in Good
  <2> SUFFICES ASSUME Initial(T) PROVE G(T) = Lesser(Q(T))
    OBVIOUS
  <2>1. CASE T = {}
    BY <1>0, <2>1, SumOfNone
  <2>2. CASE T # {}
    <3> DEFINE m == Max(T)
               R == T \ {m}
    <3>0. IsFiniteSet(T) /\ T \subseteq Int
      BY <1>0, FS_Subset
    <3>1. m \in T /\ \A x \in T : x <= m
      BY <2>2, <3>0, MaxOf
    <3> HIDE DEF m
    <3>2. R = {x \in C : x < m}
      <4>1. \A x \in C : x < m => x \in T
        BY <3>1
      <4>2. \A x \in C : x \in Int
        BY <1>0
      <4>3. \A x \in T : x # m => x < m
        BY <3>0, <3>1
      <4>4. \A x : x \in R <=> x \in C /\ x < m
        <5>1. m \in T /\ m \in Int /\ T \in SUBSET C /\ \A x : x \in R <=> x \in T /\ x # m
          BY <3>0, <3>1
        <5> HIDE DEF R
        <5>2. \A x \in R : x \in C /\ x < m
          BY ONLY <4>3, <5>1
        <5>3. ~(m < m)
          BY ONLY <5>1
        <5>4. \A x \in C : x < m => x \in R
          BY ONLY <4>1, <5>1, <5>3
        <5> QED BY ONLY <5>2, <5>4
      <4> HIDE DEF R
      <4> QED BY <4>4
    <3>3. Initial(R) /\ R # T /\ R \in SUBSET T
      BY <3>0, <3>1, <3>2
    <3>4. G(R) = Lesser(Q(R))
      BY <1>1, <3>3
    <3> HIDE DEF g
    <3>5. G(T) = G(R) + g[m] /\ Q(T) = Q(R) + q[m]
      <4>1. \A x \in T : g[x] \in Int /\ q[x] \in Int
        BY <1>0
      <4> QED BY <3>0, <3>1, <4>1, SumOfMore
    <3>6. /\ Q(R) \in Nat
          /\ g[m] = IF Q(R) + q[m] <= cap THEN q[m] ELSE IF Q(R) <= cap THEN cap - Q(R) ELSE 0
      <4>1. m \in D /\ m \in C
        BY <1>0, <3>1
      <4>2. R \in SUBSET C /\ \A x \in C : x \in R <=> x < m
        BY <3>2
      <4> HIDE DEF R
      <4>3. Wanted(q, C, R, m, Q(R)) /\ m \in D
        BY <1>0, <4>1, <4>2 DEF Wanted
      <4> HIDE DEF Q
      <4>4. /\ Q(R) \in Nat
            /\ g[m] = IF m \notin C THEN 0
                      ELSE IF Q(R) + q[m] <= cap THEN q[m] ELSE IF Q(R) <= cap THEN cap - Q(R) ELSE 0
        BY ONLY <4>3, Giving(D, q, C, cap), GivenIs DEF g
      <4> QED BY <4>1, <4>4
    <3>7. q[m] \in Nat
      BY <1>0, <3>1
    <3> HIDE DEF G, Q, R
    <3>8. G(T) = Lesser(Q(T))
      BY ONLY <1>0, <3>4, <3>5, <3>6, <3>7
    <3> QED BY <3>8 DEF G, Q
  <2> QED BY <2>1, <2>2
<1>2. SUBSET C \subseteq Good
  <2> HIDE DEF Good
  <2> QED BY <1>0, <1>1, SubsetInduction
<1>3. G(C) = Lesser(Q(C))
  <2>1. C \in Good /\ Initial(C)
    BY <1>2
  <2> QED BY <2>1
<1>4. G(D) = G(C)
  <2>1. G(C \cup (D \ C)) = G(C) + G(D \ C)
    <3>1. IsFiniteSet(D \ C) /\ C \cap (D \ C) = {} /\ \A x \in C \cup (D \ C) : g[x] \in Int
      BY <1>0, FS_Subset
    <3> HIDE DEF g
    <3> QED BY <1>0, <3>1, SumOfUnion
  <2>2. G(D \ C) = 0
    <3> DEFINE z == [x \in D \ C |-> 0]
    <3>1. IsFiniteSet(D \ C) /\ \A x \in D \ C : g[x] = 0 /\ g[x] = z[x] /\ g[x] \in Int
      <4>1. IsFiniteSet(D \ C)
        BY <1>0, FS_Subset
      <4>2. \A x \in D \ C : g[x] = 0
        BY <1>0 DEF GivenBy
      <4> HIDE DEF g
      <4> QED BY <4>1, <4>2
    <3>2. \A x \in D \ C : z[x] = 0
      OBVIOUS
    <3> HIDE DEF g, z
    <3>3. SumFunctionOnSet(g, D \ C) = SumFunctionOnSet(z, D \ C)
      BY <3>1, SumSame
    <3>4. SumFunctionOnSet(z, D \ C) = 0
      BY <3>1, <3>2, SumOfZeros
    <3> QED BY <3>3, <3>4
  <2>3. C \cup (D \ C) = D /\ G(C) \in Int
    <3>1. \A x \in C : g[x] \in Int
      BY <1>0
    <3> HIDE DEF g
    <3> QED BY <1>0, <3>1, SumIsInt
  <2>4. G(D) = G(C \cup (D \ C))
    BY <2>3
  <2> HIDE DEF G
  <2> QED BY ONLY <2>1, <2>2, <2>3, <2>4
<1>5. Q(C) \in Nat
  <2>1. \A x \in C : q[x] \in Nat
    BY <1>0
  <2> QED BY <1>0, <2>1, SumIsNat
<1>6. Min({Q(C), cap}) = Lesser(Q(C))
  <2> HIDE DEF Q
  <2> QED BY <1>0, <1>5, TwoOf
<1> QED BY <1>3, <1>4, <1>6 DEF BenefitBy

\* A benefit is what is wanted, up to the capacity.
LEMMA BenefitIs ==
  ASSUME NEW C, IsFiniteSet(C), NEW q, \A d \in C : q[d] \in Nat, NEW cap \in Nat
  PROVE /\ SumFunctionOnSet(q, C) \in Nat /\ BenefitBy(q, C, cap) \in Nat
        /\ BenefitBy(q, C, cap) =
             IF SumFunctionOnSet(q, C) <= cap THEN SumFunctionOnSet(q, C) ELSE cap
<1>1. SumFunctionOnSet(q, C) \in Nat
  BY SumIsNat
<1> DEFINE s == SumFunctionOnSet(q, C)
<1> HIDE DEF s
<1>2. Min({s, cap}) = IF s <= cap THEN s ELSE cap
  BY <1>1, TwoOf DEF s
<1>3. Min({s, cap}) \in Nat
  BY <1>1, <1>2 DEF s
<1> QED BY <1>1, <1>2, <1>3 DEF BenefitBy, s

\* Less demand is less benefit; no benefit is no demand.
LEMMA BenefitFalls ==
  ASSUME NEW C, IsFiniteSet(C), NEW p, NEW q, NEW cap \in Nat,
         \A d \in C : p[d] \in Nat /\ q[d] \in Nat /\ p[d] <= q[d]
  PROVE BenefitBy(p, C, cap) <= BenefitBy(q, C, cap)
<1> DEFINE P == SumFunctionOnSet(p, C)
           Q == SumFunctionOnSet(q, C)
<1>1. P <= Q
  BY SumLeq
<1>2. P \in Nat /\ BenefitBy(p, C, cap) = IF P <= cap THEN P ELSE cap
  BY BenefitIs
<1>3. Q \in Nat /\ BenefitBy(q, C, cap) = IF Q <= cap THEN Q ELSE cap
  BY BenefitIs
<1> HIDE DEF P, Q
<1> QED BY <1>1, <1>2, <1>3

LEMMA NoBenefitLeft ==
  ASSUME NEW C, IsFiniteSet(C), NEW q, \A d \in C : q[d] \in Nat, NEW cap \in Nat \ {0},
         BenefitBy(q, C, cap) <= 0, NEW d \in C
  PROVE q[d] = 0
<1> DEFINE Q == SumFunctionOnSet(q, C)
<1>1. Q \in Nat /\ BenefitBy(q, C, cap) = IF Q <= cap THEN Q ELSE cap
  BY BenefitIs
<1>2. SumFunctionOnSet(q, {d}) <= Q
  BY SumGrows, {d} \in SUBSET C
<1>3. SumFunctionOnSet(q, {d}) = q[d] /\ q[d] \in Nat
  BY SumOfOne
<1> HIDE DEF Q
<1> QED BY <1>1, <1>2, <1>3

\* What the loop has accepted accounts for the demand it has served: D are the demands, U
\* what was unmet at first, F the feasible sites, cov what they reach.
SupplySetting(D, U, F, cov, cap) ==
  /\ IsFiniteSet(D) /\ D \subseteq Int /\ U \in [D -> Nat] /\ cap \in Nat \ {0}
  /\ \A c \in F : cov[c] \in SUBSET D
Entries(F, acc) == acc \in Seq([site : F, benefit : Nat])
IsFree(acc, c) == \A k \in 1..Len(acc) : acc[k].site # c
Balanced(D, U, rem, acc) ==
  SumFunctionOnSet([d \in D |-> U[d] - rem[d]], D)
    = SumFunctionOnSet([i \in 1..Len(acc) |-> acc[i].benefit], 1..Len(acc))
Ledger(D, U, F, cov, cap, rem, acc) ==
  /\ rem \in [D -> Nat] /\ \A d \in D : rem[d] <= U[d]
  /\ Entries(F, acc)
  /\ \A i, j \in 1..Len(acc) : acc[i].site = acc[j].site => i = j
  /\ Balanced(D, U, rem, acc)
  /\ \A i, j \in 1..Len(acc) : i < j => acc[i].benefit >= acc[j].benefit
  /\ \A c \in F : IsFree(acc, c) =>
       \A i \in 1..Len(acc) : BenefitBy(rem, cov[c], cap) <= acc[i].benefit
  /\ \A i \in 1..Len(acc) : acc[i].benefit < cap => \A d \in cov[acc[i].site] : rem[d] = 0

\* The site with the most benefit is accepted next.
NextBest(F, cov, cap, rem, acc, c) ==
  /\ c \in F /\ IsFree(acc, c)
  /\ \A x \in F : IsFree(acc, x) => BenefitBy(rem, cov[x], cap) <= BenefitBy(rem, cov[c], cap)
LeftBy(D, rem, C, cap) == [d \in D |-> rem[d] - GivenBy(rem, C, cap)[d]]
Entered(acc, c, b) == Append(acc, [site |-> c, benefit |-> b])

LEMMA LeftByIs ==
  ASSUME NEW D, NEW rem, NEW C, NEW cap, Giving(D, rem, C, cap)
  PROVE /\ LeftBy(D, rem, C, cap) \in [D -> Nat]
        /\ \A d \in D : /\ GivenBy(rem, C, cap)[d] \in Nat /\ rem[d] \in Nat
                        /\ LeftBy(D, rem, C, cap)[d] = rem[d] - GivenBy(rem, C, cap)[d]
                        /\ LeftBy(D, rem, C, cap)[d] \in Nat /\ LeftBy(D, rem, C, cap)[d] <= rem[d]
<1> DEFINE g == GivenBy(rem, C, cap)
           l == LeftBy(D, rem, C, cap)
<1>1. \A d \in D : g[d] \in 0..rem[d] /\ rem[d] \in Nat
  BY GivenIsLess
<1>2. (\A d \in D : l[d] = rem[d] - g[d]) /\ l = [d \in D |-> l[d]]
  BY DEF LeftBy
<1> HIDE DEF g, l
<1>3. \A d \in D : g[d] \in Nat /\ l[d] \in Nat /\ l[d] <= rem[d]
  BY <1>1, <1>2
<1>4. l \in [D -> Nat]
  BY <1>2, <1>3
<1> QED BY <1>1, <1>2, <1>3, <1>4 DEF g, l

LEMMA EntriesAre ==
  ASSUME NEW F, NEW acc, Entries(F, acc)
  PROVE Len(acc) \in Nat /\ \A i \in 1..Len(acc) : acc[i].site \in F /\ acc[i].benefit \in Nat
<1> DEFINE R == [site : F, benefit : Nat]
<1>1. acc \in Seq(R)
  BY DEF Entries
<1>2. \A e \in R : e.site \in F /\ e.benefit \in Nat
  OBVIOUS
<1> HIDE DEF R
<1>3. Len(acc) \in Nat /\ \A i \in 1..Len(acc) : acc[i] \in R
  BY <1>1
<1> QED BY <1>2, <1>3

LEMMA EnteredIs ==
  ASSUME NEW F, NEW acc, Entries(F, acc), NEW c, c \in F, NEW b, b \in Nat
  PROVE /\ Entries(F, Entered(acc, c, b))
        /\ Len(acc) \in Nat /\ Len(Entered(acc, c, b)) = Len(acc) + 1
        /\ \A i \in 1..Len(acc) : Entered(acc, c, b)[i] = acc[i]
        /\ Entered(acc, c, b)[Len(acc) + 1].site = c
        /\ Entered(acc, c, b)[Len(acc) + 1].benefit = b
<1> DEFINE R == [site : F, benefit : Nat]
           e == [site |-> c, benefit |-> b]
<1>1. e \in R /\ e.site = c /\ e.benefit = b
  OBVIOUS
<1>2. acc \in Seq(R)
  BY DEF Entries
<1> HIDE DEF R, e
<1>3. /\ Append(acc, e) \in Seq(R)
      /\ Len(acc) \in Nat /\ Len(Append(acc, e)) = Len(acc) + 1
      /\ \A i \in 1..Len(acc) : Append(acc, e)[i] = acc[i]
      /\ Append(acc, e)[Len(acc) + 1] = e
  BY <1>1, <1>2
<1>4. Entered(acc, c, b) = Append(acc, e)
  BY DEF Entered, e
<1> QED BY <1>1, <1>3, <1>4 DEF Entries, R

\* The account of one more facility.
LEMMA AccountGrows ==
  ASSUME NEW D, NEW rem, NEW C, NEW cap, Giving(D, rem, C, cap), NEW U, U \in [D -> Nat],
         NEW F, NEW acc, Entries(F, acc), Balanced(D, U, rem, acc), NEW c, c \in F
  PROVE Balanced(D, U, LeftBy(D, rem, C, cap), Entered(acc, c, BenefitBy(rem, C, cap)))
<1> DEFINE g == GivenBy(rem, C, cap)
           l == LeftBy(D, rem, C, cap)
           b == BenefitBy(rem, C, cap)
           acc2 == Entered(acc, c, b)
           n == Len(acc)
           f == [d \in D |-> U[d] - rem[d]]
           h == [d \in D |-> U[d] - l[d]]
           p == [i \in 1..n |-> acc[i].benefit]
           q == [i \in 1..Len(acc2) |-> acc2[i].benefit]
<1>0. /\ IsFiniteSet(D) /\ D \subseteq Int /\ rem \in [D -> Nat] /\ C \in SUBSET D /\ cap \in Nat
      /\ IsFiniteSet(C)
  BY FS_Subset DEF Giving
<1>1. b \in Nat
  <2>1. \A d \in C : rem[d] \in Nat
    BY <1>0
  <2> QED BY <1>0, <2>1, BenefitIs
<1>2. \A d \in D : g[d] \in Nat /\ rem[d] \in Nat /\ l[d] = rem[d] - g[d] /\ U[d] \in Nat
  BY LeftByIs
<1>3. SumFunctionOnSet(g, D) = b
  BY GivenIsBenefit
<1> HIDE DEF b
<1>4. /\ n \in Nat /\ Len(acc2) = n + 1
      /\ (\A i \in 1..n : acc2[i] = acc[i] /\ acc[i].benefit \in Nat)
      /\ acc2[n + 1].benefit = b
  <2>1. /\ Len(acc2) = Len(acc) + 1 /\ Entries(F, acc2)
        /\ \A i \in 1..Len(acc) : acc2[i] = acc[i]
        /\ acc2[Len(acc) + 1].site = c /\ acc2[Len(acc) + 1].benefit = b
    BY <1>1, EnteredIs
  <2>2. Len(acc) \in Nat /\ \A i \in 1..Len(acc) : acc[i].site \in F /\ acc[i].benefit \in Nat
    BY <1>1, EntriesAre
  <2> HIDE DEF acc2
  <2> QED BY <2>1, <2>2
<1> HIDE DEF g, l, acc2
<1>5. SumFunctionOnSet(h, D) = SumFunctionOnSet(f, D) + b
  <2>1. \A d \in D : f[d] \in Int /\ g[d] \in Int /\ h[d] = f[d] + g[d]
    BY <1>2
  <2> HIDE DEF f, h
  <2>2. SumFunctionOnSet(h, D) = SumFunctionOnSet(f, D) + SumFunctionOnSet(g, D)
    BY ONLY <1>0, <2>1, SumOfSum
  <2> QED BY ONLY <1>3, <2>2
<1>6. SumFunctionOnSet(q, 1..(n + 1)) = SumFunctionOnSet(p, 1..n) + b
  <2>1. \A i \in 1..n : q[i] = p[i] /\ p[i] \in Int
    BY <1>4
  <2>2. q[n + 1] = b /\ n + 1 \in 1..(n + 1) /\ (1..(n + 1)) \ {n + 1} = 1..n
    BY <1>4
  <2>3. \A i \in 1..(n + 1) : q[i] \in Int
    <3>1. \A i \in 1..(n + 1) : i \in 1..n \/ i = n + 1
      BY <1>4
    <3> HIDE DEF q, p
    <3> QED BY <1>1, <2>1, <2>2, <3>1
  <2>4. IsFiniteSet(1..n) /\ IsFiniteSet(1..(n + 1))
    BY <1>4, FS_Interval
  <2> HIDE DEF q, p
  <2>5. SumFunctionOnSet(q, 1..(n + 1)) = SumFunctionOnSet(q, (1..(n + 1)) \ {n + 1}) + q[n + 1]
    BY <2>2, <2>3, <2>4, SumOfMore
  <2>6. SumFunctionOnSet(q, 1..n) = SumFunctionOnSet(p, 1..n)
    BY <2>1, <2>4, SumSame
  <2> QED BY <2>2, <2>5, <2>6
<1>7. SumFunctionOnSet(f, D) = SumFunctionOnSet(p, 1..n)
  BY DEF Balanced
<1>8. SumFunctionOnSet(h, D) = SumFunctionOnSet(q, 1..Len(acc2))
  <2> HIDE DEF h, q, f, p
  <2> QED BY <1>4, <1>5, <1>6, <1>7
<1> QED BY <1>8 DEF Balanced, acc2, l, b

LEMMA LedgerGrows ==
  ASSUME NEW D, NEW U, NEW F, NEW cov, NEW cap, SupplySetting(D, U, F, cov, cap),
         NEW rem, NEW acc, Ledger(D, U, F, cov, cap, rem, acc), NEW c,
         NextBest(F, cov, cap, rem, acc, c)
  PROVE Ledger(D, U, F, cov, cap, LeftBy(D, rem, cov[c], cap),
               Entered(acc, c, BenefitBy(rem, cov[c], cap)))
<1> DEFINE l == LeftBy(D, rem, cov[c], cap)
           b == BenefitBy(rem, cov[c], cap)
           acc2 == Entered(acc, c, b)
           n == Len(acc)
<1>1. /\ IsFiniteSet(D) /\ D \subseteq Int /\ U \in [D -> Nat] /\ cap \in Nat \ {0}
      /\ \A x \in F : cov[x] \in SUBSET D /\ IsFiniteSet(cov[x])
      /\ rem \in [D -> Nat] /\ Entries(F, acc)
  BY FS_Subset DEF SupplySetting, Ledger
<1>2. c \in F /\ IsFree(acc, c) /\ \A x \in F : IsFree(acc, x) => BenefitBy(rem, cov[x], cap) <= b
  BY DEF NextBest
<1>g. Giving(D, rem, cov[c], cap)
  BY <1>1, <1>2 DEF Giving
<1>3. /\ \A d \in D : l[d] \in Nat /\ l[d] <= rem[d] /\ rem[d] \in Nat
      /\ l \in [D -> Nat]
  <2>1. \A d \in D : l[d] \in Nat /\ l[d] <= rem[d] /\ rem[d] \in Nat
    BY <1>g, LeftByIs
  <2> QED BY <1>g, <2>1, LeftByIs
<1>4. \A x \in F : BenefitBy(rem, cov[x], cap) \in Nat
  <2> TAKE x \in F
  <2>1. IsFiniteSet(cov[x]) /\ \A d \in cov[x] : rem[d] \in Nat
    BY <1>1
  <2> QED BY <1>1, <2>1, BenefitIs
<1>5. \A x \in F : BenefitBy(l, cov[x], cap) <= BenefitBy(rem, cov[x], cap) /\ BenefitBy(l, cov[x], cap) \in Nat
  <2> TAKE x \in F
  <2>1. IsFiniteSet(cov[x]) /\ \A d \in cov[x] : l[d] \in Nat /\ rem[d] \in Nat /\ l[d] <= rem[d]
    BY <1>1, <1>3
  <2> HIDE DEF l
  <2> QED BY <1>1, <2>1, BenefitFalls, BenefitIs
<1>6. b \in Nat
  BY <1>2, <1>4
<1>7. /\ Entries(F, acc2) /\ n \in Nat /\ Len(acc2) = n + 1
      /\ \A i \in 1..n : acc2[i] = acc[i] /\ acc[i].site \in F /\ acc[i].benefit \in Nat
      /\ acc2[n + 1].site = c /\ acc2[n + 1].benefit = b
  <2> HIDE DEF b
  <2>1. /\ Len(acc2) = Len(acc) + 1 /\ Entries(F, acc2)
        /\ \A i \in 1..Len(acc) : acc2[i] = acc[i]
        /\ acc2[Len(acc) + 1].site = c /\ acc2[Len(acc) + 1].benefit = b
    BY <1>1, <1>2, <1>6, EnteredIs
  <2>2. Len(acc) \in Nat /\ \A i \in 1..Len(acc) : acc[i].site \in F /\ acc[i].benefit \in Nat
    BY <1>1, EntriesAre
  <2> HIDE DEF acc2
  <2> QED BY <2>1, <2>2
<1>8. Balanced(D, U, l, acc2)
  <2>1. Balanced(D, U, rem, acc)
    BY DEF Ledger
  <2> QED BY <1>1, <1>2, <1>g, <2>1, AccountGrows
<1>9. ASSUME b < cap, NEW d \in cov[c] PROVE l[d] = 0
  <2> DEFINE B == {x \in cov[c] : x < d}
             s == SumFunctionOnSet(rem, B)
             t == SumFunctionOnSet(rem, cov[c])
  <2>1. t \in Nat /\ b = IF t <= cap THEN t ELSE cap
    <3>1. IsFiniteSet(cov[c]) /\ \A x \in cov[c] : rem[x] \in Nat
      BY <1>1, <1>2
    <3> QED BY <1>1, <3>1, BenefitIs
  <2>2. s + rem[d] <= t
    <3>1. B \cup {d} \in SUBSET cov[c] /\ B \cap {d} = {}
      <4>1. d \in Int
        BY <1>1, <1>2
      <4>2. ~(d < d)
        BY <4>1
      <4> QED BY <4>2
    <3>2. IsFiniteSet(cov[c]) /\ \A x \in cov[c] : rem[x] \in Nat
      BY <1>1, <1>2
    <3>3. SumFunctionOnSet(rem, B \cup {d}) <= t
      <4> HIDE DEF B
      <4> QED BY <3>1, <3>2, SumGrows
    <3>4. IsFiniteSet(B) /\ IsFiniteSet({d})
      BY <3>2, FS_Subset, FS_Singleton
    <3>5. SumFunctionOnSet(rem, B \cup {d}) = s + SumFunctionOnSet(rem, {d})
      <4>1. \A x \in B \cup {d} : rem[x] \in Int
        BY <3>1, <3>2
      <4> HIDE DEF B
      <4> QED BY <3>1, <3>4, <4>1, SumOfUnion
    <3>6. SumFunctionOnSet(rem, {d}) = rem[d]
      BY <3>2, SumOfOne
    <3> QED BY <3>3, <3>5, <3>6
  <2>3. /\ d \in D /\ rem[d] \in Nat /\ s \in Nat
        /\ GivenBy(rem, cov[c], cap)[d] = IF d \notin cov[c] THEN 0
             ELSE IF s + rem[d] <= cap THEN rem[d] ELSE IF s <= cap THEN cap - s ELSE 0
    <3>1. d \in D /\ Wanted(rem, cov[c], B, d, s)
      BY <1>1, <1>2 DEF Wanted
    <3> HIDE DEF B, s
    <3> QED BY <1>1, <1>g, <3>1, GivenIs
  <2> HIDE DEF s, t
  <2>4. GivenBy(rem, cov[c], cap)[d] = rem[d]
    BY ONLY <1>1, <1>9, <2>1, <2>2, <2>3
  <2>5. l[d] = rem[d] - GivenBy(rem, cov[c], cap)[d]
    BY <2>3 DEF LeftBy
  <2> QED BY <2>3, <2>4, <2>5
<1> HIDE DEF l, b, acc2
<1>10. \A d \in D : l[d] <= U[d]
  <2>1. \A d \in D : rem[d] <= U[d] /\ U[d] \in Nat
    BY <1>1 DEF Ledger
  <2> QED BY <1>3, <2>1
<1>11. \A i, j \in 1..(n + 1) : acc2[i].site = acc2[j].site => i = j
  <2>1. \A i, j \in 1..n : acc[i].site = acc[j].site => i = j
    BY DEF Ledger
  <2>2. \A i \in 1..n : acc[i].site # c
    BY <1>2 DEF IsFree
  <2> QED BY <1>7, <2>1, <2>2
<1>12. \A i \in 1..n : b <= acc[i].benefit
  BY <1>2 DEF Ledger, b
<1>13. \A i, j \in 1..(n + 1) : i < j => acc2[i].benefit >= acc2[j].benefit
  <2>1. \A i, j \in 1..n : i < j => acc[i].benefit >= acc[j].benefit
    BY DEF Ledger
  <2>2. ASSUME NEW i \in 1..n, NEW j \in 1..n, i < j PROVE acc2[i].benefit >= acc2[j].benefit
    BY <1>7, <2>1, <2>2
  <2>3. ASSUME NEW i \in 1..n PROVE acc2[i].benefit >= acc2[n + 1].benefit
    <3>1. acc2[i].benefit = acc[i].benefit /\ acc[i].benefit \in Nat /\ b <= acc[i].benefit
      BY <1>7, <1>12
    <3> QED BY ONLY <1>6, <1>7, <3>1
  <2>4. \A i, j \in 1..(n + 1) : i < j => i \in 1..n /\ (j \in 1..n \/ j = n + 1)
    BY <1>7
  <2> QED BY ONLY <2>2, <2>3, <2>4
<1>14. ASSUME NEW x \in F, IsFree(acc2, x), NEW i \in 1..(n + 1)
       PROVE BenefitBy(l, cov[x], cap) <= acc2[i].benefit
  <2>1. IsFree(acc, x)
    BY <1>7, <1>14 DEF IsFree
  <2>2. BenefitBy(rem, cov[x], cap) <= b /\ \A k \in 1..n : BenefitBy(rem, cov[x], cap) <= acc[k].benefit
    BY <1>2, <2>1 DEF Ledger
  <2>3. /\ BenefitBy(l, cov[x], cap) <= BenefitBy(rem, cov[x], cap)
        /\ BenefitBy(l, cov[x], cap) \in Nat /\ BenefitBy(rem, cov[x], cap) \in Nat
    BY <1>4, <1>5
  <2>4. CASE i \in 1..n
    <3>1. acc2[i].benefit = acc[i].benefit /\ acc[i].benefit \in Nat
      BY <1>7, <2>4
    <3> QED BY <2>2, <2>3, <2>4, <3>1
  <2>5. CASE i = n + 1
    BY <1>6, <1>7, <2>2, <2>3, <2>5
  <2> QED BY <1>7, <2>4, <2>5
<1>15. ASSUME NEW i \in 1..(n + 1), acc2[i].benefit < cap, NEW d \in cov[acc2[i].site]
       PROVE l[d] = 0
  <2>1. CASE i \in 1..n
    <3>1. acc[i].benefit < cap /\ d \in cov[acc[i].site] /\ acc[i].site \in F
      BY <1>7, <1>15, <2>1
    <3>2. rem[d] = 0 /\ d \in D
      BY <1>1, <2>1, <3>1 DEF Ledger
    <3> QED BY <1>3, <3>2
  <2>2. CASE i = n + 1
    BY <1>7, <1>9, <1>15, <2>2
  <2> QED BY <1>7, <2>1, <2>2
<1>16. Ledger(D, U, F, cov, cap, l, acc2)
  BY <1>3, <1>7, <1>8, <1>10, <1>11, <1>13, <1>14, <1>15 DEF Ledger
<1> QED BY <1>16 DEF l, acc2, b

-----------------------------------------------------------------------------
(* Infrastructure: the replay of what was served. *)

ReplayBody(U, cov, cap, acc, g, k) ==
  IF k = 0 THEN U ELSE LeftBy(DOMAIN g[k - 1], g[k - 1], cov[acc[k].site], cap)
IsReplay(U, cov, cap, acc, g) ==
  /\ g = [k \in 0..Len(acc) |-> g[k]]
  /\ \A k \in 0..Len(acc) : g[k] = ReplayBody(U, cov, cap, acc, g, k)
ReplayOf(U, cov, cap, acc) ==
  CHOOSE g : g = [k \in 0..Len(acc) |-> ReplayBody(U, cov, cap, acc, g, k)]
\* Some replay leaves what remains.
Replays(U, cov, cap, acc, rem) == \E g : IsReplay(U, cov, cap, acc, g) /\ g[Len(acc)] = rem

LEMMA ReplayStarts ==
  ASSUME NEW U, NEW cov, NEW cap PROVE Replays(U, cov, cap, << >>, U)
<1> DEFINE g == [k \in 0..0 |-> U]
<1>1. g = [k \in 0..0 |-> g[k]] /\ \A k \in 0..0 : k = 0 /\ g[k] = U
  OBVIOUS
<1>2. Len(<< >>) = 0
  OBVIOUS
<1> HIDE DEF g
<1>3. IsReplay(U, cov, cap, << >>, g) /\ g[Len(<< >>)] = U
  BY <1>1, <1>2 DEF IsReplay, ReplayBody
<1> QED BY <1>3 DEF Replays

LEMMA ReplayGrows ==
  ASSUME NEW U, NEW cov, NEW cap, NEW F, NEW acc, Entries(F, acc), NEW rem, NEW D, DOMAIN rem = D,
         Replays(U, cov, cap, acc, rem), NEW c, c \in F, NEW b, b \in Nat
  PROVE Replays(U, cov, cap, Entered(acc, c, b), LeftBy(D, rem, cov[c], cap))
<1> DEFINE acc2 == Entered(acc, c, b)
           n == Len(acc)
           l == LeftBy(D, rem, cov[c], cap)
<1>1. PICK g : IsReplay(U, cov, cap, acc, g) /\ g[n] = rem
  BY DEF Replays
<1>2. n \in Nat /\ Len(acc2) = n + 1 /\ (\A i \in 1..n : acc2[i] = acc[i]) /\ acc2[n + 1].site = c
  BY EnteredIs
<1> HIDE DEF acc2, l
<1> DEFINE h == [k \in 0..(n + 1) |-> IF k = n + 1 THEN l ELSE g[k]]
<1>3. h = [k \in 0..(n + 1) |-> h[k]]
  OBVIOUS
<1>4. h[n + 1] = l /\ \A k \in 0..n : h[k] = g[k]
  BY <1>2
<1> HIDE DEF h
<1>5. ASSUME NEW k \in 0..(n + 1) PROVE h[k] = ReplayBody(U, cov, cap, acc2, h, k)
  <2>1. CASE k = 0
    <3>1. 0 \in 0..n
      BY <1>2
    <3> QED BY <1>1, <1>4, <2>1, <3>1 DEF IsReplay, ReplayBody
  <2>2. CASE k \in 1..n
    <3>1. k \in 0..n /\ k - 1 \in 0..n /\ k # 0 /\ acc2[k] = acc[k]
      BY <1>2, <2>2
    <3>2. g[k] = LeftBy(DOMAIN g[k - 1], g[k - 1], cov[acc[k].site], cap)
      BY <1>1, <3>1 DEF IsReplay, ReplayBody
    <3> QED BY <1>4, <3>1, <3>2 DEF ReplayBody
  <2>3. CASE k = n + 1
    <3>1. k # 0 /\ k - 1 = n /\ n \in 0..n
      BY <1>2, <2>3
    <3>2. h[k - 1] = rem /\ acc2[k].site = c
      BY <1>1, <1>2, <1>4, <2>3, <3>1
    <3> QED BY <1>4, <2>3, <3>1, <3>2 DEF ReplayBody, l
  <2> QED BY <1>2, <2>1, <2>2, <2>3
<1>6. IsReplay(U, cov, cap, acc2, h) /\ h[Len(acc2)] = l
  BY <1>2, <1>3, <1>4, <1>5 DEF IsReplay
<1> QED BY <1>6 DEF Replays, acc2, l

\* And so the one the metrics compute does.
LEMMA ReplayAgrees ==
  ASSUME NEW U, NEW cov, NEW cap, NEW acc, Len(acc) \in Nat, NEW rem, Replays(U, cov, cap, acc, rem)
  PROVE ReplayOf(U, cov, cap, acc)[Len(acc)] = rem
<1> DEFINE n == Len(acc)
           f == ReplayOf(U, cov, cap, acc)
<1>1. PICK g : IsReplay(U, cov, cap, acc, g) /\ g[n] = rem
  BY DEF Replays
<1>2. g = [k \in 0..n |-> ReplayBody(U, cov, cap, acc, g, k)]
  BY <1>1 DEF IsReplay
<1>3. f = [k \in 0..n |-> ReplayBody(U, cov, cap, acc, f, k)]
  BY <1>2 DEF ReplayOf
<1> HIDE DEF f
<1>4. \A k \in 0..n : f[k] = ReplayBody(U, cov, cap, acc, f, k) /\ g[k] = ReplayBody(U, cov, cap, acc, g, k)
  BY <1>1, <1>3 DEF IsReplay
<1> DEFINE Same == {k \in Nat : k <= n => f[k] = g[k]}
<1>5. 0 \in Same
  <2>1. 0 \in 0..n
    OBVIOUS
  <2> QED BY <1>4, <2>1 DEF ReplayBody
<1>6. \A k \in Nat : k \in Same => k + 1 \in Same
  <2> SUFFICES ASSUME NEW k \in Nat, k <= n => f[k] = g[k], k + 1 <= n PROVE f[k + 1] = g[k + 1]
    OBVIOUS
  <2>1. k <= n /\ k + 1 \in 0..n /\ k + 1 # 0 /\ (k + 1) - 1 = k
    OBVIOUS
  <2> QED BY <1>4, <2>1 DEF ReplayBody
<1>7. Nat \subseteq Same
  <2> HIDE DEF Same
  <2> QED BY <1>5, <1>6, NatInductionOnSet
<1> QED BY <1>1, <1>7 DEF f

-----------------------------------------------------------------------------
(* Infrastructure: the loop. *)

UnmetOf == [d \in Demands |-> Unmet(d)]
\* The ledger of the state, and that the metrics can find what remains.
Account ==
  /\ SupplySetting(Demands, UnmetOf, Feasible, covers, town.capacity)
  /\ Ledger(Demands, UnmetOf, Feasible, covers, town.capacity, remaining, accepted)
  /\ Replays(UnmetOf, covers, town.capacity, accepted, remaining)
AllIsServed == \A c \in Feasible : IsFree(accepted, c) => \A d \in covers[c] : remaining[d] = 0
Limited == stopped \in {"FACILITY_LIMIT_REACHED", "ITERATION_LIMIT_REACHED"}
Selected ==
  /\ NextBest(Feasible, covers, town.capacity, remaining, accepted, selection.site)
  /\ selection = Benefit(selection.site) /\ selection.benefit > 0

\* No call but the loop touches the account, a selection is the next best of the demand
\* that remains, and the loop ends at a limit or when nothing is left to serve.
SupplyInv ==
  /\ town \in SupplyCases /\ \E n \in Nat : Sites = 1..n
  /\ supply \notin {"stale", "mismatch"} /\ DemandAccepted /\ CacheAccepted
  /\ supply \in {"existing", "sites", "shape", "judge", "demand"} => remaining = << >>
  /\ supply \in {"existing", "sites", "shape", "judge", "demand", "route"} =>
       accepted = << >> /\ covers = << >>
  /\ supply = "route" => remaining = UnmetOf /\ UnmetOf \in [Demands -> Nat]
  /\ InLoop => Account /\ DOMAIN covers = Sites
  /\ supply = "apply" => Selected
  /\ supply = "measure" => Limited \/ AllIsServed

LEMMA SupplyFacts ==
  ASSUME town \in SupplyCases
  PROVE /\ IsFiniteSet(Demands) /\ Demands \subseteq Int /\ town.capacity \in Nat \ {0}
        /\ town.blockNode \in Seq(Nat)
        /\ \A d \in Demands : Gross(d) \in Nat /\ Served(d) \in Nat /\ Unmet(d) \in Int
<1>1. SupplyInput(town)
  BY SupplyAssumption
<1>2. /\ town.blockNode \in Seq(Nat) /\ town.signal \in [DOMAIN town.blockNode -> Nat]
      /\ town.served \in Seq([block : Nat, amount : Nat])
      /\ town.capacity \in Nat \ {0} /\ town.rate \in Nat
  BY <1>1 DEF SupplyInput, TypeInput
<1>3. Demands = 1..Len(town.blockNode) /\ Len(town.blockNode) \in Nat
  BY <1>2 DEF Demands
<1>4. IsFiniteSet(Demands) /\ Demands \subseteq Int
  BY <1>3, FS_Interval
<1>5. ASSUME NEW d \in Demands PROVE Gross(d) \in Nat
  BY <1>2 DEF Gross, Demands
<1>6. ASSUME NEW d \in Demands PROVE Served(d) \in Nat
  <2> DEFINE rows == {i \in DOMAIN town.served : town.served[i].block = d}
             R == [block : Nat, amount : Nat]
  <2>1. Served(d) = IF rows = {} THEN 0 ELSE town.served[Min(rows)].amount
    BY DEF Served
  <2>2. rows \in SUBSET (1..Len(town.served)) /\ Len(town.served) \in Nat
    BY <1>2
  <2>3. \A i \in 1..Len(town.served) : town.served[i].amount \in Nat
    <3>1. town.served \in Seq(R) /\ \A e \in R : e.amount \in Nat
      BY <1>2
    <3> HIDE DEF R
    <3> QED BY <3>1
  <2> HIDE DEF rows
  <2>4. rows # {} => Min(rows) \in rows
    <3>1. IsFiniteSet(1..Len(town.served))
      BY <2>2, UpToFinite
    <3>2. IsFiniteSet(rows)
      BY <2>2, <3>1, FS_Subset
    <3>3. rows \subseteq Int
      BY <2>2
    <3> QED BY <3>2, <3>3, MinOf
  <2>5. CASE rows = {}
    BY <2>1, <2>5
  <2>6. CASE rows # {}
    <3>1. Min(rows) \in 1..Len(town.served)
      BY <2>2, <2>4, <2>6
    <3> QED BY <2>1, <2>3, <2>6, <3>1
  <2> QED BY <2>5, <2>6
<1>7. \A d \in Demands : Unmet(d) \in Int
  BY <1>5, <1>6 DEF Unmet
<1> QED BY <1>2, <1>4, <1>5, <1>6, <1>7

\* The names of the model for what is proved above.
LEMMA ServedByIs ==
  ASSUME NEW q, NEW c
  PROVE /\ ServedBy(q, c) = GivenBy(q, covers[c], town.capacity)
        /\ AfterServing(q, c) = LeftBy(DOMAIN q, q, covers[c], town.capacity)
<1>1. ServedBy(q, c) = GivenBy(q, covers[c], town.capacity)
  BY Zenon DEF ServedBy, GivenBy, Sum
<1> QED BY <1>1 DEF AfterServing, LeftBy

LEMMA BenefitOf ==
  ASSUME NEW c
  PROVE /\ Benefit(c).site = c /\ Benefit(c).benefit = BenefitBy(remaining, covers[c], town.capacity)
        /\ Benefit(c).benefit = Min({Benefit(c).reaches, town.capacity})
BY DEF Benefit, BenefitBy, Sum

LEMMA FreeIs ==
  ASSUME NEW F, Entries(F, accepted), NEW c
  PROVE c \notin Taken <=> IsFree(accepted, c)
<1>1. DOMAIN accepted = 1..Len(accepted)
  BY DEF Entries
<1> QED BY <1>1 DEF Taken, Range, IsFree

LEMMA ReplayIs == Replay = ReplayOf(UnmetOf, covers, town.capacity, accepted)
BY Zenon DEF Replay, ReplayOf, ReplayBody, UnmetOf, AfterServing, ServedBy, LeftBy, GivenBy, Sum

LEMMA LedgerStarts ==
  ASSUME NEW D, NEW U, NEW F, NEW cov, NEW cap, SupplySetting(D, U, F, cov, cap)
  PROVE Ledger(D, U, F, cov, cap, U, << >>)
<1> DEFINE z == [d \in D |-> U[d] - U[d]]
           e == [i \in 1..0 |-> << >>[i].benefit]
<1>1. U \in [D -> Nat] /\ IsFiniteSet(D) /\ \A d \in D : U[d] \in Nat
  BY DEF SupplySetting
<1>2. SumFunctionOnSet(z, D) = 0
  <2>1. \A d \in D : z[d] = 0
    BY <1>1
  <2> HIDE DEF z
  <2> QED BY <1>1, <2>1, SumOfZeros
<1>3. Len(<< >>) = 0 /\ 1..0 = {} /\ Entries(F, << >>)
  BY DEF Entries
<1>4. SumFunctionOnSet([i \in 1..Len(<< >>) |-> << >>[i].benefit], 1..Len(<< >>)) = 0
  BY <1>3, SumOfNone
<1>5. Balanced(D, U, U, << >>)
  BY <1>2, <1>4 DEF Balanced
<1> QED BY <1>1, <1>3, <1>5 DEF Ledger

\* There is a best offer when there is an offer.
LEMMA BestIs ==
  ASSUME IsFiniteSet(Sites), Sites \subseteq Int, Offers # {},
         \A c \in Feasible : Benefit(c).benefit \in Nat
  PROVE Best \in Offers /\ \A x \in Offers : x.benefit <= Best.benefit
<1> DEFINE S == (Sites \ Taken) \cap Feasible
           f == [c \in S |-> Benefit(c).benefit]
<1>0. S \in SUBSET Sites /\ S # {} /\ \A c \in S : c \in Feasible
  <2>1. S # {}
    BY Zenon DEF Offers
  <2> QED BY <2>1
<1>1. IsFiniteSet(S) /\ S # {} /\ S \subseteq Int /\ \A c \in S : f[c] \in Int
  <2>1. IsFiniteSet(S)
    BY <1>0, FS_Subset
  <2>2. \A c \in S : f[c] \in Int
    BY <1>0
  <2> HIDE DEF S, f
  <2> QED BY <1>0, <2>1, <2>2
<1>2. \A c \in S : f[c] = Benefit(c).benefit /\ Benefit(c).site = c /\ Benefit(c) \in Offers
  BY BenefitOf DEF Offers
<1>3. \A x \in Offers : \E c \in S : x = Benefit(c)
  BY DEF Offers
<1> HIDE DEF f, S
<1>4. PICK m \in S : \A c \in S : f[c] <= f[m]
  BY <1>1, HighestOf
<1> DEFINE T == {c \in S : f[c] = f[m]}
           s == Min(T)
           b == Benefit(s)
<1>5. s \in T /\ \A c \in T : s <= c
  <2>1. T \in SUBSET S /\ T # {}
    OBVIOUS
  <2>2. IsFiniteSet(T) /\ T \subseteq Int
    BY <1>1, <2>1, FS_Subset
  <2> HIDE DEF T
  <2> QED BY <2>1, <2>2, MinOf
<1>6. ASSUME NEW x \in Offers \ {b}
      PROVE b.benefit > x.benefit \/ (b.benefit = x.benefit /\ b.site < x.site)
  <2>1. PICK c \in S : x = Benefit(c)
    BY <1>3
  <2>2. s \in S /\ b.benefit = f[m] /\ b.site = s
    BY <1>2, <1>5
  <2>3. x.benefit = f[c] /\ x.site = c /\ f[c] <= f[m] /\ f[c] \in Int /\ f[m] \in Int
    BY <1>1, <1>2, <1>4, <2>1
  <2>4. c # s
    BY <2>1
  <2>5. CASE f[c] = f[m]
    <3>1. s <= c /\ s \in Int /\ c \in Int
      BY <1>1, <1>5, <2>2, <2>5
    <3> HIDE DEF s, b
    <3> QED BY <2>2, <2>3, <2>4, <2>5, <3>1
  <2>6. CASE f[c] # f[m]
    <3> HIDE DEF s, b
    <3> QED BY <2>2, <2>3, <2>6
  <2> QED BY <2>5, <2>6
<1>7. b \in Offers
  BY <1>2, <1>5
<1> HIDE DEF b
<1>8. /\ Best \in Offers
      /\ \A x \in Offers \ {Best} :
           Best.benefit > x.benefit \/ (Best.benefit = x.benefit /\ Best.site < x.site)
  BY <1>6, <1>7 DEF Best
<1>9. \A x \in Offers : x.benefit \in Int
  BY <1>1, <1>2, <1>3
<1> QED BY <1>8, <1>9

\* What a step leaves alone keeps what is said of it.
LEMMA SupplyKept ==
  ASSUME UNCHANGED <<town, offered, covers, remaining, accepted>>
  PROVE /\ Demands' = Demands /\ UnmetOf' = UnmetOf /\ Sites' = Sites /\ Feasible' = Feasible
        /\ Account' = Account /\ AllIsServed' = AllIsServed
        /\ DemandAccepted' = DemandAccepted /\ CacheAccepted' = CacheAccepted
        /\ \A c : Benefit(c)' = Benefit(c)
<1>1. Demands' = Demands /\ Sites' = Sites /\ Feasible' = Feasible
  BY DEF Demands, Sites, Feasible
<1>2. \A d : Gross(d)' = Gross(d) /\ Served(d)' = Served(d)
  BY DEF Gross, Served
<1>3. \A d : Unmet(d)' = Unmet(d)
  BY <1>2 DEF Unmet
<1>4. UnmetOf' = UnmetOf
  BY <1>1, <1>3 DEF UnmetOf
<1>5. Account' = Account
  BY <1>1, <1>4 DEF Account
<1>6. AllIsServed' = AllIsServed
  BY <1>1 DEF AllIsServed, IsFree
<1>7. DemandAccepted' = DemandAccepted
  BY <1>3 DEF DemandAccepted
<1>8. CacheAccepted' = CacheAccepted
  BY <1>1 DEF CacheAccepted
<1>9. \A c : Benefit(c)' = Benefit(c)
  BY DEF Benefit, Sum
<1> QED BY <1>1, <1>4, <1>5, <1>6, <1>7, <1>8, <1>9

\* In the loop, by the names of the ledger.
LEMMA LoopFacts ==
  ASSUME town \in SupplyCases, \E n \in Nat : Sites = 1..n, Account
  PROVE /\ IsFiniteSet(Sites) /\ Sites \subseteq Int /\ Feasible \subseteq Sites
        /\ IsFiniteSet(Demands) /\ Demands \subseteq Int /\ remaining \in [Demands -> Nat]
        /\ Entries(Feasible, accepted) /\ town.capacity \in Nat \ {0}
        /\ \A c \in Feasible :
             /\ covers[c] \in SUBSET Demands /\ IsFiniteSet(covers[c])
             /\ \A d \in covers[c] : remaining[d] \in Nat
             /\ Benefit(c).benefit = BenefitBy(remaining, covers[c], town.capacity)
             /\ Benefit(c).site = c /\ Benefit(c).benefit \in Nat
             /\ Giving(Demands, remaining, covers[c], town.capacity)
        /\ \A c : c \in (Sites \ Taken) \cap Feasible <=> c \in Feasible /\ IsFree(accepted, c)
<1>1. IsFiniteSet(Sites) /\ Sites \subseteq Int
  BY UpToFinite
<1>2. /\ Feasible \subseteq Sites /\ Entries(Feasible, accepted) /\ town.capacity \in Nat \ {0}
      /\ remaining \in [Demands -> Nat] /\ IsFiniteSet(Demands) /\ Demands \subseteq Int
      /\ \A c \in Feasible : covers[c] \in SUBSET Demands
  BY DEF Feasible, Account, Ledger, SupplySetting
<1>3. \A c \in Feasible : IsFiniteSet(covers[c]) /\ \A d \in covers[c] : remaining[d] \in Nat
  BY <1>2, FS_Subset
<1>4. ASSUME NEW c \in Feasible
      PROVE /\ Benefit(c).benefit = BenefitBy(remaining, covers[c], town.capacity)
            /\ Benefit(c).site = c /\ Benefit(c).benefit \in Nat
  <2>1. BenefitBy(remaining, covers[c], town.capacity) \in Nat
    BY <1>2, <1>3, BenefitIs
  <2> QED BY <2>1, BenefitOf
<1>5. \A c \in Feasible : Giving(Demands, remaining, covers[c], town.capacity)
  BY <1>2 DEF Giving
<1>6. \A c : c \in (Sites \ Taken) \cap Feasible <=> c \in Feasible /\ IsFree(accepted, c)
  BY <1>2, FreeIs
<1> QED BY <1>1, <1>2, <1>3, <1>4, <1>5, <1>6

LEMMA SelectKeeps == ASSUME SupplyInv, Select PROVE SupplyInv'
<1>1. /\ supply = "select" /\ Account /\ DOMAIN covers = Sites /\ town \in SupplyCases
      /\ \E n \in Nat : Sites = 1..n
      /\ UNCHANGED <<town, offered, covers, remaining, accepted>>
  BY DEF SupplyInv, Select, InLoop
<1>2. /\ IsFiniteSet(Sites) /\ Sites \subseteq Int /\ Feasible \subseteq Sites
      /\ \A c \in Feasible :
             /\ IsFiniteSet(covers[c]) /\ \A d \in covers[c] : remaining[d] \in Nat
             /\ Benefit(c).benefit = BenefitBy(remaining, covers[c], town.capacity)
             /\ Benefit(c).site = c /\ Benefit(c).benefit \in Nat
      /\ town.capacity \in Nat \ {0}
      /\ \A c : c \in (Sites \ Taken) \cap Feasible <=> c \in Feasible /\ IsFree(accepted, c)
  BY <1>1, LoopFacts
<1>3. Offers # {} => Best \in Offers /\ \A x \in Offers : x.benefit <= Best.benefit
  BY <1>2, BestIs
<1>4. \A x : x \in Offers <=> \E c \in Feasible : IsFree(accepted, c) /\ x = Benefit(c)
  BY <1>2 DEF Offers
<1>5. /\ Account' /\ (DOMAIN covers = Sites)' /\ (town \in SupplyCases)' /\ DemandAccepted'
      /\ CacheAccepted' /\ (\E n \in Nat : Sites = 1..n)'
  BY <1>1, SupplyKept DEF SupplyInv
<1>6. CASE StopsBefore = "SELECTED"
  <2>1. supply' = "apply" /\ selection' = Best /\ Offers # {} /\ Best.benefit # 0
    BY <1>6 DEF Select, StopsBefore
  <2>2. PICK c \in Feasible : IsFree(accepted, c) /\ Best = Benefit(c)
    BY <1>3, <1>4, <2>1
  <2>3. Best.site = c /\ Best.benefit > 0
    BY <1>2, <2>1, <2>2
  <2>4. ASSUME NEW x \in Feasible, IsFree(accepted, x)
        PROVE BenefitBy(remaining, covers[x], town.capacity) <= BenefitBy(remaining, covers[c], town.capacity)
    BY <1>2, <1>3, <1>4, <2>1, <2>2, <2>4
  <2>5. NextBest(Feasible, covers, town.capacity, remaining, accepted, c)
    BY <2>2, <2>4 DEF NextBest
  <2>6. Feasible' = Feasible /\ \A x : Benefit(x)' = Benefit(x)
    BY <1>1, SupplyKept
  <2>7. NextBest(Feasible', covers', town'.capacity, remaining', accepted', selection'.site)
    BY <1>1, <2>1, <2>3, <2>5, <2>6
  <2>8. selection' = Benefit(selection.site)' /\ selection'.benefit > 0
    <3>1. Benefit(selection.site)' = Benefit(c)
      BY <1>1, <2>1, <2>3 DEF Benefit, Sum
    <3> QED BY <2>1, <2>2, <2>3, <3>1
  <2>9. Selected'
    BY <2>7, <2>8 DEF Selected
  <2> QED BY <1>5, <2>1, <2>9 DEF SupplyInv, InLoop
<1>7. CASE StopsBefore # "SELECTED"
  <2>1. supply' = "measure" /\ stopped' = StopsBefore
    BY <1>7 DEF Select
  <2>2. Limited' \/ AllIsServed
    <3>1. \/ StopsBefore \in {"FACILITY_LIMIT_REACHED", "ITERATION_LIMIT_REACHED"}
          \/ Sites = Taken \/ Offers = {} \/ (Offers # {} /\ Best.benefit = 0)
      <4>1. CASE Len(accepted) >= town.maxFacilities \/ Len(accepted) >= town.maxIterations
        BY <4>1 DEF StopsBefore
      <4>2. CASE /\ ~(Len(accepted) >= town.maxFacilities)
                 /\ ~(Len(accepted) >= town.maxIterations)
                 /\ Sites # Taken /\ Offers # {} /\ Best.benefit # 0
        <5>1. StopsBefore = "SELECTED"
          BY Zenon, <4>2 DEF StopsBefore
        <5> QED BY <1>7, <5>1
      <4> QED BY <4>1, <4>2
    <3>2. CASE StopsBefore \in {"FACILITY_LIMIT_REACHED", "ITERATION_LIMIT_REACHED"}
      BY <2>1, <3>2 DEF Limited
    <3>3. CASE Sites = Taken
      <4>1. \A c \in Feasible : ~IsFree(accepted, c)
        BY <1>2, <3>3
      <4> QED BY <4>1 DEF AllIsServed
    <3>4. CASE Offers = {}
      <4>1. \A c \in Feasible : ~IsFree(accepted, c)
        BY <1>4, <3>4
      <4> QED BY <4>1 DEF AllIsServed
    <3>5. CASE Offers # {} /\ Best.benefit = 0
      <4> SUFFICES ASSUME NEW c \in Feasible, IsFree(accepted, c), NEW d \in covers[c]
                   PROVE remaining[d] = 0
        BY DEF AllIsServed
      <4>1. BenefitBy(remaining, covers[c], town.capacity) <= 0
        BY <1>2, <1>3, <1>4, <3>5
      <4> QED BY <1>2, <4>1, NoBenefitLeft
    <3> QED BY <3>1, <3>2, <3>3, <3>4, <3>5
  <2>3. AllIsServed' = AllIsServed
    BY <1>1, SupplyKept
  <2> QED BY <1>5, <2>1, <2>2, <2>3 DEF SupplyInv, InLoop
<1> QED BY <1>6, <1>7

LEMMA ApplyKeeps == ASSUME SupplyInv, Apply PROVE SupplyInv'
<1> DEFINE c == selection.site
           cap == town.capacity
           b == BenefitBy(remaining, covers[c], cap)
<1>1. /\ supply = "apply" /\ Account /\ DOMAIN covers = Sites /\ town \in SupplyCases
      /\ (\E n \in Nat : Sites = 1..n) /\ Selected
      /\ UNCHANGED <<town, offered, covers>>
  BY DEF SupplyInv, Apply, InLoop
<1>2. /\ NextBest(Feasible, covers, cap, remaining, accepted, c) /\ selection = Benefit(c)
      /\ c \in Feasible /\ IsFree(accepted, c)
  BY <1>1 DEF Selected, NextBest
<1>3. /\ remaining \in [Demands -> Nat] /\ Giving(Demands, remaining, covers[c], cap)
      /\ Benefit(c).benefit = b /\ c \notin Taken /\ b \in Nat /\ Entries(Feasible, accepted)
  BY <1>1, <1>2, LoopFacts
<1>4. /\ supply' = "select" /\ remaining' = LeftBy(Demands, remaining, covers[c], cap)
      /\ accepted' = Entered(accepted, c, b)
  <2>1. /\ supply' = "select" /\ remaining' = AfterServing(remaining, c)
        /\ accepted' = Append(accepted, [site |-> c, benefit |-> selection.benefit])
    BY <1>2, <1>3 DEF Apply
  <2>2. DOMAIN remaining = Demands
    BY <1>3
  <2>3. AfterServing(remaining, c) = LeftBy(Demands, remaining, covers[c], cap)
    BY <2>2, ServedByIs
  <2> QED BY <1>2, <1>3, <2>1, <2>3 DEF Entered
<1>5. Demands' = Demands /\ Sites' = Sites /\ Feasible' = Feasible /\ UnmetOf' = UnmetOf /\ CacheAccepted'
  <2>1. \A d : Unmet(d)' = Unmet(d)
    BY <1>1 DEF Unmet, Gross, Served
  <2>2. Demands' = Demands /\ Sites' = Sites /\ Feasible' = Feasible
    BY <1>1 DEF Demands, Sites, Feasible
  <2>3. CacheAccepted
    BY DEF SupplyInv
  <2> QED BY <1>1, <2>1, <2>2, <2>3 DEF UnmetOf, CacheAccepted
<1>6. /\ Ledger(Demands, UnmetOf, Feasible, covers, cap, LeftBy(Demands, remaining, covers[c], cap),
               Entered(accepted, c, b))
      /\ Replays(UnmetOf, covers, cap, Entered(accepted, c, b),
                 LeftBy(Demands, remaining, covers[c], cap))
  <2>1. /\ Ledger(Demands, UnmetOf, Feasible, covers, cap, remaining, accepted)
        /\ SupplySetting(Demands, UnmetOf, Feasible, covers, cap)
        /\ Replays(UnmetOf, covers, cap, accepted, remaining)
    BY <1>1 DEF Account
  <2>2. DOMAIN remaining = Demands
    BY <1>3
  <2> HIDE DEF c, cap
  <2>3. Ledger(Demands, UnmetOf, Feasible, covers, cap, LeftBy(Demands, remaining, covers[c], cap),
               Entered(accepted, c, b))
    BY <1>2, <2>1, LedgerGrows
  <2> HIDE DEF b
  <2>4. Replays(UnmetOf, covers, cap, Entered(accepted, c, b),
                 LeftBy(Demands, remaining, covers[c], cap))
    BY <1>2, <1>3, <2>1, <2>2, ReplayGrows
  <2> QED BY <2>3, <2>4
<1>7. Account'
  <2>1. SupplySetting(Demands, UnmetOf, Feasible, covers, cap)
    BY <1>1 DEF Account
  <2> HIDE DEF c, b
  <2> QED BY <1>1, <1>4, <1>5, <1>6, <2>1 DEF Account
<1>8. DemandAccepted'
  <2>1. /\ remaining' \in [Demands -> Nat] /\ \A d \in Demands : remaining'[d] <= UnmetOf[d]
    BY <1>4, <1>6 DEF Ledger
  <2>2. \A d \in Demands : Unmet(d)' = UnmetOf[d] /\ UnmetOf[d] \in Nat
    <3>1. \A d : Unmet(d)' = Unmet(d)
      BY <1>1 DEF Unmet, Gross, Served
    <3>2. UnmetOf \in [Demands -> Nat]
      BY <1>1 DEF Account, SupplySetting
    <3>3. \A d \in Demands : UnmetOf[d] = Unmet(d)
      BY DEF UnmetOf
    <3> QED BY <3>1, <3>2, <3>3
  <2> QED BY <2>1, <2>2 DEF DemandAccepted
<1> HIDE DEF c, b, cap
<1> QED BY <1>1, <1>4, <1>5, <1>7, <1>8 DEF SupplyInv, InLoop

\* Before the demand is calculated, a call changes the candidates at most.
LEMMA EarlyKeeps ==
  ASSUME SupplyInv, supply \in {"existing", "sites", "shape", "judge"},
         supply' \in {"refused", "sites", "shape", "judge", "demand"},
         UNCHANGED <<town, covers, remaining, accepted>>, \E n \in Nat : Sites' = 1..n
  PROVE SupplyInv'
<1>1. remaining' = << >> /\ accepted' = << >> /\ covers' = << >> /\ town' \in SupplyCases
  BY DEF SupplyInv
<1>2. DOMAIN << >> = {}
  OBVIOUS
<1>3. DemandAccepted' /\ CacheAccepted'
  BY <1>1, <1>2 DEF DemandAccepted, CacheAccepted
<1>4. ~InLoop' /\ supply' \notin {"route", "apply", "measure", "stale", "mismatch"}
  BY DEF InLoop
<1> QED BY <1>1, <1>3, <1>4 DEF SupplyInv

LEMMA AdaptExistingKeeps == ASSUME SupplyInv, AdaptExisting PROVE SupplyInv'
<1>1. /\ supply = "existing" /\ supply' \in {"refused", "sites"}
      /\ UNCHANGED <<town, covers, remaining, accepted, offered>>
  BY DEF AdaptExisting
<1>2. \E n \in Nat : Sites' = 1..n
  BY <1>1 DEF SupplyInv, Sites
<1> QED BY <1>1, <1>2, EarlyKeeps

LEMMA GenerateSitesKeeps == ASSUME SupplyInv, GenerateSites PROVE SupplyInv'
<1> DEFINE considered == {i \in DOMAIN town.sources : town.sources[i].kind \in town.enabled}
           unzoned == {i \in considered : town.sources[i].zone = ""}
           barred == {i \in considered \ unzoned : town.sources[i].zone \notin town.allowed}
           kept == considered \ (unzoned \cup barred)
<1>1. /\ supply = "sites" /\ UNCHANGED <<town, covers, remaining, accepted>>
      /\ supply' \in {"refused", "shape"}
      /\ (\E n \in Nat : Sites = 1..n) /\ town \in SupplyCases
  BY DEF SupplyInv, GenerateSites
<1>2. IsFiniteSet(kept)
  <2>1. SupplyInput(town)
    BY <1>1, SupplyAssumption
  <2>2. town.sources \in Seq(Range(town.sources))
    BY <2>1 DEF SupplyInput
  <2>3. DOMAIN town.sources = 1..Len(town.sources) /\ Len(town.sources) \in Nat
    BY <2>2
  <2>4. IsFiniteSet(DOMAIN town.sources)
    BY <2>3, UpToFinite
  <2>5. kept \in SUBSET DOMAIN town.sources
    OBVIOUS
  <2> HIDE DEF kept
  <2> QED BY <2>4, <2>5, FS_Subset
<1>3. Cardinality(kept) \in Nat
  BY <1>2, FS_CardinalityType
<1>4. offered' = offered \/ DOMAIN offered' = 1..Cardinality(kept)
  <2> DEFINE entry(c) == [source |-> SetToSortSeq(kept, SourceBefore)[c], form |-> "",
                          area |-> 0, against |-> {}]
  <2>1. offered' = offered \/ offered' = [c \in 1..Cardinality(kept) |-> entry(c)]
    BY DEF GenerateSites
  <2> HIDE DEF entry, kept
  <2> QED BY <2>1
<1>5. \E n \in Nat : Sites' = 1..n
  <2> HIDE DEF kept
  <2> QED BY <1>1, <1>3, <1>4 DEF Sites
<1> QED BY <1>1, <1>5, EarlyKeeps

LEMMA ShapeSitesKeeps == ASSUME SupplyInv, ShapeSites PROVE SupplyInv'
<1>1. /\ supply = "shape" /\ supply' \in {"refused", "judge"}
      /\ UNCHANGED <<town, covers, remaining, accepted>> /\ Sites' = Sites
  BY DEF ShapeSites, Sites
<1>2. \E n \in Nat : Sites' = 1..n
  BY <1>1 DEF SupplyInv
<1> QED BY <1>1, <1>2, EarlyKeeps

LEMMA JudgeSitesKeeps == ASSUME SupplyInv, JudgeSites PROVE SupplyInv'
<1>1. /\ supply = "judge" /\ supply' = "demand"
      /\ UNCHANGED <<town, covers, remaining, accepted>> /\ Sites' = Sites
  BY DEF JudgeSites, Sites
<1>2. \E n \in Nat : Sites' = 1..n
  BY <1>1 DEF SupplyInv
<1> QED BY <1>1, <1>2, EarlyKeeps

LEMMA CalculateDemandKeeps == ASSUME SupplyInv, CalculateDemand PROVE SupplyInv'
<1>1. /\ supply = "demand" /\ UNCHANGED <<town, offered, covers, accepted>>
      /\ town \in SupplyCases /\ (\E n \in Nat : Sites = 1..n)
      /\ accepted = << >> /\ covers = << >> /\ CacheAccepted /\ DemandAccepted
  BY DEF SupplyInv, CalculateDemand
<1>2. Demands' = Demands /\ Sites' = Sites /\ \A d : Unmet(d)' = Unmet(d)
  BY <1>1 DEF Demands, Sites, Unmet, Gross, Served
<1>3. UnmetOf' = UnmetOf /\ CacheAccepted'
  BY <1>1, <1>2 DEF UnmetOf, CacheAccepted
<1>4. CASE supply' = "refused"
  <2>1. remaining' = remaining
    BY <1>4 DEF CalculateDemand
  <2>2. DemandAccepted'
    BY <1>1, <1>2, <2>1 DEF DemandAccepted
  <2> QED BY <1>1, <1>2, <1>3, <1>4, <2>2 DEF SupplyInv, InLoop
<1>5. CASE supply' # "refused"
  <2>1. /\ supply' = "route" /\ remaining' = [d \in Demands |-> Unmet(d)]
        /\ \A d \in Demands : ~(Served(d) > Gross(d))
    BY <1>5 DEF CalculateDemand
  <2>2. \A d \in Demands : Unmet(d) \in Nat
    <3>1. \A d \in Demands : Gross(d) \in Nat /\ Served(d) \in Nat
      BY <1>1, SupplyFacts
    <3> QED BY <2>1, <3>1 DEF Unmet
  <2>3. remaining' = UnmetOf /\ UnmetOf \in [Demands -> Nat]
    BY <2>1, <2>2 DEF UnmetOf
  <2>4. DemandAccepted'
    <3>1. \A d \in Demands : remaining'[d] = Unmet(d)
      BY <2>1
    <3> QED BY <1>2, <2>1, <2>2, <3>1 DEF DemandAccepted
  <2> QED BY <1>1, <1>2, <1>3, <2>1, <2>3, <2>4 DEF SupplyInv, InLoop
<1> QED BY <1>4, <1>5

LEMMA RouteKeeps == ASSUME SupplyInv, Route PROVE SupplyInv'
<1>1. /\ supply = "route" /\ UNCHANGED <<town, offered, remaining, accepted>>
      /\ town \in SupplyCases /\ (\E n \in Nat : Sites = 1..n)
      /\ accepted = << >> /\ covers = << >> /\ CacheAccepted /\ DemandAccepted
      /\ remaining = UnmetOf /\ UnmetOf \in [Demands -> Nat]
  BY DEF SupplyInv, Route
<1>2. /\ Demands' = Demands /\ Sites' = Sites /\ Feasible' = Feasible
      /\ \A d : Unmet(d)' = Unmet(d)
  BY <1>1 DEF Demands, Sites, Feasible, Unmet, Gross, Served
<1>3. UnmetOf' = UnmetOf /\ DemandAccepted'
  BY <1>1, <1>2 DEF UnmetOf, DemandAccepted
<1>4. CASE supply' = "refused"
  <2>1. covers' = covers
    BY <1>4 DEF Route
  <2>2. CacheAccepted'
    BY <1>1, <1>2, <2>1 DEF CacheAccepted
  <2> QED BY <1>1, <1>2, <1>3, <1>4, <2>2 DEF SupplyInv, InLoop
<1>5. CASE supply' # "refused"
  <2>1. /\ supply' = "select"
        /\ covers' = [c \in Sites |-> {d \in Demands : Within(SiteNode(c), town.blockNode[d])}]
    BY <1>5 DEF Route
  <2>2. DOMAIN covers' = Sites /\ \A c \in Sites : covers'[c] \in SUBSET Demands
    BY <2>1
  <2>3. CacheAccepted'
    <3>1. ASSUME NEW c \in Sites, NEW d \in covers'[c] PROVE d \in Demands /\ town.blockNode[d] # 0
      BY <2>1, <3>1 DEF Within
    <3> QED BY <1>1, <1>2, <2>2, <3>1 DEF CacheAccepted
  <2>4. SupplySetting(Demands, UnmetOf, Feasible, covers', town.capacity)
    <3>1. IsFiniteSet(Demands) /\ Demands \subseteq Int /\ town.capacity \in Nat \ {0}
      BY <1>1, SupplyFacts
    <3>2. \A c \in Feasible : covers'[c] \in SUBSET Demands
      BY <2>2 DEF Feasible
    <3> QED BY <1>1, <3>1, <3>2 DEF SupplySetting
  <2>5. Ledger(Demands, UnmetOf, Feasible, covers', town.capacity, UnmetOf, << >>)
    BY <2>4, LedgerStarts
  <2>6. Replays(UnmetOf, covers', town.capacity, << >>, UnmetOf)
    BY ReplayStarts
  <2>7. Account'
    BY <1>1, <1>2, <1>3, <2>4, <2>5, <2>6 DEF Account
  <2> QED BY <1>1, <1>2, <1>3, <2>1, <2>2, <2>3, <2>7 DEF SupplyInv, InLoop
<1> QED BY <1>4, <1>5

\* The metrics find what the loop has left.
LEMMA MeasureKeeps == ASSUME SupplyInv, Measure PROVE SupplyInv'
<1>1. /\ supply = "measure" /\ UNCHANGED <<town, offered, covers, remaining, accepted>>
      /\ town \in SupplyCases /\ (\E n \in Nat : Sites = 1..n) /\ Account /\ DOMAIN covers = Sites
      /\ CacheAccepted /\ DemandAccepted
  BY DEF SupplyInv, Measure, InLoop
<1>2. Replay[Len(accepted)] = remaining
  <2>1. Replays(UnmetOf, covers, town.capacity, accepted, remaining) /\ Entries(Feasible, accepted)
    BY <1>1 DEF Account, Ledger
  <2>2. Len(accepted) \in Nat
    BY <2>1, EntriesAre
  <2>3. ReplayOf(UnmetOf, covers, town.capacity, accepted)[Len(accepted)] = remaining
    BY <2>1, <2>2, ReplayAgrees
  <2> QED BY <2>3, ReplayIs
<1>3. supply' \in {"refused", "measured"}
  BY <1>2 DEF Measure
<1>4. Sites' = Sites /\ Account' /\ DemandAccepted' /\ CacheAccepted'
  BY <1>1, SupplyKept
<1> QED BY <1>1, <1>3, <1>4 DEF SupplyInv, InLoop

LEMMA SupplyStays == ASSUME SupplyInv, UNCHANGED supplyVars PROVE SupplyInv'
<1>1. UNCHANGED <<town, offered, covers, remaining, accepted>>
      /\ UNCHANGED <<supply, selection, stopped>>
  BY DEF supplyVars
<1>2. /\ Demands' = Demands /\ UnmetOf' = UnmetOf /\ Sites' = Sites /\ Feasible' = Feasible
      /\ Account' = Account /\ AllIsServed' = AllIsServed
      /\ DemandAccepted' = DemandAccepted /\ CacheAccepted' = CacheAccepted
      /\ \A c : Benefit(c)' = Benefit(c)
  BY <1>1, SupplyKept
<1>3. Selected' = Selected
  <2>1. Benefit(selection.site)' = Benefit(selection.site)
    BY <1>1 DEF Benefit, Sum
  <2> QED BY <1>1, <1>2, <2>1 DEF Selected
<1>4. Limited' = Limited /\ InLoop' = InLoop
  BY <1>1 DEF Limited, InLoop
<1> QED BY <1>1, <1>2, <1>3, <1>4 DEF SupplyInv

LEMMA SupplyStarts == SupplyInit => SupplyInv
<1> SUFFICES ASSUME SupplyInit PROVE SupplyInv
  OBVIOUS
<1>1. /\ supply = "existing" /\ town \in SupplyCases /\ offered = << >> /\ covers = << >>
      /\ remaining = << >> /\ accepted = << >>
  BY DEF SupplyInit
<1>2. DOMAIN << >> = {} /\ DOMAIN << >> = 1..0 /\ 0 \in Nat
  OBVIOUS
<1>3. DemandAccepted /\ CacheAccepted /\ \E n \in Nat : Sites = 1..n
  BY <1>1, <1>2 DEF DemandAccepted, CacheAccepted, Sites
<1> QED BY <1>1, <1>3 DEF SupplyInv, InLoop

LEMMA SupplyStep == SupplyInv /\ [SupplyNext]_supplyVars => SupplyInv'
<1> SUFFICES ASSUME SupplyInv, [SupplyNext]_supplyVars PROVE SupplyInv'
  OBVIOUS
<1> QED
  BY AdaptExistingKeeps, GenerateSitesKeeps, ShapeSitesKeeps, JudgeSitesKeeps, CalculateDemandKeeps,
     RouteKeeps, SelectKeeps, ApplyKeeps, MeasureKeeps, SupplyStays DEF SupplyNext

LEMMA SupplyIsAccounted == SupplyInv => LoopAccounts
<1> SUFFICES ASSUME SupplyInv PROVE LoopAccounts
  OBVIOUS
<1> DEFINE benefits == [i \in DOMAIN accepted |-> accepted[i].benefit]
<1>1. ASSUME InLoop
      PROVE /\ Sum([d \in Demands |-> Unmet(d) - remaining[d]], Demands)
                 = Sum(benefits, DOMAIN benefits)
            /\ \A i, j \in DOMAIN accepted : i < j => benefits[i] >= benefits[j]
            /\ Taken \subseteq Feasible
            /\ \A a \in Range(accepted) :
                 a.benefit < town.capacity => \A d \in covers[a.site] : remaining[d] = 0
  <2>1. Ledger(Demands, UnmetOf, Feasible, covers, town.capacity, remaining, accepted)
    BY <1>1 DEF SupplyInv, Account
  <2>2. /\ Entries(Feasible, accepted) /\ Balanced(Demands, UnmetOf, remaining, accepted)
        /\ \A i, j \in 1..Len(accepted) : i < j => accepted[i].benefit >= accepted[j].benefit
        /\ \A i \in 1..Len(accepted) : accepted[i].benefit < town.capacity =>
             \A d \in covers[accepted[i].site] : remaining[d] = 0
    BY <2>1 DEF Ledger
  <2>3. /\ DOMAIN accepted = 1..Len(accepted)
        /\ \A i \in 1..Len(accepted) : accepted[i].site \in Feasible
    <3>1. DOMAIN accepted = 1..Len(accepted)
      BY <2>2 DEF Entries
    <3> QED BY <2>2, <3>1, EntriesAre
  <2>4. Sum([d \in Demands |-> Unmet(d) - remaining[d]], Demands) = Sum(benefits, DOMAIN benefits)
    <3>1. [d \in Demands |-> Unmet(d) - remaining[d]] = [d \in Demands |-> UnmetOf[d] - remaining[d]]
      BY DEF UnmetOf
    <3>2. benefits = [i \in 1..Len(accepted) |-> accepted[i].benefit] /\ DOMAIN benefits = 1..Len(accepted)
      BY <2>3
    <3> HIDE DEF benefits
    <3> QED BY <2>2, <3>1, <3>2 DEF Balanced, Sum
  <2>5. \A i, j \in DOMAIN accepted : i < j => benefits[i] >= benefits[j]
    BY <2>2, <2>3
  <2>6. \A a \in Range(accepted) : \E i \in 1..Len(accepted) : a = accepted[i]
    BY <2>3 DEF Range
  <2>7. Taken \subseteq Feasible
    BY <2>3, <2>6 DEF Taken
  <2> HIDE DEF benefits
  <2> QED BY <2>2, <2>4, <2>5, <2>6, <2>7
<1>2. ASSUME supply = "measure",
             stopped \notin {"FACILITY_LIMIT_REACHED", "ITERATION_LIMIT_REACHED"},
             NEW c \in Feasible \ Taken, NEW d \in covers[c]
      PROVE remaining[d] = 0
  <2>1. AllIsServed /\ Account
    BY <1>2 DEF SupplyInv, Limited, InLoop
  <2>2. IsFree(accepted, c)
    BY <1>2, <2>1, FreeIs DEF Account, Ledger
  <2> QED BY <1>2, <2>1, <2>2 DEF AllIsServed
<1>3. supply \notin {"stale", "mismatch"}
  BY DEF SupplyInv
<1> HIDE DEF benefits
<1> QED BY <1>1, <1>2, <1>3 DEF LoopAccounts, benefits

\* The greedy loop accounts for what it serves, for any demand, sites, network and limits.
THEOREM LoopIsAccounted == SupplySpec => []LoopAccounts
BY SupplyStarts, SupplyStep, SupplyIsAccounted, PTL DEF SupplySpec

\* What the results of the loop demand of themselves.
SupplyRules ==
  SummaryBalances /\ DemandAccepted /\ CacheAccepted /\ SelectionAccepted /\ StateAccepted

LEMMA SummariesBalance == SupplyInv => SummaryBalances
<1> SUFFICES ASSUME SupplyInv PROVE SummaryBalances
  OBVIOUS
<1> DEFINE g == [d \in Demands |-> Gross(d)]
           s == [d \in Demands |-> Served(d)]
           u == [d \in Demands |-> Unmet(d)]
<1>1. IsFiniteSet(Demands) /\ \A d \in Demands : Gross(d) \in Nat /\ Served(d) \in Nat
  BY SupplyFacts DEF SupplyInv
<1>2. \A d \in Demands : u[d] \in Int /\ s[d] \in Int /\ g[d] = u[d] + s[d]
  BY <1>1 DEF Unmet
<1> HIDE DEF g, s, u
<1>3. SumFunctionOnSet(g, Demands) = SumFunctionOnSet(u, Demands) + SumFunctionOnSet(s, Demands)
  BY <1>1, <1>2, SumOfSum
<1>4. SumFunctionOnSet(u, Demands) \in Int /\ SumFunctionOnSet(s, Demands) \in Int
  BY <1>1, <1>2, SumIsInt
<1>5. /\ DemandSummary.gross = SumFunctionOnSet(g, Demands)
      /\ DemandSummary.served = SumFunctionOnSet(s, Demands)
      /\ DemandSummary.unmet = SumFunctionOnSet(u, Demands)
  BY DEF DemandSummary, Sum, g, s, u
<1> QED BY <1>3, <1>4, <1>5 DEF SummaryBalances

LEMMA TakenAreCounted ==
  ASSUME NEW F, Entries(F, accepted),
         \A i, j \in 1..Len(accepted) : accepted[i].site = accepted[j].site => i = j
  PROVE Cardinality(Taken) = Len(accepted) /\ Taken \subseteq F
<1> DEFINE n == Len(accepted)
           f == [i \in 1..n |-> accepted[i].site]
<1>1. DOMAIN accepted = 1..n /\ n \in Nat /\ \A i \in 1..n : accepted[i].site \in F
  <2>1. DOMAIN accepted = 1..n
    BY DEF Entries
  <2> QED BY <2>1, EntriesAre
<1>2. \A c : c \in Taken <=> \E i \in 1..n : f[i] = c
  BY <1>1 DEF Taken, Range
<1>3. f \in Bijection(1..n, Taken)
  <2>1. f \in [1..n -> Taken] /\ \A i, j \in 1..n : f[i] = f[j] => i = j
    BY <1>2
  <2>2. \A c \in Taken : \E i \in 1..n : f[i] = c
    BY <1>2
  <2> HIDE DEF f, n
  <2> QED BY <2>1, <2>2 DEF Bijection, Injection, IsInjective, Surjection
<1>4. Cardinality(Taken) = n
  <2>1. ExistsBijection(1..n, Taken)
    BY <1>3 DEF ExistsBijection
  <2> HIDE DEF f, n
  <2> QED BY <1>1, <2>1, FS_CountingElements
<1> QED BY <1>1, <1>2, <1>4

LEMMA StatesAccepted == SupplyInv => StateAccepted
<1> SUFFICES ASSUME SupplyInv, InLoop
             PROVE /\ DOMAIN covers = Sites /\ UNION Range(covers) \subseteq DOMAIN remaining
                   /\ Cardinality(Taken) = Len(accepted) /\ Taken \subseteq Sites
  BY DEF StateAccepted
<1>1. /\ DOMAIN covers = Sites /\ CacheAccepted
      /\ Ledger(Demands, UnmetOf, Feasible, covers, town.capacity, remaining, accepted)
  BY DEF SupplyInv, Account
<1>2. UNION Range(covers) \subseteq DOMAIN remaining
  <2>1. DOMAIN remaining = Demands
    BY <1>1 DEF Ledger
  <2>2. \A s \in Range(covers) : s \subseteq Demands
    BY <1>1 DEF CacheAccepted, Range
  <2> QED BY <2>1, <2>2
<1>3. Cardinality(Taken) = Len(accepted) /\ Taken \subseteq Feasible
  BY <1>1, TakenAreCounted DEF Ledger
<1> QED BY <1>1, <1>2, <1>3 DEF Feasible

LEMMA SelectionsAccepted == SupplyInv => SelectionAccepted
<1> SUFFICES ASSUME SupplyInv, supply = "apply"
             PROVE selection.benefit > 0
                   /\ selection.benefit = Min({selection.reaches, town.capacity})
  BY DEF SelectionAccepted
<1>1. selection = Benefit(selection.site) /\ selection.benefit > 0
  BY DEF SupplyInv, Selected
<1>2. Benefit(selection.site).benefit = Min({Benefit(selection.site).reaches, town.capacity})
  BY BenefitOf
<1> QED BY <1>1, <1>2

\* The summaries balance, no more demand remains than there was, the cache only knows demands
\* on the network, a selection is positive and capped, and a candidate is accepted once.
THEOREM LoopKeepsItsRules == SupplySpec => []SupplyRules
<1>1. SupplyInv => SupplyRules
  BY SummariesBalance, StatesAccepted, SelectionsAccepted DEF SupplyInv, SupplyRules
<1> QED BY <1>1, SupplyStarts, SupplyStep, PTL DEF SupplySpec

\* What the metrics say is used and what they say is unmet is the gross demand, and no more
\* is used than there is capacity.
MetricsBalance ==
  supply = "measured" =>
    metrics.used + metrics.unmet = DemandSummary.gross /\ ~(metrics.used > metrics.capacity)

LEMMA MeasureBalances == ASSUME SupplyInv, Measure PROVE MetricsBalance'
<1> SUFFICES ASSUME supply' = "measured"
             PROVE /\ metrics'.used + metrics'.unmet = DemandSummary'.gross
                   /\ ~(metrics'.used > metrics'.capacity)
  BY DEF MetricsBalance
<1> DEFINE left == Replay[Len(accepted)]
           u == [d \in Demands |-> Gross(d) - left[d]]
           g == [d \in Demands |-> Gross(d)]
<1>1. /\ metrics' = Measured(left, ExistingSamples \o SitesSamples) /\ left = remaining
      /\ ~(metrics'.used > metrics'.capacity) /\ UNCHANGED town /\ InLoop
  BY DEF Measure, InLoop
<1>2. metrics'.used = SumFunctionOnSet(u, Demands) /\ metrics'.unmet = SumFunctionOnSet(left, Demands)
  BY <1>1 DEF Measured, Sum
<1>3. IsFiniteSet(Demands) /\ \A d \in Demands : Gross(d) \in Nat
  BY SupplyFacts DEF SupplyInv
<1>4. \A d \in Demands : left[d] \in Nat
  BY <1>1 DEF SupplyInv, Account, Ledger
<1>5. \A d \in Demands : u[d] \in Int /\ left[d] \in Int /\ g[d] = u[d] + left[d]
  BY <1>3, <1>4
<1>6. DemandSummary'.gross = SumFunctionOnSet(g, Demands)
  BY <1>1 DEF DemandSummary, Sum, Demands, Gross
<1> HIDE DEF left, u, g
<1>7. SumFunctionOnSet(g, Demands) = SumFunctionOnSet(u, Demands) + SumFunctionOnSet(left, Demands)
  BY <1>3, <1>5, SumOfSum
<1> QED BY <1>1, <1>2, <1>6, <1>7

LEMMA BalanceStep == SupplyInv /\ MetricsBalance /\ [SupplyNext]_supplyVars => MetricsBalance'
<1> SUFFICES ASSUME SupplyInv, MetricsBalance, [SupplyNext]_supplyVars PROVE MetricsBalance'
  OBVIOUS
<1>1. CASE Measure
  BY <1>1, MeasureBalances
<1>2. CASE UNCHANGED supplyVars
  <2>1. DemandSummary' = DemandSummary
    BY <1>2 DEF supplyVars, DemandSummary, Demands, Gross, Served, Unmet, Sum
  <2> QED BY <1>2, <2>1 DEF supplyVars, MetricsBalance
<1>3. CASE supply' # "measured"
  BY <1>3 DEF MetricsBalance
<1>4. AdaptExisting => supply' # "measured"
  BY Zenon DEF AdaptExisting
<1>5. GenerateSites => supply' # "measured"
  BY Zenon DEF GenerateSites
<1>6. ShapeSites => supply' # "measured"
  BY Zenon DEF ShapeSites
<1>7. JudgeSites => supply' # "measured"
  BY Zenon DEF JudgeSites
<1>8. CalculateDemand => supply' # "measured"
  BY Zenon DEF CalculateDemand
<1>9. Route => supply' # "measured"
  BY Zenon DEF Route
<1>10. Select => supply' # "measured"
  BY Zenon DEF Select
<1>11. Apply => supply' # "measured"
  BY Zenon DEF Apply
<1> QED
  BY <1>1, <1>2, <1>3, <1>4, <1>5, <1>6, <1>7, <1>8, <1>9, <1>10, <1>11 DEF SupplyNext

\* And so do the metrics, whatever samples they weigh their distances by.
THEOREM MetricsAreBalanced == SupplySpec => []MetricsBalance
<1>1. SupplyInit => MetricsBalance
  BY DEF SupplyInit, MetricsBalance
<1> QED BY <1>1, SupplyStarts, SupplyStep, BalanceStep, PTL DEF SupplySpec

-----------------------------------------------------------------------------
(* Buildings: what the input promises. *)

LEMMA OverIs == ASSUME NEW f, NEW S PROVE Over(f, S) = SumFunctionOnSet(f, S)
BY Zenon DEF Over, MapThenSumSet, SumFunctionOnSet, FoldFunctionOnSet, MapThenFoldSet

\* The union of finitely many finite sets is finite.
LEMMA UnionFinite ==
  ASSUME NEW K, IsFiniteSet(K), NEW F, \A k \in K : IsFiniteSet(F[k])
  PROVE IsFiniteSet(UNION {F[k] : k \in K})
<1>1. IsFiniteSet({F[k] : k \in K})
  BY ImageFinite
<1>2. \A s \in {F[k] : k \in K} : IsFiniteSet(s)
  OBVIOUS
<1> QED BY <1>1, <1>2, FS_UNION

Areas == [DOMAIN estate.area -> Nat \ {0}]
LEMMA EstateFacts ==
  ASSUME estate \in BuildingCases
  PROVE /\ estate.area \in Areas
        /\ estate.near \subseteq estate.boxed
        /\ \A e \in estate.boxed : Cardinality(e) = 2
        /\ estate.existing \subseteq DOMAIN estate.area
        /\ LotInput(estate) /\ ProfilesInput(estate) /\ RuleInput(estate.rules)
        /\ \A z \in DOMAIN estate.targets : TargetInput(estate.targets[z])
        /\ {estate.baseAt, estate.baseCover, estate.baseFloor} \subseteq Nat
        /\ {estate.priorFootprint, estate.priorGfa} \subseteq Nat /\ estate.apart \in Nat
<1>1. BuildingInput(estate)
  BY BuildingAssumption
<1> QED BY <1>1 DEF BuildingInput, kSubset, Areas, ReserveInput, LimitInput

\* No footprint is too close to itself.
LEMMA ApartFromItself == ASSUME estate \in BuildingCases PROVE \A f : {f, f} \notin estate.near
<1>1. ASSUME NEW f, {f, f} \in estate.near PROVE FALSE
  <2>1. Cardinality({f, f}) = 2
    BY <1>1, EstateFacts
  <2>2. {f, f} = {f} /\ Cardinality({f}) = 1
    BY FS_Singleton
  <2> QED BY <2>1, <2>2
<1> QED BY <1>1

-----------------------------------------------------------------------------
(* Buildings: the sources. *)

\* What is known of a source.
IsSource(s) ==
  /\ s.kind \in {"PARCEL", "BLOCK"}
  /\ s.block \in DOMAIN estate.parcels /\ s.part \in Nat
  /\ s.zone = estate.zone[s.block] /\ s.zone # 0
  /\ s.plot.size \in Nat \ {0} /\ PlotInput(estate, s.plot)

SourcesOf(b) ==
  LET zone == estate.zone[b]
  IN  IF estate.parcels[b] # {} /\ Profiles(zone, "PARCEL") # {}
      THEN {Source("PARCEL", b, p.part, p.plot) : p \in estate.parcels[b]}
      ELSE IF Profiles(zone, "BLOCK") # {}
      THEN {Source("BLOCK", b, 0, estate.plot[b])}
      ELSE {}
ZonedBlocks == {b \in DOMAIN estate.parcels : estate.zone[b] # 0}

LEMMA SourcesAre ==
  ASSUME estate \in BuildingCases
  PROVE /\ IsFiniteSet(Sources)
        /\ \A s \in Sources : IsSource(s)
        /\ \A s, t \in Sources :
             s.kind = t.kind /\ s.block = t.block /\ s.part = t.part => s = t
<1>0. LotInput(estate)
  BY EstateFacts
<1> DEFINE F == [b \in ZonedBlocks |-> SourcesOf(b)]
<1>1. Sources = UNION {F[b] : b \in ZonedBlocks}
  BY DEF Sources, SourcesOf, ZonedBlocks
<1>2. IsFiniteSet(ZonedBlocks) /\ ZonedBlocks \subseteq DOMAIN estate.parcels
  BY <1>0, FS_Subset DEF LotInput, ZonedBlocks
<1>3. ASSUME NEW b \in ZonedBlocks
      PROVE /\ IsFiniteSet(F[b])
            /\ \A s \in F[b] : IsSource(s) /\ s.block = b
            /\ \A s, t \in F[b] : s.part = t.part => s = t
  <2>1. /\ IsFiniteSet(estate.parcels[b]) /\ PlotInput(estate, estate.plot[b])
        /\ \A p \in estate.parcels[b] : p.part \in Nat /\ PlotInput(estate, p.plot)
        /\ \A p, q \in estate.parcels[b] : p.part = q.part => p = q
        /\ b \in DOMAIN estate.parcels /\ estate.zone[b] # 0
    BY <1>0, <1>2 DEF LotInput, ZonedBlocks
  <2> DEFINE P == {Source("PARCEL", b, p.part, p.plot) : p \in estate.parcels[b]}
             B == {Source("BLOCK", b, 0, estate.plot[b])}
             g == [p \in estate.parcels[b] |-> Source("PARCEL", b, p.part, p.plot)]
  <2>2. F[b] = P \/ F[b] = B \/ F[b] = {}
    BY DEF SourcesOf
  <2>3. IsFiniteSet(P)
    <3>1. P = {g[p] : p \in estate.parcels[b]}
      OBVIOUS
    <3> HIDE DEF P, g
    <3> QED BY <2>1, <3>1, ImageFinite
  <2>4. IsFiniteSet(B) /\ IsFiniteSet({})
    BY FS_Singleton, FS_EmptySet
  <2>5. \A s \in P : IsSource(s) /\ s.block = b
    BY <2>1 DEF IsSource, Source, PlotInput
  <2>6. \A s \in B : IsSource(s) /\ s.block = b
    BY <2>1 DEF IsSource, Source, PlotInput
  <2>7. \A s, t \in P : s.part = t.part => s = t
    BY <2>1 DEF Source
  <2>8. \A s, t \in B : s = t
    OBVIOUS
  <2> HIDE DEF P, B, g, F
  <2> QED BY <2>2, <2>3, <2>4, <2>5, <2>6, <2>7, <2>8
<1> HIDE DEF F
<1>4. IsFiniteSet(Sources)
  BY <1>1, <1>2, <1>3, UnionFinite
<1> QED BY <1>1, <1>3, <1>4

\* The sources are listed in the order of their ids.
LEMMA SourceOrderIs ==
  ASSUME estate \in BuildingCases
  PROVE /\ Cardinality(Sources) \in Nat
        /\ SourceOrder \in [1..Cardinality(Sources) -> Sources]
<1>1. /\ IsFiniteSet(Sources) /\ \A s \in Sources : IsSource(s)
      /\ \A s, t \in Sources :
           s.kind = t.kind /\ s.block = t.block /\ s.part = t.part => s = t
  BY SourcesAre
<1>2. \A s \in Sources : s.kind \in {"PARCEL", "BLOCK"} /\ s.block \in Int /\ s.part \in Int
  <2>1. DOMAIN estate.parcels \subseteq Nat
    BY EstateFacts DEF LotInput
  <2> QED BY <1>1, <2>1 DEF IsSource
<1> DEFINE A == {e \in Sources \X Sources : IdBefore(e[1], e[2])}
<1>3. \A s, t \in Sources : (<<s, t>> \in A) <=> IdBefore(s, t)
  OBVIOUS
<1>4. StrictOrder(Sources, A)
  <2>1. \A x \in Sources : ~IdBefore(x, x)
    BY <1>2 DEF IdBefore
  <2>2. \A x, y, z \in Sources : IdBefore(x, y) /\ IdBefore(y, z) => IdBefore(x, z)
    BY <1>2 DEF IdBefore
  <2>3. \A x, y \in Sources : x # y => IdBefore(x, y) \/ IdBefore(y, x)
    BY <1>1, <1>2 DEF IdBefore
  <2> HIDE DEF A
  <2> QED BY <1>1, <1>3, <2>1, <2>2, <2>3 DEF StrictOrder
<1> HIDE DEF A
<1>5. /\ Cardinality(Sources) \in Nat
      /\ \A k \in 1..Cardinality(Sources) : \E s \in Sources : PlaceOf(Sources, A, s) = k
  BY <1>4, PlacesAre
<1>6. ASSUME NEW k \in 1..Cardinality(Sources)
      PROVE \E s \in Sources : Cardinality({t \in Sources : IdBefore(t, s)}) = k - 1
  <2>1. PICK s \in Sources : PlaceOf(Sources, A, s) = k
    BY <1>5
  <2>2. {t \in Sources : <<t, s>> \in A} = {t \in Sources : IdBefore(t, s)}
    BY <1>3
  <2>3. Cardinality({t \in Sources : IdBefore(t, s)}) \in Nat
    BY <1>1, FS_Subset, FS_CardinalityType
  <2>4. 1 + Cardinality({t \in Sources : IdBefore(t, s)}) = k
    BY <2>1, <2>2 DEF PlaceOf
  <2> QED BY <2>3, <2>4
<1> QED BY <1>5, <1>6 DEF SourceOrder

-----------------------------------------------------------------------------
(* Buildings: the account of a source. What follows speaks of a case e, a source s at     *)
(* position k, its result r and what is placed, so that it can be said of two states.    *)

PrintsIn(pl) == {x.print : x \in pl}
MineIn(pl, k) == {x.print : x \in {x \in pl : x.turn = k}}

Covered(e, k, S) ==
  (IF k = e.baseAt THEN e.baseCover ELSE 0) + SumFunctionOnSet(e.area, S)
Floored(e, m, k, S) ==
  (IF k = e.baseAt THEN e.baseFloor ELSE 0) + m * SumFunctionOnSet(e.area, S)
WithinWindow(e, s, m, k, S) ==
  /\ 100 * Covered(e, k, S) <= e.targets[s.zone].high * s.plot.size
  /\ 100 * Floored(e, m, k, S) <= e.targets[s.zone].farHigh * s.plot.size
Reached(e, s, m, k, S) ==
  /\ 100 * Covered(e, k, S) >= e.targets[s.zone].low * s.plot.size
  /\ 100 * Floored(e, m, k, S) >= e.targets[s.zone].farLow * s.plot.size
  /\ WithinWindow(e, s, m, k, S)
Unfit(e, s, m, k, pl, f) ==
  \/ \E g \in e.existing \cup PrintsIn(pl) : {f, g} \in e.near
  \/ ~WithinWindow(e, s, m, k, MineIn(pl, k) \cup {f})

Statuses == {"NONE", "OPEN", "CONVERGED", "CANDIDATES_EXHAUSTED", "MAX_ITERATIONS"}
Counts == [iterations : Nat, spacing : Nat, window : Nat]

\* The fields of a result; its footprints; the archetype and window of what was placed.
Shaped(r) ==
  /\ r = [envelope |-> r.envelope, archetype |-> r.archetype, multiplier |-> r.multiplier,
          candidates |-> r.candidates, proposals |-> r.proposals, placement |-> r.placement]
  /\ r.placement = [status |-> r.placement.status, counts |-> r.placement.counts]
  /\ r.placement.status \in Statuses /\ r.multiplier \in Nat /\ r.placement.counts \in Counts
Enveloped(r) ==
  EnvelopeAccepted(r.envelope) /\ (r.placement.status = "NONE" <=> r.envelope.status # "READY")
Proposed(e, r, pl, k) ==
  /\ IsFiniteSet(r.proposals) /\ r.proposals \subseteq DOMAIN e.area
  /\ MineIn(pl, k) \subseteq r.proposals
Built(e, s, r, pl, k) ==
  MineIn(pl, k) # {} =>
    /\ s.zone \in DOMAIN e.targets
    /\ WithinWindow(e, s, r.multiplier, k, MineIn(pl, k))
    /\ \E i \in DOMAIN e.profiles :
         r.archetype = e.profiles[i].name /\ s.zone \in e.profiles[i].zones
Honest(e, s, r, pl, k) ==
  /\ r.placement.status = "CONVERGED" => Reached(e, s, r.multiplier, k, MineIn(pl, k))
  /\ r.placement.status \in {"CANDIDATES_EXHAUSTED", "MAX_ITERATIONS"} =>
       ~Reached(e, s, r.multiplier, k, MineIn(pl, k))
  /\ r.placement.status = "CANDIDATES_EXHAUSTED" =>
       \A f \in r.proposals \ MineIn(pl, k) : Unfit(e, s, r.multiplier, k, pl, f)
\* Counts c of footprints looked at, of which M were taken, out of P.
AddUp(c, M, P) ==
  /\ Cardinality(M) \in Nat /\ Cardinality(P) \in Nat
  /\ c.iterations <= Cardinality(P) /\ c.spacing + c.window + Cardinality(M) = c.iterations
Accounted(e, s, r, pl, k) ==
  /\ Shaped(r) /\ Enveloped(r) /\ Proposed(e, r, pl, k) /\ Built(e, s, r, pl, k)
  /\ Honest(e, s, r, pl, k)
  /\ r.placement.status # "OPEN" => AddUp(r.placement.counts, MineIn(pl, k), r.proposals)

\* The source that is being looked at: op is still to be looked at.
Current(e, s, r, pl, k, op, c) ==
  /\ r.placement.status = "OPEN"
  /\ op \subseteq r.proposals /\ op \cap MineIn(pl, k) = {} /\ c \in Counts
  /\ s.zone \in DOMAIN e.targets
  /\ \E i \in DOMAIN e.profiles :
       r.archetype = e.profiles[i].name /\ s.zone \in e.profiles[i].zones
  /\ AddUp(c, MineIn(pl, k), r.proposals)
  /\ c.iterations + Cardinality(op) = Cardinality(r.proposals)
  /\ ~Reached(e, s, r.multiplier, k, MineIn(pl, k))
  /\ \A f \in r.proposals \ (op \cup MineIn(pl, k)) : Unfit(e, s, r.multiplier, k, pl, f)

\* No two footprints that are there are too close.
SpacedIn(e, pl) ==
  \A f \in PrintsIn(pl) : \A g \in e.existing \cup PrintsIn(pl) : {f, g} \notin e.near

Listed(q) == \E S : q \in Seq(S)
SitesInv ==
  /\ estate \in BuildingCases
  /\ sites \in [1..Len(sites) -> Sources] /\ Len(sites) \in Nat /\ Listed(sites)
  /\ sites # << >> =>
       \A i \in DOMAIN estate.profiles : \A z \in estate.profiles[i].zones :
         Rules(z, estate.profiles[i].name) # {}
TurnInv ==
  /\ Listed(opened) /\ Len(opened) \in 0..Len(sites) /\ DOMAIN opened = 1..Len(opened)
  /\ building = "prepare" => opened = << >>
  /\ IsFiniteSet(placed) /\ \A x \in placed : x.turn \in DOMAIN opened
AccountInv ==
  /\ SpacedIn(estate, placed)
  /\ \A k \in DOMAIN opened : Accounted(estate, sites[k], opened[k], placed, k)
  /\ building \in {"sources", "info", "warning"} =>
       \A k \in DOMAIN opened : opened[k].placement.status # "OPEN"
IndexInv == base \cup Chunked = estate.existing \cup PrintsIn(placed) /\ Listed(chunks)
PlaceInv ==
  building = "place" =>
    /\ Len(opened) > 0 /\ IndexInv
    /\ \A k \in DOMAIN opened : opened[k].placement.status = "OPEN" => k = Len(opened)
    /\ Current(estate, sites[Len(opened)], opened[Len(opened)], placed, Len(opened), open, looked)
LedgerInv ==
  /\ building \notin {"info", "warning"} => ledger = << >>
  /\ building = "info" => \A k \in DOMAIN opened : opened[k].placement.status = "CONVERGED"
  /\ ledger # << >> =>
       /\ SummaryAccepted(ledger.areas)
       /\ DOMAIN ledger.attributes = Footprints /\ AttributesAccepted(ledger.attributes)
       /\ \A f \in Footprints : \E r \in ledger.blocks :
            r.block = ledger.owners[f].block /\ r.zone = ledger.owners[f].zone
BuildingInv ==
  /\ building \in {"prepare", "sources", "place", "error", "info", "warning"}
  /\ SitesInv /\ TurnInv /\ AccountInv /\ PlaceInv /\ LedgerInv

-----------------------------------------------------------------------------
(* Buildings: sequences that grow or change at the end. *)

LEMMA ListedIs ==
  ASSUME NEW q, Listed(q)
  PROVE Len(q) \in Nat /\ DOMAIN q = 1..Len(q) /\ q \in [1..Len(q) -> Range(q)]
<1>1. PICK S : q \in Seq(S)
  BY DEF Listed
<1> QED BY <1>1 DEF Range

LEMMA Appended ==
  ASSUME NEW q, Listed(q), NEW x
  PROVE /\ Listed(Append(q, x)) /\ Len(Append(q, x)) = Len(q) + 1
        /\ DOMAIN Append(q, x) = 1..(Len(q) + 1)
        /\ \A i \in 1..Len(q) : Append(q, x)[i] = q[i]
        /\ Append(q, x)[Len(q) + 1] = x
        /\ Range(Append(q, x)) = Range(q) \cup {x}
<1>1. PICK S : q \in Seq(S)
  BY DEF Listed
<1>2. q \in Seq(S \cup {x}) /\ x \in S \cup {x}
  BY <1>1
<1>3. Append(q, x) \in Seq(S \cup {x})
  BY <1>2
<1>4. /\ Len(Append(q, x)) = Len(q) + 1 /\ Len(q) \in Nat
      /\ DOMAIN Append(q, x) = 1..(Len(q) + 1) /\ DOMAIN q = 1..Len(q)
      /\ \A i \in 1..Len(q) : Append(q, x)[i] = q[i]
      /\ Append(q, x)[Len(q) + 1] = x
  BY <1>2
<1>5. Range(Append(q, x)) = Range(q) \cup {x}
  <2>1. \A i \in 1..(Len(q) + 1) : i \in 1..Len(q) \/ i = Len(q) + 1
    BY <1>4
  <2> DEFINE a == Append(q, x)
  <2>2. /\ DOMAIN a = 1..(Len(q) + 1) /\ \A i \in 1..Len(q) : a[i] = q[i] /\ i \in DOMAIN a
        /\ a[Len(q) + 1] = x /\ Len(q) + 1 \in DOMAIN a /\ DOMAIN q = 1..Len(q)
    BY <1>4
  <2> HIDE DEF a
  <2>3. Range(a) = Range(q) \cup {x}
    BY <2>1, <2>2 DEF Range
  <2> QED BY <2>3 DEF a
<1> QED BY <1>3, <1>4, <1>5 DEF Listed

LEMMA Changed ==
  ASSUME NEW q, Listed(q), NEW k \in DOMAIN q, NEW x
  PROVE /\ Listed([q EXCEPT ![k] = x]) /\ Len([q EXCEPT ![k] = x]) = Len(q)
        /\ DOMAIN [q EXCEPT ![k] = x] = DOMAIN q
        /\ \A i \in DOMAIN q : [q EXCEPT ![k] = x][i] = IF i = k THEN x ELSE q[i]
<1>1. PICK S : q \in Seq(S)
  BY DEF Listed
<1> DEFINE a == [q EXCEPT ![k] = x]
           T == S \cup {x}
<1>2. Len(q) \in Nat /\ DOMAIN q = 1..Len(q) /\ \A i \in 1..Len(q) : q[i] \in S
  BY <1>1
<1>3. a \in [1..Len(q) -> T]
  BY <1>2
<1>4. a \in Seq(T) /\ Len(a) = Len(q)
  BY <1>2, <1>3, IsASeq, LenProperties DEF T
<1> QED BY <1>2, <1>4 DEF Listed

-----------------------------------------------------------------------------
(* Buildings: the candidates and proposals of a source. *)

\* The candidates on the grid and along the frontages: finitely many, each on a footprint.
LEMMA SpotsAre ==
  ASSUME NEW plot, PlotInput(estate, plot)
  PROVE /\ IsFiniteSet(GridSpots(plot)) /\ GridSpots(plot) \subseteq DOMAIN estate.area
        /\ IsFiniteSet(FrontSpots(plot))
        /\ \A c \in FrontSpots(plot) :
             c.kind = "FRONTAGE" /\ c.front \in DOMAIN plot.fronts /\ c.front # 0
             /\ c.print \in DOMAIN estate.area
<1>1. /\ IsFiniteSet(plot.grid) /\ plot.grid \cup {plot.middle} \subseteq DOMAIN estate.area
      /\ IsFiniteSet(DOMAIN plot.fronts) /\ DOMAIN plot.fronts \subseteq Nat \ {0}
      /\ \A i \in DOMAIN plot.fronts : plot.fronts[i].prints \in Seq(DOMAIN estate.area)
  BY DEF PlotInput, FrontInput
<1>2. IsFiniteSet(GridSpots(plot)) /\ GridSpots(plot) \subseteq DOMAIN estate.area
  BY <1>1, FS_Singleton DEF GridSpots
<1> DEFINE spot(i) == {[kind |-> "FRONTAGE", front |-> i, print |-> f]
                         : f \in Range(plot.fronts[i].prints)}
           F == [i \in DOMAIN plot.fronts |-> spot(i)]
<1>3. FrontSpots(plot) = UNION {F[i] : i \in DOMAIN plot.fronts}
  BY DEF FrontSpots
<1>4. ASSUME NEW i \in DOMAIN plot.fronts
      PROVE /\ IsFiniteSet(F[i])
            /\ \A c \in F[i] : c.kind = "FRONTAGE" /\ c.front = i /\ c.print \in DOMAIN estate.area
  <2> DEFINE q == plot.fronts[i].prints
             g == [f \in Range(q) |-> [kind |-> "FRONTAGE", front |-> i, print |-> f]]
             h == [j \in DOMAIN q |-> q[j]]
  <2>1. q \in Seq(DOMAIN estate.area)
    BY <1>1
  <2>2. Len(q) \in Nat /\ DOMAIN q = 1..Len(q) /\ \A j \in DOMAIN q : q[j] \in DOMAIN estate.area
    BY <2>1
  <2> HIDE DEF q
  <2>3. IsFiniteSet(Range(q)) /\ Range(q) \subseteq DOMAIN estate.area
    <3>1. Range(q) = {h[j] : j \in DOMAIN q}
      BY DEF Range
    <3>2. IsFiniteSet(DOMAIN q)
      BY <2>2, UpToFinite
    <3>3. IsFiniteSet({h[j] : j \in DOMAIN q})
      BY ONLY <3>2, ImageFinite
    <3> QED BY <2>2, <3>1, <3>3 DEF Range
  <2>4. F[i] = {g[f] : f \in Range(q)}
    BY DEF q
  <2>5. IsFiniteSet({g[f] : f \in Range(q)})
    BY ONLY <2>3, ImageFinite
  <2>6. \A f \in Range(q) : g[f].kind = "FRONTAGE" /\ g[f].front = i /\ g[f].print = f
    OBVIOUS
  <2> HIDE DEF g, h, F, spot
  <2> QED BY ONLY <2>3, <2>4, <2>5, <2>6
<1> HIDE DEF F, spot
<1>5. IsFiniteSet(UNION {F[i] : i \in DOMAIN plot.fronts})
  BY <1>1, <1>4, UnionFinite
<1>6. \A c \in FrontSpots(plot) : \E i \in DOMAIN plot.fronts : c \in F[i]
  BY <1>3
<1>7. \A i \in DOMAIN plot.fronts : i # 0
  BY <1>1
<1> QED BY <1>2, <1>3, <1>4, <1>5, <1>6, <1>7

\* The candidates of both kinds, and their counts.
LEMMA CandidatesAre ==
  ASSUME NEW plot, PlotInput(estate, plot)
  PROVE /\ IsFiniteSet(SiteCandidates(plot)) /\ CandidatesAccepted(plot)
        /\ \A c \in SiteCandidates(plot) : c.print \in DOMAIN estate.area
<1> DEFINE G == {[kind |-> "GRID", front |-> 0, print |-> f] : f \in GridSpots(plot)}
           g == [f \in GridSpots(plot) |-> [kind |-> "GRID", front |-> 0, print |-> f]]
           A == IF estate.byGrid THEN G ELSE {}
           B == IF estate.byFrontage THEN FrontSpots(plot) ELSE {}
<1>1. /\ IsFiniteSet(GridSpots(plot)) /\ GridSpots(plot) \subseteq DOMAIN estate.area
      /\ IsFiniteSet(FrontSpots(plot))
      /\ \A c \in FrontSpots(plot) :
           c.kind = "FRONTAGE" /\ c.front \in DOMAIN plot.fronts /\ c.front # 0
           /\ c.print \in DOMAIN estate.area
  BY SpotsAre
<1>2. G = {g[f] : f \in GridSpots(plot)}
  OBVIOUS
<1>3. IsFiniteSet(G)
  <2> HIDE DEF G, g
  <2> QED BY <1>1, <1>2, ImageFinite
<1>4. \A c \in G : c.kind = "GRID" /\ c.front = 0 /\ c.print \in DOMAIN estate.area
  BY <1>1
<1>5. SiteCandidates(plot) = A \cup B
  BY DEF SiteCandidates
<1>6. IsFiniteSet(A) /\ IsFiniteSet(B)
  <2> HIDE DEF G
  <2> QED BY <1>1, <1>3, FS_EmptySet
<1>7. /\ \A c \in A : c.kind = "GRID" /\ c.front = 0 /\ c.print \in DOMAIN estate.area
      /\ \A c \in B : c.kind = "FRONTAGE" /\ c.front \in DOMAIN plot.fronts
                      /\ c.print \in DOMAIN estate.area
  <2> HIDE DEF G
  <2> QED BY <1>1, <1>4
<1> HIDE DEF G, A, B, g
<1>8. {c \in SiteCandidates(plot) : c.kind = "GRID"} = A
  BY <1>5, <1>7
<1>9. {c \in SiteCandidates(plot) : c.kind = "FRONTAGE"} = B
  BY <1>5, <1>7
<1>10. A \cap B = {}
  BY <1>7
<1>11. Cardinality(A) + Cardinality(B) = Cardinality(A \cup B) /\ IsFiniteSet(A \cup B)
  <2>1. Cardinality(A \cup B) = Cardinality(A) + Cardinality(B) - Cardinality(A \cap B)
        /\ IsFiniteSet(A \cup B)
    BY <1>6, FS_Union
  <2>2. Cardinality(A \cap B) = 0
    BY <1>10, FS_EmptySet
  <2> QED BY <1>6, <2>1, <2>2, FS_CardinalityType
<1>12. 0 \notin DOMAIN plot.fronts
  BY DEF PlotInput
<1>13. \A c \in SiteCandidates(plot) : c.kind = "FRONTAGE" <=> c.front \in DOMAIN plot.fronts
  BY <1>5, <1>7, <1>12
<1> QED BY <1>5, <1>7, <1>8, <1>9, <1>11, <1>13 DEF CandidatesAccepted

\* Every candidate is given an angle the stage accepts.
LEMMA AxesAreAccepted ==
  ASSUME NEW plot, PlotInput(estate, plot), estate.apart \in Nat, NEW c
  PROVE AxisAccepted(Axis(plot, c))
<1>1. plot.angle \in 0..179
  BY DEF PlotInput
<1> DEFINE axes == {i \in DOMAIN plot.fronts :
                 plot.fronts[i].straight /\ plot.fronts[i].road = plot.fronts[c.front].road}
           gap(i) == IF i = c.front THEN 0 ELSE estate.apart
           n == NearestAxis(c, axes)
           v == [i \in axes |-> gap(i)]
           close == {i \in axes : \A j \in axes : v[i] <= v[j]}
<1>2. CASE axes # {}
  <2>1. IsFiniteSet(DOMAIN plot.fronts) /\ DOMAIN plot.fronts \subseteq Nat \ {0}
    BY DEF PlotInput
  <2>2. IsFiniteSet(axes) /\ axes \subseteq Nat
    BY <2>1, FS_Subset
  <2>3. \A i \in axes : v[i] \in Nat /\ v[i] = gap(i)
    OBVIOUS
  <2>4. close # {}
    <3> DEFINE V == {v[i] : i \in axes}
    <3>1. IsFiniteSet(V)
      BY ONLY <2>2, ImageFinite
    <3>2. V # {} /\ V \subseteq Int
      <4> HIDE DEF v, axes
      <4> QED BY <1>2, <2>3
    <3>3. Min(V) \in V /\ \A x \in V : Min(V) <= x
      <4> HIDE DEF V
      <4> QED BY <3>1, <3>2, MinOf
    <3> HIDE DEF v, axes
    <3>4. PICK i \in axes : v[i] = Min(V)
      BY <3>3
    <3> QED BY <3>3, <3>4
  <2>5. Min(close) \in close /\ \A x \in close : Min(close) <= x
    <3>1. close \subseteq Int /\ IsFiniteSet(close)
      BY <2>2, FS_Subset
    <3> HIDE DEF close
    <3> QED BY <2>4, <3>1, MinOf
  <2>6. \E i \in axes : \A j \in axes : gap(i) < gap(j) \/ (gap(i) = gap(j) /\ i <= j)
    <3> DEFINE i == Min(close)
    <3>1. i \in axes /\ i \in Nat /\ \A j \in axes : v[i] <= v[j]
      BY <2>2, <2>5
    <3>2. ASSUME NEW j \in axes PROVE v[i] < v[j] \/ (v[i] = v[j] /\ i <= j)
      <4>1. CASE v[i] = v[j]
        <5>1. j \in close
          BY <3>1, <4>1
        <5> QED BY <2>5, <4>1, <5>1
      <4>2. CASE v[i] # v[j]
        <5> HIDE DEF i, v
        <5> QED BY <2>3, <3>1, <4>2
      <4> QED BY <4>1, <4>2
    <3> HIDE DEF i, v, gap, axes
    <3>3. \A j \in axes : gap(i) < gap(j) \/ (gap(i) = gap(j) /\ i <= j)
      BY <2>3, <3>1, <3>2
    <3> QED BY <3>1, <3>3
  <2>7. n.front \in axes /\ n.gap = gap(n.front)
    <3> HIDE DEF axes
    <3> QED BY <2>6 DEF NearestAxis
  <2>8. plot.fronts[n.front].angle \in 0..179
    BY <2>7 DEF PlotInput, FrontInput
  <2>9. n.gap \in Nat
    BY <2>7
  <2>10. \/ Axis(plot, c) = [source |-> "FRONTAGE", angle |-> plot.fronts[n.front].angle,
                           gap |-> n.gap, bent |-> plot.fronts[n.front].bent]
         \/ Axis(plot, c) = PrincipalAxis(plot)
    BY Zenon DEF Axis
  <2> HIDE DEF n
  <2> QED BY <1>1, <2>8, <2>9, <2>10 DEF AxisAccepted, PrincipalAxis
<1>3. CASE axes = {}
  <2>1. Axis(plot, c) = PrincipalAxis(plot)
    BY <1>3, Zenon DEF Axis
  <2> QED BY <1>1, <2>1 DEF AxisAccepted, PrincipalAxis
<1> QED BY <1>2, <1>3

\* What is proposed for a source are finitely many footprints.
LEMMA ProposalsAre ==
  ASSUME NEW plot, PlotInput(estate, plot), NEW p
  PROVE IsFiniteSet(Proposals(p, plot)) /\ Proposals(p, plot) \subseteq DOMAIN estate.area
<1>1. CASE p.strategy \in Rings
  <2>1. plot.ring.print \in DOMAIN estate.area
    BY DEF PlotInput
  <2> DEFINE f == plot.ring.print
  <2>2. Proposals(p, plot) \subseteq {f}
    BY <1>1, Zenon DEF Proposals
  <2>3. IsFiniteSet({f})
    BY FS_Singleton
  <2> HIDE DEF f
  <2>4. IsFiniteSet(Proposals(p, plot))
    BY ONLY <2>2, <2>3, FS_Subset
  <2> QED BY <2>1, <2>2, <2>4 DEF f
<1>2. CASE p.strategy \notin Rings
  <2> DEFINE C == {c \in SiteCandidates(plot) : Fits(p, plot, c)}
             g == [c \in C |-> c.print]
  <2>1. IsFiniteSet(SiteCandidates(plot)) /\ \A c \in SiteCandidates(plot) : c.print \in DOMAIN estate.area
    BY CandidatesAre
  <2>2. IsFiniteSet(C) /\ \A c \in C : c.print \in DOMAIN estate.area
    BY <2>1, FS_Subset
  <2>3. Proposals(p, plot) = {g[c] : c \in C}
    BY <1>2 DEF Proposals
  <2>4. IsFiniteSet({g[c] : c \in C})
    BY ONLY <2>2, ImageFinite
  <2> HIDE DEF C
  <2> QED BY <2>2, <2>3, <2>4
<1> QED BY <1>1, <1>2

\* The archetype drawn is one of those that take the source.
LEMMA DrawnIs ==
  ASSUME estate \in BuildingCases, NEW ps, ps \subseteq DOMAIN estate.profiles,
         NEW t \in 0..(Weights(ps) - 1)
  PROVE \E i \in ps : Drawn(ps, t) = estate.profiles[i]
<1> DEFINE w == [i \in DOMAIN estate.profiles |-> estate.profiles[i].weight]
           K == {i \in ps : t < Weights({j \in ps : j <= i})}
<1>1. /\ IsFiniteSet(DOMAIN estate.profiles) /\ DOMAIN estate.profiles \subseteq Nat
      /\ \A i \in DOMAIN estate.profiles : w[i] \in Nat
  <2>1. ProfilesInput(estate)
    BY EstateFacts
  <2> QED BY <2>1 DEF ProfilesInput, ArchetypeInput
<1>2. IsFiniteSet(ps) /\ ps \subseteq Int /\ \A i \in ps : w[i] \in Nat
  BY <1>1, FS_Subset
<1>3. \A S : Weights(S) = SumFunctionOnSet(w, S)
  BY OverIs DEF Weights
<1>4. Weights(ps) \in Nat /\ t \in Nat /\ t < Weights(ps)
  <2>1. Weights(ps) \in Nat
    <3> HIDE DEF w
    <3> QED BY <1>2, <1>3, SumIsNat
  <2> QED BY <2>1
<1>5. ps # {}
  <2>1. SumFunctionOnSet(w, {}) = 0
    BY SumOfNone
  <2> QED BY <1>3, <1>4, <2>1
<1>6. Max(ps) \in ps /\ \A x \in ps : x <= Max(ps)
  BY <1>2, <1>5, MaxOf
<1>7. Max(ps) \in K
  <2>1. {j \in ps : j <= Max(ps)} = ps
    BY <1>6
  <2> QED BY <1>4, <1>6, <2>1
<1>8. IsFiniteSet(K) /\ K # {} /\ K \subseteq Int
  BY <1>2, <1>7, FS_Subset
<1>9. Min(K) \in K
  <2> HIDE DEF K
  <2> QED BY <1>8, MinOf
<1> QED BY <1>9 DEF Drawn

-----------------------------------------------------------------------------
(* Buildings: what the account of a source says of a state, and how it is kept. *)

LEMMA WindowsAre ==
  ASSUME NEW k, NEW S
  PROVE /\ Cover(k, S) = Covered(estate, k, S)
        /\ Floor(k, S) = Floored(estate, Multiplier(k), k, S)
        /\ Below(Cover(k, S), Floor(k, S), k) <=> WithinWindow(estate, sites[k], Multiplier(k), k, S)
        /\ TargetsMet(k, S) <=> Reached(estate, sites[k], Multiplier(k), k, S)
<1>1. Over(estate.area, S) = SumFunctionOnSet(estate.area, S)
  BY OverIs
<1>2. Cover(k, S) = Covered(estate, k, S)
  BY <1>1 DEF Cover, Covered
<1>3. Floor(k, S) = Floored(estate, Multiplier(k), k, S)
  BY <1>1 DEF Floor, Floored
<1>4. Below(Cover(k, S), Floor(k, S), k) <=> WithinWindow(estate, sites[k], Multiplier(k), k, S)
  BY <1>2, <1>3 DEF Below, Window, WithinWindow
<1>5. TargetsMet(k, S) <=> Reached(estate, sites[k], Multiplier(k), k, S)
  BY <1>2, <1>3, <1>4 DEF TargetsMet, Window, Reached
<1> QED BY <1>2, <1>3, <1>4, <1>5

\* Nothing placed: the multiplier is of no account.
LEMMA EmptyWindow ==
  ASSUME NEW e, NEW s, NEW m \in Nat, NEW n \in Nat, NEW k
  PROVE Reached(e, s, m, k, {}) <=> Reached(e, s, n, k, {})
<1>1. SumFunctionOnSet(e.area, {}) = 0
  BY SumOfNone
<1>2. Floored(e, m, k, {}) = Floored(e, n, k, {})
  BY <1>1 DEF Floored
<1> QED BY <1>2 DEF Reached, WithinWindow

\* A case whose areas are numbers.
CaseNumbers(e) ==
  /\ e.area \in [DOMAIN e.area -> Nat \ {0}] /\ {e.baseCover, e.baseFloor} \subseteq Nat

LEMMA CaseIs == ASSUME estate \in BuildingCases PROVE CaseNumbers(estate)
BY EstateFacts DEF Areas, CaseNumbers

\* What is within the window with more footprints is within it with fewer.
LEMMA WindowShrinks ==
  ASSUME NEW e, CaseNumbers(e), NEW s, NEW m \in Nat, NEW k,
         NEW S, IsFiniteSet(S), S \subseteq DOMAIN e.area, NEW T \in SUBSET S,
         e.targets[s.zone].high * s.plot.size \in Int, e.targets[s.zone].farHigh * s.plot.size \in Int,
         WithinWindow(e, s, m, k, S)
  PROVE WithinWindow(e, s, m, k, T)
<1> DEFINE a == SumFunctionOnSet(e.area, T)
           b == SumFunctionOnSet(e.area, S)
           x == e.targets[s.zone].high * s.plot.size
           y == e.targets[s.zone].farHigh * s.plot.size
           p == IF k = e.baseAt THEN e.baseCover ELSE 0
           q == IF k = e.baseAt THEN e.baseFloor ELSE 0
<1>1. \A z \in S : e.area[z] \in Nat
  BY DEF CaseNumbers
<1>2. a \in Nat /\ b \in Nat /\ a <= b
  <2>1. IsFiniteSet(T) /\ \A z \in T : e.area[z] \in Nat
    BY <1>1, FS_Subset
  <2>2. a \in Nat
    BY <2>1, SumIsNat
  <2>3. b \in Nat
    BY <1>1, SumIsNat
  <2>4. a <= b
    BY <1>1, SumGrows
  <2> QED BY <2>2, <2>3, <2>4
<1>3. p \in Nat /\ q \in Nat
  BY DEF CaseNumbers
<1>4. m * a \in Nat /\ m * b \in Nat /\ m * a <= m * b
  <2>1. a * m <= b * m /\ a * m \in Nat /\ b * m \in Nat
    <3> HIDE DEF a, b
    <3> QED BY <1>2, ProductGrows
  <2>2. a * m = m * a /\ b * m = m * b
    <3> HIDE DEF a, b
    <3> QED BY <1>2
  <2> QED BY <2>1, <2>2
<1>5. 100 * (p + b) <= x /\ 100 * (q + m * b) <= y
  BY DEF WithinWindow, Covered, Floored
<1>6. x \in Int /\ y \in Int
  OBVIOUS
<1>7. 100 * (p + a) <= x
  <2> HIDE DEF a, b, x, y, p, q
  <2> QED BY <1>2, <1>3, <1>5, <1>6
<1>8. 100 * (q + m * a) <= y
  <2> DEFINE c == m * a
             d == m * b
  <2>1. c \in Nat /\ d \in Nat /\ c <= d /\ 100 * (q + d) <= y
    BY <1>4, <1>5
  <2> HIDE DEF a, b, c, d, x, y, p, q
  <2>2. 100 * (q + c) <= y
    BY <1>3, <1>6, <2>1
  <2> QED BY <2>2 DEF c
<1> QED BY <1>7, <1>8 DEF WithinWindow, Covered, Floored

LEMMA UnfitStays ==
  ASSUME NEW e, NEW s, NEW m, NEW k, NEW f, NEW pl, NEW pn, pl \subseteq pn,
         MineIn(pn, k) = MineIn(pl, k), Unfit(e, s, m, k, pl, f)
  PROVE Unfit(e, s, m, k, pn, f)
<1>1. PrintsIn(pl) \subseteq PrintsIn(pn)
  BY DEF PrintsIn
<1> QED BY <1>1 DEF Unfit

\* The account of a source stands when footprints are placed for others.
LEMMA AccountStays ==
  ASSUME NEW e, NEW s, NEW r, NEW k, NEW pl, NEW pn, pl \subseteq pn,
         MineIn(pn, k) = MineIn(pl, k), Accounted(e, s, r, pl, k)
  PROVE Accounted(e, s, r, pn, k)
<1>1. Shaped(r) /\ Enveloped(r) /\ Proposed(e, r, pn, k) /\ Built(e, s, r, pn, k)
  BY DEF Accounted, Proposed, Built
<1>2. Honest(e, s, r, pn, k)
  <2>1. \A f : Unfit(e, s, r.multiplier, k, pl, f) => Unfit(e, s, r.multiplier, k, pn, f)
    BY UnfitStays
  <2> QED BY <2>1 DEF Accounted, Honest
<1>3. r.placement.status # "OPEN" => AddUp(r.placement.counts, MineIn(pn, k), r.proposals)
  BY DEF Accounted
<1> QED BY <1>1, <1>2, <1>3 DEF Accounted

LEMMA MineAre ==
  /\ Footprints = PrintsIn(placed)
  /\ \A k : Mine(k) = MineIn(placed, k)
  /\ \A k : k \in DOMAIN opened => Multiplier(k) = opened[k].multiplier
BY DEF Footprints, PrintsIn, Mine, MineIn, Multiplier

\* What is known of the source at a position.
LEMMA SitesAre ==
  ASSUME SitesInv
  PROVE /\ estate \in BuildingCases /\ CaseNumbers(estate) /\ Len(sites) \in Nat
        /\ DOMAIN sites = 1..Len(sites)
        /\ \A k \in 1..Len(sites) :
             /\ IsSource(sites[k]) /\ sites[k] \in Sources
             /\ sites[k].zone \in DOMAIN estate.targets =>
                  /\ TargetInput(estate.targets[sites[k].zone])
                  /\ estate.targets[sites[k].zone].high \in 0..100
                  /\ estate.targets[sites[k].zone].farHigh \in Int
<1>1. /\ estate \in BuildingCases /\ Len(sites) \in Nat
      /\ sites \in [1..Len(sites) -> Sources]
  BY DEF SitesInv
<1>2. \A s \in Sources : IsSource(s)
  BY <1>1, SourcesAre
<1>3. \A z \in DOMAIN estate.targets : TargetInput(estate.targets[z])
  BY <1>1, EstateFacts
<1>4. \A t : TargetInput(t) => t.high \in 0..100 /\ t.farHigh \in Int
  BY DEF TargetInput
<1> QED BY <1>1, <1>2, <1>3, <1>4, CaseIs

-----------------------------------------------------------------------------
(* Buildings: all footprints are within all sites. *)

\* The areas of a union are no more than the areas of both.
LEMMA SumOfBoth ==
  ASSUME NEW S, NEW T, IsFiniteSet(S), IsFiniteSet(T), NEW f, \A x \in S \cup T : f[x] \in Nat
  PROVE /\ SumFunctionOnSet(f, S \cup T) \in Nat
        /\ SumFunctionOnSet(f, S \cup T) <= SumFunctionOnSet(f, S) + SumFunctionOnSet(f, T)
<1> DEFINE R == T \ S
<1>1. S \cup T = S \cup R /\ S \cap R = {} /\ R \in SUBSET T
  OBVIOUS
<1>2. IsFiniteSet(R) /\ IsFiniteSet(S \cup R)
  BY FS_Subset, FS_Union
<1>3. \A x \in S \cup R : f[x] \in Int
  OBVIOUS
<1>4. \A x \in T : f[x] \in Nat
  OBVIOUS
<1> HIDE DEF R
<1>5. SumFunctionOnSet(f, S \cup R) = SumFunctionOnSet(f, S) + SumFunctionOnSet(f, R)
  BY <1>1, <1>2, <1>3, SumOfUnion
<1>6. SumFunctionOnSet(f, R) <= SumFunctionOnSet(f, T)
  BY <1>1, <1>4, SumGrows
<1>7. SumFunctionOnSet(f, S) \in Nat
  BY SumIsNat
<1>8. SumFunctionOnSet(f, R) \in Nat
  BY <1>1, <1>2, SumIsNat
<1>9. SumFunctionOnSet(f, T) \in Nat
  BY SumIsNat
<1> DEFINE a == SumFunctionOnSet(f, S)
           b == SumFunctionOnSet(f, R)
           c == SumFunctionOnSet(f, T)
<1>10. SumFunctionOnSet(f, S \cup T) = a + b
  BY <1>1, <1>5
<1>11. a \in Nat /\ b \in Nat /\ c \in Nat /\ b <= c
  BY <1>6, <1>7, <1>8, <1>9
<1> HIDE DEF a, b, c
<1>12. a + b \in Nat /\ a + b <= a + c
  BY <1>11
<1> QED BY <1>10, <1>12 DEF a, c

\* When each part is within its bound, the union is within the sum of the bounds.
LEMMA PartsWithinBounds ==
  ASSUME NEW last \in Nat, NEW M, NEW f, NEW v,
         \A k \in 1..last : IsFiniteSet(M[k]) /\ (\A x \in M[k] : f[x] \in Nat)
                         /\ v[k] \in Nat /\ SumFunctionOnSet(f, M[k]) <= v[k]
  PROVE SumFunctionOnSet(f, UNION {M[k] : k \in 1..last}) <= SumFunctionOnSet(v, 1..last)
<1> DEFINE U(T) == UNION {M[k] : k \in T}
           P == {T \in SUBSET (1..last) :
                   IsFiniteSet(U(T)) /\ SumFunctionOnSet(f, U(T)) <= SumFunctionOnSet(v, T)}
<1>0. IsFiniteSet(1..last)
  BY UpToFinite
<1>1. ASSUME NEW T \in SUBSET (1..last), \A R \in SUBSET T : R # T => R \in P PROVE T \in P
  <2>1. CASE T = {}
    <3>1. U({}) = {}
      OBVIOUS
    <3>2. SumFunctionOnSet(f, {}) = 0 /\ SumFunctionOnSet(v, {}) = 0
      BY SumOfNone
    <3> HIDE DEF U
    <3> QED BY <2>1, <3>1, <3>2, FS_EmptySet
  <2>2. CASE T # {}
    <3>1. PICK k \in T : TRUE
      BY <2>2
    <3> DEFINE R == T \ {k}
    <3>2. R \in P /\ k \in 1..last
      BY <1>1, <3>1
    <3>3. U(T) = U(R) \cup M[k]
      BY <3>1
    <3>4. IsFiniteSet(U(R)) /\ SumFunctionOnSet(f, U(R)) <= SumFunctionOnSet(v, R)
      BY <3>2
    <3>5. \A x \in U(R) \cup M[k] : f[x] \in Nat
      OBVIOUS
    <3>6. IsFiniteSet(T) /\ IsFiniteSet(R) /\ \A i \in T : v[i] \in Nat
      BY <1>0, FS_Subset
    <3>7. SumFunctionOnSet(v, T) = SumFunctionOnSet(v, R) + v[k]
      <4>1. \A i \in T : v[i] \in Int
        BY <3>6
      <4> QED BY <3>1, <3>6, <4>1, SumOfMore
    <3>8. SumFunctionOnSet(v, R) \in Nat
      <4>1. \A i \in R : v[i] \in Nat
        BY <3>6
      <4> HIDE DEF R
      <4> QED BY <3>6, <4>1, SumIsNat
    <3>9. IsFiniteSet(M[k]) /\ v[k] \in Nat /\ SumFunctionOnSet(f, M[k]) <= v[k]
      BY <3>2
    <3> HIDE DEF U, P
    <3>10. /\ SumFunctionOnSet(f, U(R) \cup M[k]) \in Nat
           /\ SumFunctionOnSet(f, U(R) \cup M[k]) <= SumFunctionOnSet(f, U(R)) + SumFunctionOnSet(f, M[k])
      BY <3>4, <3>5, <3>9, SumOfBoth
    <3>11. SumFunctionOnSet(f, U(R)) \in Nat /\ SumFunctionOnSet(f, M[k]) \in Nat
      BY <3>4, <3>5, <3>9, SumIsNat
    <3>12. IsFiniteSet(U(R) \cup M[k])
      BY <3>4, <3>9, FS_Union
    <3> HIDE DEF R
    <3>13. SumFunctionOnSet(f, U(T)) <= SumFunctionOnSet(v, T)
      BY <3>3, <3>4, <3>7, <3>8, <3>9, <3>10, <3>11
    <3> QED BY <3>3, <3>12, <3>13 DEF P
  <2> QED BY <2>1, <2>2
<1>2. 1..last \in P
  <2> HIDE DEF P
  <2>1. SUBSET (1..last) \subseteq P
    <3> DEFINE S == 1..last
    <3>1. \A T \in SUBSET S : (\A R \in SUBSET T : R # T => R \in P) => T \in P
      BY <1>1
    <3>2. IsFiniteSet(S)
      BY <1>0
    <3> HIDE DEF S
    <3>3. SUBSET S \subseteq P
      BY <3>1, <3>2, SubsetInduction
    <3> QED BY <3>3 DEF S
  <2> QED BY <2>1
<1> QED BY <1>2

\* What was placed for a source is within its area.
LEMMA BuiltWithinSite ==
  ASSUME SitesInv, TurnInv, AccountInv, NEW k \in 1..Len(sites)
  PROVE /\ IsFiniteSet(MineIn(placed, k)) /\ MineIn(placed, k) \subseteq DOMAIN estate.area
        /\ SumFunctionOnSet(estate.area, MineIn(placed, k)) <= sites[k].plot.size
        /\ sites[k].plot.size \in Nat
<1>1. sites[k].plot.size \in Nat /\ CaseNumbers(estate)
  BY SitesAre DEF IsSource
<1>2. CASE k \in DOMAIN opened
  <2> DEFINE M == MineIn(placed, k)
             b == SumFunctionOnSet(estate.area, M)
             z == sites[k].plot.size
  <2>1. Accounted(estate, sites[k], opened[k], placed, k)
    BY <1>2 DEF AccountInv
  <2>2. IsFiniteSet(M) /\ M \subseteq DOMAIN estate.area
    BY <2>1, FS_Subset DEF Accounted, Proposed
  <2>3. b \in Nat
    <3>1. \A x \in M : estate.area[x] \in Nat
      BY <1>1, <2>2 DEF CaseNumbers
    <3> HIDE DEF M
    <3> QED BY <2>2, <3>1, SumIsNat
  <2>4. CASE M = {}
    <3>1. b = 0
      BY <2>4, SumOfNone
    <3> QED BY <1>1, <2>2, <3>1
  <2>5. CASE M # {}
    <3> DEFINE h == estate.targets[sites[k].zone].high
               p == IF k = estate.baseAt THEN estate.baseCover ELSE 0
    <3>1. sites[k].zone \in DOMAIN estate.targets /\ 100 * (p + b) <= h * z
      BY <2>1, <2>5 DEF Accounted, Built, WithinWindow, Covered
    <3>2. h \in 0..100
      BY <3>1, SitesAre
    <3>3. p \in Nat
      BY <1>1 DEF CaseNumbers
    <3>4. z \in Nat
      BY <1>1
    <3> HIDE DEF h, z, p, b
    <3>5. h * z <= 100 * z
      BY <3>2, <3>4, ProductGrows
    <3>6. h * z \in Int
      BY <3>2, <3>4
    <3>7. b <= z
      BY <2>3, <3>1, <3>3, <3>4, <3>5, <3>6
    <3> QED BY <1>1, <2>2, <3>7 DEF b, z
  <2> QED BY <2>4, <2>5
<1>3. CASE k \notin DOMAIN opened
  <2>1. MineIn(placed, k) = {}
    BY <1>3 DEF TurnInv, MineIn
  <2>2. SumFunctionOnSet(estate.area, {}) = 0
    BY SumOfNone
  <2> QED BY <1>1, <2>1, <2>2, FS_EmptySet
<1> QED BY <1>2, <1>3

LEMMA FootprintsWithinSites ==
  ASSUME SitesInv, TurnInv, AccountInv
  PROVE /\ Over(estate.area, Footprints) <= SiteArea
        /\ IsFiniteSet(Footprints) /\ Footprints \subseteq DOMAIN estate.area
<1> DEFINE last == Len(sites)
           v == [k \in DOMAIN sites |-> sites[k].plot.size]
           M == [k \in 1..last |-> MineIn(placed, k)]
<1>1. last \in Nat /\ DOMAIN sites = 1..last /\ CaseNumbers(estate)
  BY SitesAre
<1>2. \A k \in 1..last : /\ IsFiniteSet(M[k]) /\ M[k] \subseteq DOMAIN estate.area
                      /\ SumFunctionOnSet(estate.area, M[k]) <= v[k] /\ v[k] \in Nat
  BY <1>1, BuiltWithinSite
<1>3. \A k \in 1..last : IsFiniteSet(M[k]) /\ (\A x \in M[k] : estate.area[x] \in Nat)
                      /\ v[k] \in Nat /\ SumFunctionOnSet(estate.area, M[k]) <= v[k]
  <2> HIDE DEF M, v, last
  <2> QED BY <1>1, <1>2 DEF CaseNumbers
<1>4. Footprints = UNION {M[k] : k \in 1..last}
  <2>1. \A x \in placed : x.turn \in 1..last
    BY <1>1 DEF TurnInv
  <2>2. \A k \in 1..last : M[k] = {x.print : x \in {x \in placed : x.turn = k}}
    BY DEF MineIn
  <2> HIDE DEF M, last
  <2> QED BY <2>1, <2>2 DEF Footprints
<1>5. SiteArea = SumFunctionOnSet(v, 1..last)
  BY <1>1, OverIs DEF SiteArea
<1>6. Over(estate.area, Footprints) = SumFunctionOnSet(estate.area, Footprints)
  BY OverIs
<1>7. IsFiniteSet(Footprints)
  <2>1. IsFiniteSet(1..last)
    BY <1>1, UpToFinite
  <2> HIDE DEF M, last
  <2> QED BY <1>3, <1>4, <2>1, UnionFinite
<1> HIDE DEF M, v, last
<1>8. SumFunctionOnSet(estate.area, UNION {M[k] : k \in 1..last}) <= SumFunctionOnSet(v, 1..last)
  BY <1>1, <1>3, PartsWithinBounds
<1> QED BY <1>2, <1>4, <1>5, <1>6, <1>7, <1>8

-----------------------------------------------------------------------------
(* Buildings: the invariant says what is promised. *)

LEMMA BuildingsFitFrom ==
  ASSUME BuildingInv
  PROVE BuildingsFit
<1> DEFINE there == estate.existing \cup Footprints
<1> USE MineAre
<1>1. \A f \in Footprints : \A g \in there : {f, g} \notin estate.near
  BY DEF BuildingInv, AccountInv, SpacedIn
<1>2. building = "place" => base \cup Chunked = there
  BY DEF BuildingInv, PlaceInv, IndexInv
<1>3. ASSUME NEW k \in DOMAIN opened
      PROVE  LET status == opened[k].placement.status
                 fits(f) == /\ \A g \in there : {f, g} \notin estate.near
                            /\ Below(Cover(k, Mine(k) \cup {f}), Floor(k, Mine(k) \cup {f}), k)
             IN
           /\ EnvelopeAccepted(opened[k].envelope)
           /\ opened[k].candidates > 0 =>
                /\ CandidatesAccepted(sites[k].plot)
                /\ \A c \in SiteCandidates(sites[k].plot) : AxisAccepted(Axis(sites[k].plot, c))
           /\ status = "NONE" <=> opened[k].envelope.status # "READY"
           /\ status # "OPEN" => PlacementAccepted(k)
           /\ Mine(k) # {} => Below(Cover(k, Mine(k)), Floor(k, Mine(k)), k)
           /\ status = "CONVERGED" => TargetsMet(k, Mine(k))
           /\ status = "CANDIDATES_EXHAUSTED" =>
                /\ ~TargetsMet(k, Mine(k))
                /\ \A f \in opened[k].proposals \ Mine(k) : ~fits(f)
  <2>0. k \in 1..Len(sites)
    BY DEF BuildingInv, TurnInv, SitesInv
  <2>1. Accounted(estate, sites[k], opened[k], placed, k)
    BY DEF BuildingInv, AccountInv
  <2>2. IsSource(sites[k]) /\ estate \in BuildingCases
    BY <2>0, SitesAre DEF BuildingInv
  <2>3. PlotInput(estate, sites[k].plot) /\ estate.apart \in Nat
    BY <2>2, EstateFacts DEF IsSource
  <2>4. CandidatesAccepted(sites[k].plot)
    BY <2>3, CandidatesAre
  <2>5. \A c \in SiteCandidates(sites[k].plot) : AxisAccepted(Axis(sites[k].plot, c))
    BY <2>3, AxesAreAccepted
  <2>6. Multiplier(k) = opened[k].multiplier /\ Mine(k) = MineIn(placed, k)
    OBVIOUS
  <2>7. \A S : /\ Below(Cover(k, S), Floor(k, S), k)
                    <=> WithinWindow(estate, sites[k], opened[k].multiplier, k, S)
               /\ TargetsMet(k, S) <=> Reached(estate, sites[k], opened[k].multiplier, k, S)
    BY <2>6, WindowsAre
  <2>8. opened[k].placement.status # "OPEN" => PlacementAccepted(k)
    <3>1. opened[k].placement.status # "OPEN" =>
            AddUp(opened[k].placement.counts, Mine(k), opened[k].proposals)
      BY <2>1, <2>6 DEF Accounted
    <3>2. opened[k].placement.counts \in Counts
      BY <2>1 DEF Accounted, Shaped
    <3> QED BY <3>1, <3>2 DEF AddUp, PlacementAccepted, Counts
  <2>9. Mine(k) # {} => Below(Cover(k, Mine(k)), Floor(k, Mine(k)), k)
    BY <2>1, <2>6, <2>7 DEF Accounted, Built
  <2>10. opened[k].placement.status = "CONVERGED" => TargetsMet(k, Mine(k))
    BY <2>1, <2>6, <2>7 DEF Accounted, Honest
  <2>11. ASSUME opened[k].placement.status = "CANDIDATES_EXHAUSTED"
         PROVE /\ ~TargetsMet(k, Mine(k))
               /\ \A f \in opened[k].proposals \ Mine(k) :
                    ~(/\ \A g \in there : {f, g} \notin estate.near
                      /\ Below(Cover(k, Mine(k) \cup {f}), Floor(k, Mine(k) \cup {f}), k))
    <3>1. ~Reached(estate, sites[k], opened[k].multiplier, k, Mine(k))
      BY <2>1, <2>6, <2>11 DEF Accounted, Honest
    <3>2. \A f \in opened[k].proposals \ Mine(k) :
            Unfit(estate, sites[k], opened[k].multiplier, k, placed, f)
      BY <2>1, <2>6, <2>11 DEF Accounted, Honest
    <3> QED BY <2>6, <2>7, <3>1, <3>2 DEF Unfit
  <2>12. /\ EnvelopeAccepted(opened[k].envelope)
         /\ opened[k].placement.status = "NONE" <=> opened[k].envelope.status # "READY"
    BY <2>1 DEF Accounted, Enveloped
  <2> QED BY <2>4, <2>5, <2>8, <2>9, <2>10, <2>11, <2>12
<1>4. building = "info" => \A k \in DOMAIN opened : opened[k].placement.status = "CONVERGED"
  BY DEF BuildingInv, LedgerInv
<1>5. LedgerRight
  BY FootprintsWithinSites DEF BuildingInv, LedgerInv, LedgerRight
<1> QED BY <1>1, <1>2, <1>3, <1>4, <1>5 DEF BuildingsFit

-----------------------------------------------------------------------------
(* Buildings: steps that leave the sources and what was placed alone. *)

LEMMA SourcesKept == ASSUME estate' = estate PROVE Sources' = Sources
<1>1. \A z, x : Profiles(z, x)' = Profiles(z, x)
  BY DEF Profiles, Allows
<1>2. \A x, b, i, p : Source(x, b, i, p)' = Source(x, b, i, p)
  BY DEF Source
<1>3. ZonedBlocks' = ZonedBlocks
  BY DEF ZonedBlocks
<1>4. ASSUME NEW b \in ZonedBlocks PROVE SourcesOf(b)' = SourcesOf(b)
  <2> DEFINE F == {Source("PARCEL", b, p.part, p.plot) : p \in estate.parcels[b]}
             G == {Source("BLOCK", b, 0, estate.plot[b])}
  <2>1. F' = F /\ G' = G
    BY <1>2
  <2>2. Profiles(estate.zone[b], "PARCEL")' = Profiles(estate.zone[b], "PARCEL")
        /\ Profiles(estate.zone[b], "BLOCK")' = Profiles(estate.zone[b], "BLOCK")
    BY <1>1
  <2>3. /\ SourcesOf(b) = IF estate.parcels[b] # {} /\ Profiles(estate.zone[b], "PARCEL") # {} THEN F
                          ELSE IF Profiles(estate.zone[b], "BLOCK") # {} THEN G ELSE {}
        /\ SourcesOf(b)' = IF estate'.parcels[b] # {} /\ Profiles(estate.zone[b], "PARCEL")' # {} THEN F'
                           ELSE IF Profiles(estate.zone[b], "BLOCK")' # {} THEN G' ELSE {}
    BY Zenon DEF SourcesOf
  <2> HIDE DEF F, G
  <2> QED BY <2>1, <2>2, <2>3
<1>5. /\ Sources = UNION {SourcesOf(b) : b \in ZonedBlocks}
      /\ Sources' = UNION {SourcesOf(b)' : b \in ZonedBlocks'}
  BY Zenon DEF Sources, SourcesOf, ZonedBlocks
<1> QED BY <1>3, <1>4, <1>5

LEMMA SitesKept == ASSUME SitesInv, UNCHANGED <<estate, sites>> PROVE SitesInv'
<1>1. Sources' = Sources
  BY SourcesKept
<1>2. \A z, n : Rules(z, n)' = Rules(z, n)
  BY DEF Rules
<1> QED BY <1>1, <1>2 DEF SitesInv

\* A stage that stops keeps everything.
LEMMA BuildingStops ==
  ASSUME BuildingInv, building \notin {"info", "warning"}, building' = "error",
         UNCHANGED <<estate, sites, opened, placed, ledger>>
  PROVE BuildingInv'
<1>1. SitesInv'
  BY SitesKept DEF BuildingInv
<1>2. TurnInv' /\ AccountInv' /\ PlaceInv'
  BY DEF BuildingInv, TurnInv, AccountInv, PlaceInv
<1>3. LedgerInv'
  BY DEF BuildingInv, LedgerInv
<1> QED BY <1>1, <1>2, <1>3 DEF BuildingInv

LEMMA EmptyListed == Listed(<< >>) /\ Len(<< >>) = 0 /\ DOMAIN << >> = {} /\ Range(<< >>) = {}
<1>1. << >> \in Seq({})
  OBVIOUS
<1> QED BY <1>1 DEF Listed, Range

LEMMA BuildingStarts == ASSUME BuildingInit PROVE BuildingInv
<1>1. SitesInv
  <2>1. sites = << >> /\ estate \in BuildingCases /\ Len(sites) = 0 /\ Listed(sites)
    BY EmptyListed DEF BuildingInit
  <2>2. sites \in [1..0 -> Sources]
    BY <2>1
  <2> QED BY <2>1, <2>2 DEF SitesInv
<1>2. TurnInv
  <2>1. Listed(opened) /\ Len(opened) = 0 /\ Len(sites) = 0 /\ DOMAIN opened = {}
    BY EmptyListed DEF BuildingInit
  <2>2. placed = {} /\ opened = << >> /\ IsFiniteSet(placed)
    BY FS_EmptySet DEF BuildingInit
  <2> QED BY <2>1, <2>2 DEF TurnInv
<1>3. AccountInv
  BY EmptyListed DEF BuildingInit, AccountInv, SpacedIn, PrintsIn
<1>4. PlaceInv /\ LedgerInv /\ building = "prepare"
  BY DEF BuildingInit, PlaceInv, LedgerInv
<1> QED BY <1>1, <1>2, <1>3, <1>4 DEF BuildingInv

LEMMA PrepareKeeps == ASSUME BuildingInv, Prepare PROVE BuildingInv'
<1> USE DEF Prepare
<1>1. CASE ~Prepared
  BY <1>1, BuildingStops
<1>2. CASE Prepared
  <2>1. building' = "sources" /\ sites' = SourceOrder
        /\ UNCHANGED <<estate, opened, open, looked, placed, base, chunks, ledger>>
        /\ building = "prepare" /\ estate \in BuildingCases
    BY <1>2 DEF BuildingInv, SitesInv
  <2>2. SitesInv'
    <3> DEFINE n == Cardinality(Sources)
    <3>1. n \in Nat /\ sites' \in [1..n -> Sources]
      BY <2>1, SourceOrderIs
    <3>2. sites' \in Seq(Sources) /\ Len(sites') = n
      <4> HIDE DEF n
      <4> QED BY <3>1, IsASeq, LenProperties
    <3>3. Sources' = Sources
      BY <2>1, SourcesKept
    <3>4. \A z, m : Rules(z, m)' = Rules(z, m)
      BY <2>1 DEF Rules
    <3>5. \A i \in DOMAIN estate.profiles : \A z \in estate.profiles[i].zones :
            Rules(z, estate.profiles[i].name) # {}
      BY <1>2 DEF Prepared
    <3>6. Listed(sites')
      BY <3>2 DEF Listed
    <3> HIDE DEF n
    <3> QED BY <2>1, <3>1, <3>2, <3>3, <3>4, <3>5, <3>6 DEF SitesInv
  <2>3. opened = << >> /\ DOMAIN opened = {} /\ Len(opened) = 0
    BY <2>1, EmptyListed DEF BuildingInv, TurnInv
  <2>4. Len(sites') \in Nat
    BY <2>2 DEF SitesInv
  <2>5. TurnInv'
    BY <2>1, <2>3, <2>4 DEF BuildingInv, TurnInv
  <2>6. AccountInv' /\ PlaceInv' /\ LedgerInv'
    BY <2>1, <2>3 DEF BuildingInv, AccountInv, PlaceInv, LedgerInv
  <2> QED BY <2>1, <2>2, <2>5, <2>6 DEF BuildingInv
<1> QED BY <1>1, <1>2

-----------------------------------------------------------------------------
(* Buildings: the next source. *)

\* Nothing is placed for a source that is not opened.
LEMMA NothingPlacedYet ==
  ASSUME BuildingInv
  PROVE MineIn(placed, Turn + 1) = {} /\ Turn \in Nat /\ Turn + 1 \notin DOMAIN opened
        /\ DOMAIN opened = 1..Turn
<1>1. Turn \in Nat /\ DOMAIN opened = 1..Turn /\ \A x \in placed : x.turn \in 1..Turn
  BY ListedIs DEF BuildingInv, TurnInv, Turn
<1> QED BY <1>1 DEF MineIn

\* A source is opened with a result whose account is right.
LEMMA OpenedGrows ==
  ASSUME BuildingInv, building = "sources", Turn < Len(sites),
         NEW r, Accounted(estate, sites[Turn + 1], r, placed, Turn + 1),
         opened' = Append(opened, r), UNCHANGED <<estate, sites, placed, ledger>>,
         building' \in {"sources", "place"},
         building' = "sources" => r.placement.status # "OPEN"
  PROVE /\ SitesInv' /\ TurnInv' /\ AccountInv' /\ LedgerInv'
        /\ Len(opened') = Turn + 1 /\ opened'[Turn + 1] = r
        /\ \A k \in DOMAIN opened' : opened'[k].placement.status = "OPEN" => k = Turn + 1
<1>1. SitesInv' /\ LedgerInv'
  BY SitesKept DEF BuildingInv, LedgerInv
<1>2. Turn \in Nat /\ DOMAIN opened = 1..Turn /\ Listed(opened) /\ Len(sites) \in Nat
  BY NothingPlacedYet DEF BuildingInv, TurnInv, SitesInv
<1>3. /\ Listed(opened') /\ Len(opened') = Turn + 1 /\ DOMAIN opened' = 1..(Turn + 1)
      /\ \A i \in 1..Turn : opened'[i] = opened[i]
      /\ opened'[Turn + 1] = r
  BY <1>2, Appended DEF Turn
<1>4. TurnInv'
  BY <1>2, <1>3 DEF BuildingInv, TurnInv
<1>5. \A k \in DOMAIN opened' : k \in DOMAIN opened \/ k = Turn + 1
  BY <1>2, <1>3
<1>6. \A k \in DOMAIN opened : opened'[k] = opened[k] /\ opened[k].placement.status # "OPEN"
  BY <1>2, <1>3 DEF BuildingInv, AccountInv
<1>7. AccountInv'
  <2>1. \A k \in DOMAIN opened : Accounted(estate, sites[k], opened[k], placed, k)
    BY DEF BuildingInv, AccountInv
  <2>2. SpacedIn(estate', placed')
    BY DEF BuildingInv, AccountInv
  <2>3. \A k \in DOMAIN opened' : Accounted(estate', sites'[k], opened'[k], placed', k)
    BY <1>3, <1>5, <1>6, <2>1
  <2> QED BY <1>3, <1>5, <1>6, <2>2, <2>3 DEF AccountInv
<1> QED BY <1>1, <1>3, <1>4, <1>5, <1>6, <1>7

\* The account of a source for which nothing is placed yet.
LEMMA FreshAccount ==
  ASSUME BuildingInv, NEW s, NEW e, NEW r, Shaped(r), EnvelopeAccepted(r.envelope),
         r.placement.status = "NONE" <=> r.envelope.status # "READY",
         r.placement.status \in {"NONE", "OPEN", "CONVERGED"},
         r.placement.counts = Untouched,
         IsFiniteSet(r.proposals), r.proposals \subseteq DOMAIN estate.area,
         r.placement.status = "CONVERGED" => Reached(estate, s, r.multiplier, Turn + 1, {})
  PROVE /\ Accounted(estate, s, r, placed, Turn + 1)
        /\ AddUp(Untouched, {}, r.proposals)
<1>1. MineIn(placed, Turn + 1) = {}
  BY NothingPlacedYet
<1>2. AddUp(Untouched, {}, r.proposals)
  <2>1. Cardinality({}) = 0 /\ Cardinality(r.proposals) \in Nat
    BY FS_EmptySet, FS_CardinalityType
  <2> QED BY <2>1 DEF AddUp, Untouched
<1>3. Enveloped(r) /\ Proposed(estate, r, placed, Turn + 1) /\ Built(estate, s, r, placed, Turn + 1)
  BY <1>1 DEF Enveloped, Proposed, Built
<1>4. Honest(estate, s, r, placed, Turn + 1)
  BY <1>1 DEF Honest
<1> QED BY <1>1, <1>2, <1>3, <1>4 DEF Accounted

LEMMA UnplacedIs ==
  ASSUME NEW e, EnvelopeAccepted(e), e.status # "READY"
  PROVE LET r == Unplaced(e)
        IN  /\ Shaped(r) /\ EnvelopeAccepted(r.envelope) /\ r.envelope.status # "READY"
            /\ r.placement.status = "NONE" /\ r.placement.counts = Untouched
            /\ r.proposals = {}
BY DEF Unplaced, Placement, Shaped, Statuses, Counts, Untouched

LEMMA ResultIs ==
  ASSUME NEW e, NEW p, NEW plot, NEW status \in {"OPEN", "CONVERGED"}, p.multiplier \in Nat
  PROVE LET r == Result(e, p, plot, status)
        IN  /\ Shaped(r) /\ r.envelope = e /\ r.multiplier = p.multiplier
            /\ r.placement.status = status /\ r.placement.counts = Untouched
            /\ r.proposals = Proposals(p, plot) /\ r.archetype = p.name
BY DEF Result, Placement, Shaped, Statuses, Counts, Untouched

\* An envelope the stage goes on with passes the checks of its result.
LEMMA EnvelopeIs ==
  ASSUME NEW plot, PlotInput(estate, plot), Envelope(plot).status # "error"
  PROVE EnvelopeAccepted(Envelope(plot))
<1>1. /\ plot.inset \in Nat /\ plot.masked \in Nat /\ plot.inset <= plot.masked
  BY DEF PlotInput
<1>2. Envelope(plot).status = EnvelopeStatus(plot) /\ Envelope(plot).area = Remainder(plot)
      /\ Envelope(plot).failed =
           IF EnvelopeStatus(plot) \in {"READY", "HARD_CONSTRAINT_FAILED"} THEN plot.failing ELSE {}
  BY DEF Envelope
<1>3. Remainder(plot) \in Nat /\ (plot.masked = 0 => Remainder(plot) = 0)
  BY <1>1 DEF Remainder
<1> QED BY <1>2, <1>3 DEF EnvelopeAccepted, EnvelopeStatus

LEMMA OpenSourceKeeps == ASSUME BuildingInv, OpenSource PROVE BuildingInv'
<1> DEFINE k == Turn + 1
           s == sites[k]
           e == Envelope(s.plot)
           standing == estate.existing \cup Footprints
<1>1. building = "sources" /\ Turn < Len(sites) /\ UNCHANGED <<estate, sites, placed, ledger>>
  BY DEF OpenSource
<1>2. SitesInv /\ estate \in BuildingCases /\ IsSource(s) /\ PlotInput(estate, s.plot)
  <2>1. Turn \in Nat /\ SitesInv
    BY NothingPlacedYet DEF BuildingInv
  <2>2. k \in 1..Len(sites)
    BY <1>1, <2>1, SitesAre
  <2> HIDE DEF k
  <2> QED BY <2>1, <2>2, SitesAre DEF IsSource
<1>3. CASE building' = "error" /\ UNCHANGED opened
  BY <1>1, <1>3, BuildingStops
<1>4. CASE /\ e.status \notin {"error", "READY"}
           /\ opened' = Append(opened, Unplaced(e)) /\ UNCHANGED building
  <2> DEFINE r == Unplaced(e)
  <2>1. EnvelopeAccepted(e) /\ e.status # "READY"
    BY <1>2, <1>4, EnvelopeIs
  <2> HIDE DEF e
  <2>2. /\ Shaped(r) /\ EnvelopeAccepted(r.envelope) /\ r.envelope.status # "READY"
        /\ r.placement.status = "NONE" /\ r.placement.counts = Untouched
        /\ r.proposals = {} /\ IsFiniteSet({})
    BY <2>1, UnplacedIs, FS_EmptySet
  <2> HIDE DEF r, k, s
  <2>3. Accounted(estate, s, r, placed, Turn + 1)
    BY <2>2, FreshAccount
  <2>4. SitesInv' /\ TurnInv' /\ AccountInv' /\ LedgerInv'
    BY <1>1, <1>4, <2>2, <2>3, OpenedGrows DEF r, s, k
  <2> QED BY <1>1, <1>4, <2>4 DEF BuildingInv, PlaceInv
<1>5. ASSUME s.zone \in DOMAIN estate.targets, e.status = "READY",
             NEW t \in 0..(Weights(Profiles(s.zone, s.kind)) - 1),
             LET p == Drawn(Profiles(s.zone, s.kind), t) IN
             \/ /\ TargetsMet(k, {})
                /\ opened' = Append(opened, Result(e, p, s.plot, "CONVERGED"))
                /\ UNCHANGED building
             \/ /\ ~TargetsMet(k, {})
                /\ opened' = Append(opened, Result(e, p, s.plot, "OPEN"))
                /\ building' = "place" /\ open' = Proposals(p, s.plot) /\ looked' = Untouched
                /\ base' = standing /\ chunks' = << >>
      PROVE BuildingInv'
  <2> DEFINE p == Drawn(Profiles(s.zone, s.kind), t)
             r(status) == Result(e, p, s.plot, status)
  <2>1. \E i \in Profiles(s.zone, s.kind) : p = estate.profiles[i]
    <3>1. Profiles(s.zone, s.kind) \subseteq DOMAIN estate.profiles
      BY DEF Profiles
    <3> HIDE DEF s
    <3> QED BY <1>2, <1>5, <3>1, DrawnIs
  <2>2. /\ \E i \in DOMAIN estate.profiles :
             p.name = estate.profiles[i].name /\ s.zone \in estate.profiles[i].zones
        /\ p.multiplier \in Nat
    <3>1. PICK i \in Profiles(s.zone, s.kind) : p = estate.profiles[i]
      BY <2>1
    <3>2. i \in DOMAIN estate.profiles /\ s.zone \in estate.profiles[i].zones
      BY <3>1 DEF Profiles
    <3>3. estate.profiles[i].multiplier \in Nat
      BY <1>2, <3>2, EstateFacts DEF ProfilesInput, ArchetypeInput, SpecInput
    <3> QED BY <3>1, <3>2, <3>3
  <2>3. EnvelopeAccepted(e)
    BY <1>2, <1>5, EnvelopeIs
  <2>4. IsFiniteSet(Proposals(p, s.plot)) /\ Proposals(p, s.plot) \subseteq DOMAIN estate.area
    BY <1>2, ProposalsAre
  <2>5. TargetsMet(k, {}) <=> Reached(estate, s, p.multiplier, k, {})
    <3>1. TargetsMet(k, {}) <=> Reached(estate, s, Multiplier(k), k, {})
      BY WindowsAre
    <3>2. Multiplier(k) = 1
      BY NothingPlacedYet DEF Multiplier
    <3> HIDE DEF k, s, p
    <3>3. Reached(estate, s, 1, k, {}) <=> Reached(estate, s, p.multiplier, k, {})
      BY <2>2, EmptyWindow
    <3> QED BY <3>1, <3>2, <3>3
  <2> HIDE DEF p, e
  <2>6. ASSUME NEW status \in {"OPEN", "CONVERGED"}, status = "CONVERGED" => TargetsMet(k, {})
        PROVE /\ Shaped(r(status)) /\ r(status).multiplier = p.multiplier
              /\ r(status).placement.status = status
              /\ r(status).proposals = Proposals(p, s.plot) /\ r(status).archetype = p.name
              /\ Accounted(estate, s, r(status), placed, Turn + 1)
              /\ AddUp(Untouched, {}, Proposals(p, s.plot))
    <3>1. /\ Shaped(r(status)) /\ r(status).envelope = e /\ r(status).multiplier = p.multiplier
          /\ r(status).placement.status = status /\ r(status).placement.counts = Untouched
          /\ r(status).proposals = Proposals(p, s.plot) /\ r(status).archetype = p.name
      BY <2>2, ResultIs
    <3> DEFINE q == r(status)
    <3> HIDE DEF r, s
    <3>2. /\ Shaped(q) /\ EnvelopeAccepted(q.envelope) /\ q.envelope.status = "READY"
          /\ q.placement.status \in {"OPEN", "CONVERGED"} /\ q.placement.counts = Untouched
          /\ IsFiniteSet(q.proposals) /\ q.proposals \subseteq DOMAIN estate.area
          /\ q.placement.status = "CONVERGED" => Reached(estate, s, q.multiplier, Turn + 1, {})
      BY <1>5, <2>3, <2>4, <2>5, <2>6, <3>1
    <3> HIDE DEF q, k
    <3>3. Accounted(estate, s, q, placed, Turn + 1) /\ AddUp(Untouched, {}, q.proposals)
      BY <3>2, FreshAccount
    <3> QED BY <3>1, <3>3 DEF q
  <2>7. CASE /\ TargetsMet(k, {}) /\ opened' = Append(opened, r("CONVERGED"))
             /\ UNCHANGED building
    <3> DEFINE q == r("CONVERGED")
    <3>1. Accounted(estate, s, q, placed, Turn + 1) /\ q.placement.status # "OPEN"
      BY <2>6, <2>7
    <3>2. opened' = Append(opened, q)
      BY <2>7
    <3> HIDE DEF q, r
    <3>3. SitesInv' /\ TurnInv' /\ AccountInv' /\ LedgerInv'
      BY <1>1, <2>7, <3>1, <3>2, OpenedGrows
    <3> QED BY <1>1, <2>7, <3>3 DEF BuildingInv, PlaceInv
  <2>8. CASE /\ ~TargetsMet(k, {}) /\ opened' = Append(opened, r("OPEN"))
             /\ building' = "place" /\ open' = Proposals(p, s.plot) /\ looked' = Untouched
             /\ base' = standing /\ chunks' = << >>
    <3> DEFINE q == r("OPEN")
    <3>1. /\ Accounted(estate, s, q, placed, Turn + 1) /\ q.placement.status = "OPEN"
          /\ q.multiplier = p.multiplier /\ q.proposals = Proposals(p, s.plot)
          /\ q.archetype = p.name /\ AddUp(Untouched, {}, q.proposals)
      BY <2>6
    <3>2. opened' = Append(opened, q)
      BY <2>8
    <3> HIDE DEF q, r
    <3>3. /\ SitesInv' /\ TurnInv' /\ AccountInv' /\ LedgerInv'
          /\ Len(opened') = Turn + 1 /\ opened'[Turn + 1] = q
          /\ \A j \in DOMAIN opened' : opened'[j].placement.status = "OPEN" => j = Turn + 1
      BY <1>1, <2>8, <3>1, <3>2, OpenedGrows
    <3>4. MineIn(placed, k) = {} /\ Turn \in Nat
      BY NothingPlacedYet
    <3>5. Current(estate, s, q, placed, k, open', looked')
      <4>1. Cardinality(open') \in Nat /\ Untouched.iterations = 0 /\ Untouched \in Counts
        BY <2>4, <2>8, FS_CardinalityType DEF Untouched, Counts
      <4>2. open' = q.proposals
        BY <2>8, <3>1
      <4>3. \E i \in DOMAIN estate.profiles :
              q.archetype = estate.profiles[i].name /\ s.zone \in estate.profiles[i].zones
        BY <2>2, <3>1
      <4>4. ~Reached(estate, s, q.multiplier, k, {})
        BY <2>5, <2>8, <3>1
      <4>5. looked' = Untouched /\ 0 + Cardinality(open') = Cardinality(q.proposals)
        BY <2>8, <4>1, <4>2
      <4> HIDE DEF k, s
      <4> QED BY <1>5, <3>1, <3>4, <4>1, <4>2, <4>3, <4>4, <4>5 DEF Current
    <3>6. IndexInv'
      <4>1. Chunked' = {} /\ Listed(chunks')
        BY <2>8, EmptyListed DEF Chunked
      <4>2. base' = estate'.existing \cup PrintsIn(placed')
        BY <1>1, <2>8, MineAre
      <4> QED BY <4>1, <4>2 DEF IndexInv
    <3>7. PlaceInv'
      BY <1>1, <3>3, <3>4, <3>5, <3>6 DEF PlaceInv
    <3> QED BY <2>8, <3>3, <3>7 DEF BuildingInv
  <2> QED BY <1>5, <2>7, <2>8 DEF p
<1>6. \/ building' = "error" /\ UNCHANGED opened
      \/ /\ e.status \notin {"error", "READY"}
         /\ opened' = Append(opened, Unplaced(e)) /\ UNCHANGED building
      \/ /\ s.zone \in DOMAIN estate.targets /\ e.status = "READY"
         /\ \E t \in 0..(Weights(Profiles(s.zone, s.kind)) - 1) :
              LET p == Drawn(Profiles(s.zone, s.kind), t) IN
              \/ building' = "error" /\ UNCHANGED opened
              \/ /\ TargetsMet(k, {})
                 /\ opened' = Append(opened, Result(e, p, s.plot, "CONVERGED"))
                 /\ UNCHANGED building
              \/ /\ ~TargetsMet(k, {})
                 /\ opened' = Append(opened, Result(e, p, s.plot, "OPEN"))
                 /\ building' = "place" /\ open' = Proposals(p, s.plot) /\ looked' = Untouched
                 /\ base' = standing /\ chunks' = << >>
  BY Zenon DEF OpenSource
<1> HIDE DEF e, standing, s, k
<1> QED BY <1>3, <1>4, <1>5, <1>6

-----------------------------------------------------------------------------
(* Buildings: the loop. *)

\* The chunks hold what they held, and the footprint that is added.
LEMMA AddedHolds ==
  ASSUME Listed(chunks), NEW f
  PROVE Listed(Added(f)) /\ UNION Range(Added(f)) = Chunked \cup {f}
<1> DEFINE K == {0} \cup {k \in DOMAIN chunks : Cardinality(chunks[k]) # Joined(k)}
           X == {f} \cup UNION {chunks[i] : i \in Behind(Unmerged)}
           q == SubSeq(chunks, 1, Unmerged)
<1>1. PICK S : chunks \in Seq(S)
  BY DEF Listed
<1>2. Len(chunks) \in Nat /\ DOMAIN chunks = 1..Len(chunks)
  BY ListedIs
<1>3. Unmerged \in 0..Len(chunks)
  <2>1. K \subseteq 0..Len(chunks) /\ 0 \in K
    BY <1>2
  <2>2. IsFiniteSet(0..Len(chunks))
    BY <1>2, FS_Interval
  <2>3. IsFiniteSet(K) /\ K # {} /\ K \subseteq Int
    BY <2>1, <2>2, FS_Subset
  <2>4. Unmerged = Max(K)
    BY DEF Unmerged
  <2> HIDE DEF K
  <2> QED BY <2>1, <2>3, <2>4, MaxOf
<1>4. /\ q \in Seq(S) /\ Len(q) = Unmerged /\ \A i \in 1..Unmerged : q[i] = chunks[i]
  <2> DEFINE n == Unmerged
  <2>1. n \in 0..Len(chunks)
    BY <1>3
  <2> HIDE DEF n
  <2>2. LET c == SubSeq(chunks, 1, n)
        IN  c \in Seq(S) /\ Len(c) = n /\ \A i \in 1..n : c[i] = chunks[i]
    BY <1>1, <1>2, <2>1, SubSeqProperties
  <2> QED BY <2>2 DEF n
<1>5. Added(f) = Append(q, X)
  BY DEF Added
<1>6. Listed(q)
  BY <1>4 DEF Listed
<1>7. DOMAIN q = 1..Unmerged
  BY <1>4
<1>8. Listed(Added(f)) /\ Range(Added(f)) = Range(q) \cup {X}
  <2> HIDE DEF q, X
  <2> QED BY <1>5, <1>6, Appended
<1>9. Range(q) = {chunks[i] : i \in 1..Unmerged}
  <2> HIDE DEF q, X
  <2> QED BY <1>4, <1>7 DEF Range
<1>10. \A i \in DOMAIN chunks : i \in 1..Unmerged \/ i \in Behind(Unmerged)
  BY <1>2, <1>3 DEF Behind
<1>11. 1..Unmerged \subseteq DOMAIN chunks /\ Behind(Unmerged) \subseteq DOMAIN chunks
  BY <1>2, <1>3 DEF Behind
<1>12. Chunked = UNION {chunks[i] : i \in DOMAIN chunks}
  BY DEF Chunked, Range
<1> DEFINE A == UNION {chunks[i] : i \in 1..Unmerged}
           B == UNION {chunks[i] : i \in Behind(Unmerged)}
<1>13. UNION Range(Added(f)) = A \cup X
  <2>1. UNION Range(q) = A
    BY <1>9
  <2> HIDE DEF q, X, A
  <2> QED BY <1>8, <2>1
<1>14. Chunked = A \cup B
  <2> DEFINE D == DOMAIN chunks
             L == 1..Unmerged
             H == Behind(Unmerged)
  <2>1. \A i \in D : i \in L \/ i \in H
    BY <1>10
  <2>2. L \subseteq D /\ H \subseteq D
    BY <1>11
  <2>3. Chunked = UNION {chunks[i] : i \in D}
    BY <1>12
  <2>4. A = UNION {chunks[i] : i \in L} /\ B = UNION {chunks[i] : i \in H}
    OBVIOUS
  <2> HIDE DEF D, L, H, A, B, q, X, K
  <2> QED BY ONLY <2>1, <2>2, <2>3, <2>4
<1>15. X = {f} \cup B
  OBVIOUS
<1> HIDE DEF A, B, X, q, K
<1>16. UNION Range(Added(f)) = Chunked \cup {f}
  BY ONLY <1>13, <1>14, <1>15
<1> QED BY <1>8, <1>16

\* Every footprint that is there is in an index of the loop.
LEMMA IndexesHold ==
  ASSUME IndexInv
  PROVE UNION Indexes = estate.existing \cup PrintsIn(placed)
BY DEF IndexInv, Indexes, Chunked

\* What is known in the loop.
LEMMA LoopIs ==
  ASSUME BuildingInv, building = "place"
  PROVE LET r == opened[Turn] IN
        /\ Turn \in DOMAIN opened /\ Turn \in 1..Len(sites) /\ Listed(opened) /\ Listed(chunks)
        /\ DOMAIN opened = 1..Turn
        /\ Accounted(estate, sites[Turn], r, placed, Turn)
        /\ Current(estate, sites[Turn], r, placed, Turn, open, looked)
        /\ \A k \in DOMAIN opened : opened[k].placement.status = "OPEN" => k = Turn
        /\ UNION Indexes = estate.existing \cup PrintsIn(placed)
        /\ r.multiplier \in Nat /\ Multiplier(Turn) = r.multiplier
        /\ looked \in Counts
<1>1. Turn > 0 /\ Turn \in Nat /\ DOMAIN opened = 1..Turn /\ Turn \in 0..Len(sites) /\ Listed(opened)
  BY ListedIs DEF BuildingInv, TurnInv, PlaceInv, Turn
<1>2. Turn \in DOMAIN opened /\ Turn \in 1..Len(sites)
  BY <1>1, ListedIs DEF BuildingInv, SitesInv
<1>3. Accounted(estate, sites[Turn], opened[Turn], placed, Turn)
  BY <1>2 DEF BuildingInv, AccountInv
<1>4. /\ Current(estate, sites[Turn], opened[Turn], placed, Turn, open, looked)
      /\ \A k \in DOMAIN opened : opened[k].placement.status = "OPEN" => k = Turn
      /\ IndexInv
  BY DEF BuildingInv, PlaceInv, Turn
<1>5. opened[Turn].multiplier \in Nat /\ looked \in Counts
  BY <1>3, <1>4 DEF Accounted, Shaped, Current
<1> QED BY <1>1, <1>2, <1>3, <1>4, <1>5, MineAre, IndexesHold DEF IndexInv

\* The end of the loop for a source: its placement has status and counts.
LEMMA EndedIs ==
  ASSUME BuildingInv, building = "place", NEW status \in Statuses, NEW c \in Counts
  PROVE LET new == Ended(status, c)
            r == opened[Turn] IN
        /\ Listed(new) /\ Len(new) = Len(opened) /\ DOMAIN new = DOMAIN opened
        /\ \A k \in DOMAIN opened : k # Turn => new[k] = opened[k]
        /\ new[Turn] = [r EXCEPT !.placement = Placement(status, c)]
<1> DEFINE r == opened[Turn]
           x == [r EXCEPT !.placement = Placement(status, c)]
<1>1. Listed(opened) /\ Turn \in DOMAIN opened
  BY LoopIs
<1>2. Ended(status, c) = [opened EXCEPT ![Turn] = x]
  BY DEF Ended
<1> HIDE DEF x
<1>3. /\ Listed([opened EXCEPT ![Turn] = x]) /\ Len([opened EXCEPT ![Turn] = x]) = Len(opened)
      /\ DOMAIN [opened EXCEPT ![Turn] = x] = DOMAIN opened
      /\ \A k \in DOMAIN opened : [opened EXCEPT ![Turn] = x][k] = IF k = Turn THEN x ELSE opened[k]
  BY <1>1, Changed
<1>4. [opened EXCEPT ![Turn] = x][Turn] = x
  BY <1>1, <1>3
<1> QED BY <1>2, <1>3, <1>4 DEF x

LEMMA WithPlacement ==
  ASSUME NEW r, Shaped(r), NEW status \in Statuses, NEW c \in Counts
  PROVE LET x == [r EXCEPT !.placement = Placement(status, c)] IN
        /\ Shaped(x) /\ x.envelope = r.envelope /\ x.archetype = r.archetype
        /\ x.multiplier = r.multiplier /\ x.proposals = r.proposals
        /\ x.placement.status = status /\ x.placement.counts = c
BY DEF Shaped, Placement

\* The loop ends for a source, after what was placed for it became pn.
LEMMA EndedAccount ==
  ASSUME NEW e, NEW s, NEW r, NEW k, NEW pn, NEW status \in Statuses \ {"NONE", "OPEN"}, NEW c \in Counts,
         Shaped(r), Enveloped(r), r.placement.status = "OPEN",
         Proposed(e, r, pn, k), Built(e, s, r, pn, k),
         AddUp(c, MineIn(pn, k), r.proposals),
         status = "CONVERGED" => Reached(e, s, r.multiplier, k, MineIn(pn, k)),
         status # "CONVERGED" => ~Reached(e, s, r.multiplier, k, MineIn(pn, k)),
         status = "CANDIDATES_EXHAUSTED" =>
           \A f \in r.proposals \ MineIn(pn, k) : Unfit(e, s, r.multiplier, k, pn, f)
  PROVE Accounted(e, s, [r EXCEPT !.placement = Placement(status, c)], pn, k)
<1> DEFINE x == [r EXCEPT !.placement = Placement(status, c)]
<1>1. /\ Shaped(x) /\ x.envelope = r.envelope /\ x.archetype = r.archetype
      /\ x.multiplier = r.multiplier /\ x.proposals = r.proposals
      /\ x.placement.status = status /\ x.placement.counts = c
  BY WithPlacement
<1> HIDE DEF x
<1>2. Enveloped(x)
  BY <1>1 DEF Enveloped
<1>3. Proposed(e, x, pn, k) /\ Built(e, s, x, pn, k)
  BY <1>1 DEF Proposed, Built
<1>4. Honest(e, s, x, pn, k)
  BY <1>1 DEF Honest
<1>5. AddUp(x.placement.counts, MineIn(pn, k), x.proposals)
  BY <1>1
<1>6. Accounted(e, s, x, pn, k)
  BY <1>1, <1>2, <1>3, <1>4, <1>5 DEF Accounted
<1> QED BY <1>6 DEF x

\* The loop ends for the current source; the next one is opened.
LEMMA LoopEnds ==
  ASSUME BuildingInv, building = "place", NEW status \in Statuses \ {"NONE", "OPEN"}, NEW c \in Counts,
         opened' = Ended(status, c), building' = "sources",
         UNCHANGED <<estate, sites, ledger>>, placed \subseteq placed', IsFiniteSet(placed'),
         \A x \in placed' : x \in placed \/ x.turn = Turn,
         SpacedIn(estate, placed'),
         Accounted(estate, sites[Turn],
                   [opened[Turn] EXCEPT !.placement = Placement(status, c)], placed', Turn)
  PROVE BuildingInv'
<1>1. /\ Turn \in DOMAIN opened /\ Listed(opened) /\ DOMAIN opened = 1..Turn
      /\ \A k \in DOMAIN opened : opened[k].placement.status = "OPEN" => k = Turn
      /\ Shaped(opened[Turn])
  BY LoopIs DEF Accounted
<1>2. /\ Listed(opened') /\ Len(opened') = Len(opened) /\ DOMAIN opened' = DOMAIN opened
      /\ \A k \in DOMAIN opened : k # Turn => opened'[k] = opened[k]
      /\ opened'[Turn] = [opened[Turn] EXCEPT !.placement = Placement(status, c)]
  BY EndedIs
<1>3. opened'[Turn].placement.status = status
  BY <1>1, <1>2, WithPlacement
<1>4. SitesInv' /\ LedgerInv'
  BY SitesKept DEF BuildingInv, LedgerInv
<1>5. TurnInv'
  BY <1>1, <1>2 DEF BuildingInv, TurnInv
<1>6. ASSUME NEW k \in DOMAIN opened PROVE Accounted(estate, sites[k], opened'[k], placed', k)
  <2>1. CASE k = Turn
    BY <1>2, <2>1
  <2>2. CASE k # Turn
    <3>1. MineIn(placed', k) = MineIn(placed, k)
      BY <2>2 DEF MineIn
    <3>2. Accounted(estate, sites[k], opened[k], placed, k)
      BY DEF BuildingInv, AccountInv
    <3>3. Accounted(estate, sites[k], opened[k], placed', k)
      BY <3>1, <3>2, AccountStays
    <3> QED BY <1>2, <2>2, <3>3
  <2> QED BY <2>1, <2>2
<1>7. \A k \in DOMAIN opened : opened'[k].placement.status # "OPEN"
  BY <1>1, <1>2, <1>3
<1>8. AccountInv'
  BY <1>2, <1>6, <1>7 DEF AccountInv
<1> QED BY <1>4, <1>5, <1>8 DEF BuildingInv, PlaceInv

LEMMA ExhaustedKeeps == ASSUME BuildingInv, Exhausted PROVE BuildingInv'
<1> DEFINE status == IF open = {} THEN "CANDIDATES_EXHAUSTED" ELSE "MAX_ITERATIONS"
           r == opened[Turn]
<1>1. building = "place" /\ opened' = Ended(status, looked) /\ building' = "sources"
      /\ UNCHANGED <<estate, sites, open, looked, placed, base, chunks, ledger>>
  BY DEF Exhausted
<1>2. /\ Accounted(estate, sites[Turn], r, placed, Turn)
      /\ Current(estate, sites[Turn], r, placed, Turn, open, looked) /\ looked \in Counts
  BY <1>1, LoopIs
<1>3. status \in Statuses \ {"NONE", "OPEN"}
  BY DEF Statuses
<1>4. /\ Shaped(r) /\ Enveloped(r) /\ r.placement.status = "OPEN"
      /\ Proposed(estate, r, placed, Turn) /\ Built(estate, sites[Turn], r, placed, Turn)
      /\ AddUp(looked, MineIn(placed, Turn), r.proposals)
      /\ ~Reached(estate, sites[Turn], r.multiplier, Turn, MineIn(placed, Turn))
      /\ \A f \in r.proposals \ (open \cup MineIn(placed, Turn)) :
           Unfit(estate, sites[Turn], r.multiplier, Turn, placed, f)
  BY <1>2 DEF Accounted, Current
<1>5. status = "CANDIDATES_EXHAUSTED" => open = {}
  OBVIOUS
<1>6. status # "CONVERGED"
  OBVIOUS
<1> HIDE DEF status
<1>7. Accounted(estate, sites[Turn], [r EXCEPT !.placement = Placement(status, looked)], placed, Turn)
  <2>1. status = "CANDIDATES_EXHAUSTED" =>
           \A f \in r.proposals \ MineIn(placed, Turn) :
             Unfit(estate, sites[Turn], r.multiplier, Turn, placed, f)
    BY <1>4, <1>5
  <2> HIDE DEF r
  <2> QED BY <1>2, <1>3, <1>4, <1>6, <2>1, EndedAccount
<1>8. SpacedIn(estate, placed) /\ IsFiniteSet(placed)
  BY DEF BuildingInv, AccountInv, TurnInv
<1> QED BY <1>1, <1>2, <1>3, <1>7, <1>8, LoopEnds

\* One footprint more is looked at, and not taken.
LEMMA RefusedIsCurrent ==
  ASSUME NEW e, NEW s, NEW r, NEW pl, NEW k, NEW op, NEW c, Current(e, s, r, pl, k, op, c),
         IsFiniteSet(r.proposals), NEW f \in op, Unfit(e, s, r.multiplier, k, pl, f),
         NEW d \in Counts, d.iterations = c.iterations + 1,
         d.spacing + d.window = c.spacing + c.window + 1
  PROVE Current(e, s, r, pl, k, op \ {f}, d)
<1>1. IsFiniteSet(op) /\ Cardinality(op) \in Nat
  BY FS_Subset, FS_CardinalityType DEF Current
<1>2. Cardinality(op \ {f}) = Cardinality(op) - 1 /\ Cardinality(op \ {f}) \in Nat
  BY <1>1, FS_RemoveElement, FS_CardinalityType
<1>3. /\ Cardinality(MineIn(pl, k)) \in Nat /\ Cardinality(r.proposals) \in Nat
      /\ c \in Counts /\ c.iterations + Cardinality(op) = Cardinality(r.proposals)
      /\ c.spacing + c.window + Cardinality(MineIn(pl, k)) = c.iterations
  BY DEF Current, AddUp
<1>4. AddUp(d, MineIn(pl, k), r.proposals)
      /\ d.iterations + Cardinality(op \ {f}) = Cardinality(r.proposals)
  BY <1>1, <1>2, <1>3 DEF AddUp, Counts
<1>5. \A g \in r.proposals \ ((op \ {f}) \cup MineIn(pl, k)) : Unfit(e, s, r.multiplier, k, pl, g)
  BY DEF Current
<1> QED BY <1>4, <1>5 DEF Current

\* One footprint more is taken, and more are needed.
LEMMA TakenIsCurrent ==
  ASSUME NEW e, CaseNumbers(e), NEW s, NEW r, NEW pl, NEW pn, NEW k, NEW op, NEW c,
         Current(e, s, r, pl, k, op, c), Proposed(e, r, pl, k), r.multiplier \in Nat,
         e.targets[s.zone].high * s.plot.size \in Int, e.targets[s.zone].farHigh * s.plot.size \in Int,
         NEW f \in op, pl \subseteq pn, MineIn(pn, k) = MineIn(pl, k) \cup {f},
         ~Reached(e, s, r.multiplier, k, MineIn(pn, k)),
         NEW d \in Counts, d.iterations = c.iterations + 1,
         d.spacing = c.spacing, d.window = c.window
  PROVE /\ Current(e, s, r, pn, k, op \ {f}, d)
        /\ AddUp(d, MineIn(pn, k), r.proposals) /\ Proposed(e, r, pn, k)
<1> DEFINE M == MineIn(pl, k)
           grown == MineIn(pn, k)
<1>0. IsFiniteSet(r.proposals) /\ r.proposals \subseteq DOMAIN e.area /\ M \subseteq r.proposals
  BY DEF Proposed
<1>1. /\ op \subseteq r.proposals /\ op \cap M = {} /\ c \in Counts
      /\ Cardinality(M) \in Nat /\ Cardinality(r.proposals) \in Nat
      /\ c.iterations + Cardinality(op) = Cardinality(r.proposals)
      /\ c.spacing + c.window + Cardinality(M) = c.iterations
      /\ \A g \in r.proposals \ (op \cup M) : Unfit(e, s, r.multiplier, k, pl, g)
  BY DEF Current, AddUp
<1>2. grown = M \cup {f} /\ f \notin M
  BY <1>1
<1>3. IsFiniteSet(op) /\ Cardinality(op) \in Nat /\ IsFiniteSet(M)
  <2> HIDE DEF M, grown
  <2> QED BY <1>0, <1>1, FS_Subset, FS_CardinalityType
<1> HIDE DEF M, grown
<1>4. Cardinality(op \ {f}) = Cardinality(op) - 1 /\ Cardinality(op \ {f}) \in Nat
  BY <1>3, FS_RemoveElement, FS_Subset, FS_CardinalityType
<1>5. Cardinality(grown) = Cardinality(M) + 1
  BY <1>2, <1>3, FS_AddElement
<1>6. grown \subseteq r.proposals /\ IsFiniteSet(grown) /\ (op \ {f}) \cap grown = {}
  BY <1>0, <1>1, <1>2, FS_Subset
<1>7. /\ AddUp(d, grown, r.proposals)
      /\ d.iterations + Cardinality(op \ {f}) = Cardinality(r.proposals)
  BY <1>1, <1>3, <1>4, <1>5 DEF AddUp, Counts
<1>8. ASSUME NEW g \in r.proposals \ ((op \ {f}) \cup grown) PROVE Unfit(e, s, r.multiplier, k, pn, g)
  <2>1. Unfit(e, s, r.multiplier, k, pl, g)
    BY <1>1, <1>2
  <2>2. CASE \E h \in e.existing \cup PrintsIn(pl) : {g, h} \in e.near
    <3>1. PrintsIn(pl) \subseteq PrintsIn(pn)
      BY DEF PrintsIn
    <3> QED BY <2>2, <3>1 DEF Unfit
  <2>3. CASE ~WithinWindow(e, s, r.multiplier, k, M \cup {g})
    <3>1. IsFiniteSet(grown \cup {g}) /\ grown \cup {g} \subseteq DOMAIN e.area
      BY <1>0, <1>6, FS_AddElement
    <3>2. M \cup {g} \in SUBSET (grown \cup {g})
      BY <1>2
    <3>3. ~WithinWindow(e, s, r.multiplier, k, grown \cup {g})
      BY <2>3, <3>1, <3>2, WindowShrinks
    <3> QED BY <3>3 DEF Unfit, grown
  <2> QED BY <2>1, <2>2, <2>3 DEF Unfit, M
<1>9. /\ r.placement.status = "OPEN" /\ s.zone \in DOMAIN e.targets
      /\ \E i \in DOMAIN e.profiles :
           r.archetype = e.profiles[i].name /\ s.zone \in e.profiles[i].zones
  BY DEF Current
<1> QED BY <1>0, <1>1, <1>6, <1>7, <1>8, <1>9 DEF Current, Proposed, grown

\* What is placed after one footprint more was taken.
LEMMA TakenIs ==
  ASSUME BuildingInv, building = "place", NEW f,
         \A index \in Indexes : Hits(f, index) = {}
  PROVE LET pn == placed \cup {[print |-> f, turn |-> Turn]} IN
        /\ MineIn(pn, Turn) = MineIn(placed, Turn) \cup {f}
        /\ PrintsIn(pn) = PrintsIn(placed) \cup {f}
        /\ IsFiniteSet(pn) /\ SpacedIn(estate, pn)
        /\ \A x \in pn : x \in placed \/ x.turn = Turn
<1> DEFINE new == [print |-> f, turn |-> Turn]
           pn == placed \cup {new}
           mine == {x \in placed : x.turn = Turn}
<1>0. new.print = f /\ new.turn = Turn
  OBVIOUS
<1> HIDE DEF new
<1>1. MineIn(pn, Turn) = MineIn(placed, Turn) \cup {f}
  <2>1. {x \in pn : x.turn = Turn} = mine \cup {new}
    BY <1>0
  <2> HIDE DEF mine, pn
  <2>2. {x.print : x \in mine \cup {new}} = {x.print : x \in mine} \cup {new.print}
    OBVIOUS
  <2> QED BY <1>0, <2>1, <2>2 DEF MineIn, mine
<1>2. PrintsIn(pn) = PrintsIn(placed) \cup {f}
  <2>1. {x.print : x \in placed \cup {new}} = {x.print : x \in placed} \cup {new.print}
    OBVIOUS
  <2> QED BY <1>0, <2>1 DEF PrintsIn
<1>3. IsFiniteSet(pn)
  BY FS_AddElement DEF BuildingInv, TurnInv
<1>4. UNION Indexes = estate.existing \cup PrintsIn(placed)
  BY LoopIs
<1>5. \A g \in estate.existing \cup PrintsIn(placed) : {f, g} \notin estate.near
  BY <1>4 DEF Hits
<1>6. \A g : {f, g} = {g, f}
  OBVIOUS
<1>7. {f, f} \notin estate.near
  BY ApartFromItself DEF BuildingInv, SitesInv
<1>8. SpacedIn(estate, placed)
  BY DEF BuildingInv, AccountInv
<1>10. \A x \in pn : x \in placed \/ x.turn = Turn
  BY <1>0
<1> HIDE DEF pn
<1>9. SpacedIn(estate, pn)
  BY <1>2, <1>5, <1>6, <1>7, <1>8 DEF SpacedIn
<1> QED BY <1>1, <1>2, <1>3, <1>9, <1>10, Zenon DEF pn, new

LEMMA PlaceKeeps == ASSUME BuildingInv, Place PROVE BuildingInv'
<1>0. building = "place" /\ UNCHANGED <<estate, sites, base, ledger>>
  BY DEF Place
<1> DEFINE s == sites[Turn]
           r == opened[Turn]
<1>1. /\ Turn \in DOMAIN opened /\ Turn \in 1..Len(sites) /\ Listed(opened) /\ Listed(chunks)
      /\ DOMAIN opened = 1..Turn
      /\ Accounted(estate, s, r, placed, Turn)
      /\ Current(estate, s, r, placed, Turn, open, looked)
      /\ \A k \in DOMAIN opened : opened[k].placement.status = "OPEN" => k = Turn
      /\ UNION Indexes = estate.existing \cup PrintsIn(placed)
      /\ r.multiplier \in Nat /\ Multiplier(Turn) = r.multiplier
      /\ looked \in Counts
  BY <1>0, LoopIs
<1>2. CaseNumbers(estate) /\ estate \in BuildingCases
      /\ estate.targets[s.zone].high * s.plot.size \in Int
      /\ estate.targets[s.zone].farHigh * s.plot.size \in Int
  <2>1. SitesInv
    BY DEF BuildingInv
  <2>2. s.zone \in DOMAIN estate.targets
    BY <1>1 DEF Current
  <2>3. /\ IsSource(s) /\ CaseNumbers(estate) /\ estate \in BuildingCases
        /\ estate.targets[s.zone].high \in 0..100
        /\ estate.targets[s.zone].farHigh \in Int
    BY <1>1, <2>1, <2>2, SitesAre
  <2>4. s.plot.size \in Nat
    BY <2>3 DEF IsSource
  <2> HIDE DEF s
  <2> QED BY <2>3, <2>4
<1>3. CASE building' = "error" /\ UNCHANGED <<opened, placed>>
  BY <1>0, <1>3, BuildingStops
<1>4. ASSUME NEW f \in open
      PROVE LET after == Mine(Turn) \cup {f}
                apart == \A index \in Indexes : Hits(f, index) = {}
                fits == Below(Cover(Turn, after), Floor(Turn, after), Turn)
                counts == [iterations |-> looked.iterations + 1,
                                 spacing |-> looked.spacing + (IF apart THEN 0 ELSE 1),
                                 window |-> looked.window + (IF apart /\ ~fits THEN 1 ELSE 0)]
            IN  /\ counts \in Counts /\ counts.iterations = looked.iterations + 1
                /\ ~(apart /\ fits) => counts.spacing + counts.window = looked.spacing + looked.window + 1
                /\ apart /\ fits => counts.spacing = looked.spacing /\ counts.window = looked.window
                /\ fits <=> WithinWindow(estate, s, r.multiplier, Turn, MineIn(placed, Turn) \cup {f})
                /\ TargetsMet(Turn, after) <=>
                     Reached(estate, s, r.multiplier, Turn, MineIn(placed, Turn) \cup {f})
                /\ ~(apart /\ fits) => Unfit(estate, s, r.multiplier, Turn, placed, f)
  <2> DEFINE after == Mine(Turn) \cup {f}
             apart == \A index \in Indexes : Hits(f, index) = {}
             fits == Below(Cover(Turn, after), Floor(Turn, after), Turn)
             a == IF apart THEN 0 ELSE 1
             w == IF apart /\ ~fits THEN 1 ELSE 0
             counts == [iterations |-> looked.iterations + 1,
                        spacing |-> looked.spacing + a, window |-> looked.window + w]
  <2>1. /\ a \in Nat /\ w \in Nat /\ (~(apart /\ fits) => a + w = 1)
        /\ (apart /\ fits => a = 0 /\ w = 0)
    OBVIOUS
  <2>2. after = MineIn(placed, Turn) \cup {f}
    BY MineAre
  <2>3. /\ fits <=> WithinWindow(estate, s, r.multiplier, Turn, after)
        /\ TargetsMet(Turn, after) <=> Reached(estate, s, r.multiplier, Turn, after)
    <3> HIDE DEF after, r
    <3> QED BY <1>1, WindowsAre
  <2>4. ~apart => \E g \in estate.existing \cup PrintsIn(placed) : {f, g} \in estate.near
    BY <1>1 DEF Hits
  <2>5. ~(apart /\ fits) => Unfit(estate, s, r.multiplier, Turn, placed, f)
    <3> HIDE DEF apart, fits, after, s, r
    <3> QED BY <2>2, <2>3, <2>4 DEF Unfit
  <2> HIDE DEF a, w, apart, fits, after
  <2>6. /\ counts \in Counts /\ counts.iterations = looked.iterations + 1
        /\ counts.spacing = looked.spacing + a /\ counts.window = looked.window + w
    <3>1. /\ a \in Nat /\ w \in Nat /\ looked \in Counts
      BY <1>1, <2>1
    <3> QED BY ONLY <3>1 DEF Counts, counts
  <2>7. /\ ~(apart /\ fits) => counts.spacing + counts.window = looked.spacing + looked.window + 1
        /\ apart /\ fits => counts.spacing = looked.spacing /\ counts.window = looked.window
    <3>1. looked.spacing \in Nat /\ looked.window \in Nat
      BY <1>1 DEF Counts
    <3> HIDE DEF counts
    <3> QED BY <2>1, <2>6, <3>1
  <2> HIDE DEF counts, s, r
  <2>8. /\ counts \in Counts /\ counts.iterations = looked.iterations + 1
        /\ ~(apart /\ fits) => counts.spacing + counts.window = looked.spacing + looked.window + 1
        /\ apart /\ fits => counts.spacing = looked.spacing /\ counts.window = looked.window
        /\ fits <=> WithinWindow(estate, s, r.multiplier, Turn, MineIn(placed, Turn) \cup {f})
        /\ TargetsMet(Turn, after) <=>
             Reached(estate, s, r.multiplier, Turn, MineIn(placed, Turn) \cup {f})
        /\ ~(apart /\ fits) => Unfit(estate, s, r.multiplier, Turn, placed, f)
    BY <2>2, <2>3, <2>5, <2>6, <2>7
  <2> QED BY <2>8 DEF counts, a, w, apart, fits, after
<1>5. ASSUME NEW f \in open, NEW d \in Counts, d.iterations = looked.iterations + 1,
             d.spacing + d.window = looked.spacing + looked.window + 1,
             Unfit(estate, s, r.multiplier, Turn, placed, f),
             open' = open \ {f}, looked' = d, UNCHANGED <<building, opened, placed, chunks>>
      PROVE BuildingInv'
  <2>1. SitesInv' /\ TurnInv' /\ AccountInv' /\ LedgerInv'
    BY <1>0, <1>5, SitesKept DEF BuildingInv, TurnInv, AccountInv, LedgerInv
  <2>2. IsFiniteSet(r.proposals)
    BY <1>1 DEF Accounted, Proposed
  <2>3. Current(estate, s, r, placed, Turn, open', looked')
    <3> HIDE DEF s, r
    <3> QED BY <1>1, <1>5, <2>2, RefusedIsCurrent
  <2>4. IndexInv'
    BY <1>0, <1>5 DEF BuildingInv, PlaceInv, IndexInv, Chunked
  <2>5. PlaceInv'
    BY <1>0, <1>5, <2>3, <2>4 DEF BuildingInv, PlaceInv, Turn
  <2> QED BY <1>0, <1>5, <2>1, <2>5 DEF BuildingInv
<1>6. ASSUME NEW f \in open, NEW d \in Counts, d.iterations = looked.iterations + 1,
             d.spacing = looked.spacing, d.window = looked.window,
             \A index \in Indexes : Hits(f, index) = {},
             WithinWindow(estate, s, r.multiplier, Turn, MineIn(placed, Turn) \cup {f}),
             placed' = placed \cup {[print |-> f, turn |-> Turn]},
             chunks' = Added(f), open' = open \ {f}, looked' = d,
             IF Reached(estate, s, r.multiplier, Turn, MineIn(placed, Turn) \cup {f})
             THEN opened' = Ended("CONVERGED", d) /\ building' = "sources"
             ELSE UNCHANGED <<opened, building>>
      PROVE BuildingInv'
  <2>1. /\ MineIn(placed', Turn) = MineIn(placed, Turn) \cup {f}
        /\ PrintsIn(placed') = PrintsIn(placed) \cup {f}
        /\ IsFiniteSet(placed') /\ SpacedIn(estate, placed')
        /\ \A x \in placed' : x \in placed \/ x.turn = Turn
        /\ placed \subseteq placed'
    BY <1>0, <1>6, TakenIs
  <2>2. /\ Shaped(r) /\ Enveloped(r) /\ Proposed(estate, r, placed, Turn)
        /\ r.placement.status = "OPEN" /\ f \in r.proposals
        /\ s.zone \in DOMAIN estate.targets
        /\ \E i \in DOMAIN estate.profiles :
             r.archetype = estate.profiles[i].name /\ s.zone \in estate.profiles[i].zones
    BY <1>1, <1>6 DEF Accounted, Current
  <2>3. Proposed(estate, r, placed', Turn) /\ Built(estate, s, r, placed', Turn)
    BY <1>6, <2>1, <2>2 DEF Proposed, Built
  <2>4. CASE Reached(estate, s, r.multiplier, Turn, MineIn(placed, Turn) \cup {f})
    <3>1. AddUp(d, MineIn(placed', Turn), r.proposals)
      <4> DEFINE M == MineIn(placed, Turn)
                 grown == MineIn(placed', Turn)
      <4>1. /\ grown = M \cup {f} /\ f \notin M /\ grown \subseteq r.proposals /\ M \subseteq r.proposals
            /\ IsFiniteSet(r.proposals) /\ open \subseteq r.proposals
        BY <1>1, <1>6, <2>1, <2>2, <2>3 DEF Current, Proposed
      <4>2. /\ Cardinality(M) \in Nat /\ Cardinality(r.proposals) \in Nat
            /\ looked.iterations + Cardinality(open) = Cardinality(r.proposals)
            /\ looked.spacing + looked.window + Cardinality(M) = looked.iterations
        BY <1>1 DEF Current, AddUp
      <4> HIDE DEF M, grown, r, s
      <4>3. IsFiniteSet(M) /\ IsFiniteSet(open)
        BY <4>1, FS_Subset
      <4>4. Cardinality(grown) = Cardinality(M) + 1
        BY <4>1, <4>3, FS_AddElement
      <4>5. Cardinality(open) \in Nat /\ Cardinality(open) # 0
        BY <1>6, <4>3, FS_CardinalityType, FS_EmptySet
      <4>6. AddUp(d, grown, r.proposals)
        <5>1. /\ looked.iterations \in Nat /\ looked.spacing \in Nat /\ looked.window \in Nat
              /\ d.iterations = looked.iterations + 1
              /\ d.spacing = looked.spacing /\ d.window = looked.window
          BY <1>1, <1>6 DEF Counts
        <5> QED BY ONLY <4>2, <4>4, <4>5, <5>1 DEF AddUp
      <4> QED BY <4>6 DEF grown
    <3>2. "CONVERGED" \in Statuses \ {"NONE", "OPEN"}
      BY DEF Statuses
    <3>3. Accounted(estate, s, [r EXCEPT !.placement = Placement("CONVERGED", d)], placed', Turn)
      <4>1. Reached(estate, s, r.multiplier, Turn, MineIn(placed', Turn))
        BY <2>1, <2>4
      <4> HIDE DEF r, s
      <4> QED BY <1>6, <2>2, <2>3, <3>1, <3>2, <4>1, EndedAccount
    <3>4. opened' = Ended("CONVERGED", d) /\ building' = "sources"
      BY <1>6, <2>4
    <3> QED BY <1>0, <1>6, <2>1, <3>2, <3>3, <3>4, LoopEnds
  <2>5. CASE ~Reached(estate, s, r.multiplier, Turn, MineIn(placed, Turn) \cup {f})
    <3>1. UNCHANGED <<opened, building>>
      BY <1>6, <2>5
    <3>2. ~Reached(estate, s, r.multiplier, Turn, MineIn(placed', Turn))
      BY <2>1, <2>5
    <3>3. Current(estate, s, r, placed', Turn, open', looked')
      <4> HIDE DEF r, s
      <4> QED BY <1>1, <1>2, <1>6, <2>1, <2>2, <3>2, TakenIsCurrent
    <3>4. Accounted(estate, s, r, placed', Turn)
      <4>1. Honest(estate, s, r, placed', Turn)
        BY <2>2 DEF Honest
      <4> HIDE DEF r, s
      <4> QED BY <2>2, <2>3, <4>1 DEF Accounted
    <3>5. ASSUME NEW k \in DOMAIN opened PROVE Accounted(estate, sites[k], opened[k], placed', k)
      <4>1. CASE k = Turn
        BY <3>4, <4>1
      <4>2. CASE k # Turn
        <5>1. MineIn(placed', k) = MineIn(placed, k)
          BY <1>6, <4>2 DEF MineIn
        <5>2. Accounted(estate, sites[k], opened[k], placed, k)
          BY DEF BuildingInv, AccountInv
        <5> QED BY <2>1, <5>1, <5>2, AccountStays
      <4> QED BY <4>1, <4>2
    <3>6. SitesInv' /\ LedgerInv'
      BY <1>0, <3>1, SitesKept DEF BuildingInv, LedgerInv
    <3>7. TurnInv'
      BY <1>0, <1>1, <2>1, <3>1 DEF BuildingInv, TurnInv
    <3>8. AccountInv'
      BY <1>0, <2>1, <3>1, <3>5 DEF AccountInv
    <3>9. IndexInv'
      <4>1. Listed(chunks') /\ Chunked' = Chunked \cup {f}
        BY <1>1, <1>6, AddedHolds DEF Chunked
      <4>2. base \cup Chunked = estate.existing \cup PrintsIn(placed)
        BY <1>0 DEF BuildingInv, PlaceInv, IndexInv
      <4> QED BY <1>0, <2>1, <4>1, <4>2 DEF IndexInv
    <3>10. PlaceInv'
      <4>1. Len(opened) > 0 /\ Len(opened) = Turn
        BY <1>0 DEF BuildingInv, PlaceInv, Turn
      <4> QED BY <1>0, <1>1, <3>1, <3>3, <3>9, <4>1 DEF PlaceInv
    <3> QED BY <1>0, <3>1, <3>6, <3>7, <3>8, <3>10 DEF BuildingInv
  <2> QED BY <2>4, <2>5
<1>7. CASE ~(building' = "error" /\ UNCHANGED <<opened, placed>>)
  <2>1. PICK f \in open :
         LET after == Mine(Turn) \cup {f}
             apart == \A index \in Indexes : Hits(f, index) = {}
             fits == Below(Cover(Turn, after), Floor(Turn, after), Turn)
             counts == [iterations |-> looked.iterations + 1,
                              spacing |-> looked.spacing + (IF apart THEN 0 ELSE 1),
                              window |-> looked.window + (IF apart /\ ~fits THEN 1 ELSE 0)]
         IN  \/ /\ ~(apart /\ fits)
                /\ open' = open \ {f} /\ looked' = counts
                /\ UNCHANGED <<building, opened, placed, chunks>>
             \/ /\ apart /\ fits
                /\ placed' = placed \cup {[print |-> f, turn |-> Turn]}
                /\ chunks' = Added(f)
                /\ open' = open \ {f} /\ looked' = counts
                /\ IF TargetsMet(Turn, after)
                   THEN opened' = Ended("CONVERGED", counts) /\ building' = "sources"
                   ELSE UNCHANGED <<opened, building>>
    BY <1>7, Zenon DEF Place
  <2> DEFINE after == Mine(Turn) \cup {f}
             apart == \A index \in Indexes : Hits(f, index) = {}
             fits == Below(Cover(Turn, after), Floor(Turn, after), Turn)
             counts == [iterations |-> looked.iterations + 1,
                              spacing |-> looked.spacing + (IF apart THEN 0 ELSE 1),
                              window |-> looked.window + (IF apart /\ ~fits THEN 1 ELSE 0)]
  <2>2. /\ counts \in Counts /\ counts.iterations = looked.iterations + 1
        /\ ~(apart /\ fits) => counts.spacing + counts.window = looked.spacing + looked.window + 1
        /\ apart /\ fits => counts.spacing = looked.spacing /\ counts.window = looked.window
        /\ fits <=> WithinWindow(estate, s, r.multiplier, Turn, MineIn(placed, Turn) \cup {f})
        /\ TargetsMet(Turn, after) <=>
             Reached(estate, s, r.multiplier, Turn, MineIn(placed, Turn) \cup {f})
        /\ ~(apart /\ fits) => Unfit(estate, s, r.multiplier, Turn, placed, f)
    BY <1>4
  <2>3. \/ /\ ~(apart /\ fits)
           /\ open' = open \ {f} /\ looked' = counts
           /\ UNCHANGED <<building, opened, placed, chunks>>
        \/ /\ apart /\ fits
           /\ placed' = placed \cup {[print |-> f, turn |-> Turn]}
           /\ chunks' = Added(f)
           /\ open' = open \ {f} /\ looked' = counts
           /\ IF TargetsMet(Turn, after)
              THEN opened' = Ended("CONVERGED", counts) /\ building' = "sources"
              ELSE UNCHANGED <<opened, building>>
    BY <2>1
  <2>4. apart => \A index \in Indexes : Hits(f, index) = {}
    OBVIOUS
  <2> HIDE DEF counts, apart, fits, after, s, r
  <2>5. CASE ~(apart /\ fits)
    BY <1>5, <2>2, <2>3, <2>5
  <2>6. CASE apart /\ fits
    BY <1>6, <2>2, <2>3, <2>4, <2>6
  <2> QED BY <2>5, <2>6
<1> QED BY <1>3, <1>7

-----------------------------------------------------------------------------
(* Buildings: the end of the stage. *)

\* The building of a footprint: a source that is reported, and a rule for its archetype.
LEMMA OwnerIs ==
  ASSUME BuildingInv, building = "sources", sites # << >>, NEW f \in Footprints
  PROVE /\ Owner(f).block \in DOMAIN estate.parcels
        /\ Owner(f).zone = estate.zone[Owner(f).block] /\ Owner(f).zone # 0
        /\ Rule(f) \in Rules(Owner(f).zone, Archetype(f))
<1> DEFINE x == CHOOSE x \in placed : x.print = f
<1>1. x \in placed /\ x.print = f
  BY DEF Footprints
<1>2. Owner(f) = sites[x.turn] /\ Archetype(f) = opened[x.turn].archetype
  BY DEF Owner, Archetype
<1> HIDE DEF x
<1>3. x.turn \in DOMAIN opened /\ x.turn \in 1..Len(sites)
  BY <1>1, SitesAre DEF BuildingInv, TurnInv
<1>4. IsSource(sites[x.turn])
  BY <1>3, SitesAre DEF BuildingInv
<1>5. MineIn(placed, x.turn) # {}
  BY <1>1 DEF MineIn
<1>6. \E i \in DOMAIN estate.profiles :
        opened[x.turn].archetype = estate.profiles[i].name
        /\ sites[x.turn].zone \in estate.profiles[i].zones
  BY <1>3, <1>5 DEF BuildingInv, AccountInv, Accounted, Built
<1>7. Rules(sites[x.turn].zone, opened[x.turn].archetype) # {}
  BY <1>6 DEF BuildingInv, SitesInv
<1>8. Rule(f) \in Rules(Owner(f).zone, Archetype(f))
  BY <1>2, <1>7 DEF Rule
<1> QED BY <1>2, <1>4, <1>8 DEF IsSource

LEMMA BuildingFinishes == ASSUME BuildingInv, Finish PROVE BuildingInv'
<1>1. building = "sources" /\ Turn = Len(sites)
      /\ UNCHANGED <<estate, sites, opened, open, looked, placed, base, chunks>>
  BY DEF Finish
<1>2. CASE building' = "error" /\ UNCHANGED ledger
  BY <1>1, <1>2, BuildingStops
<1>3. ASSUME sites # << >>, estate.priorFootprint + Over(estate.area, Footprints) <= SiteArea,
             building' = IF \A k \in 1..Turn : opened[k].envelope.status = "READY" /\ TargetsMet(k, Mine(k))
                         THEN "info" ELSE "warning",
             NEW floors \in [Footprints -> UNION {r.min..r.max : r \in estate.rules}],
             \A f \in Footprints : floors[f] \in Rule(f).min..Rule(f).max,
             ledger' = [owners |-> Ownership, blocks |-> BlockRefs,
                        attributes |-> Assigned(floors), areas |-> AreaSummary(floors)]
      PROVE BuildingInv'
  <2>0. SitesInv /\ TurnInv /\ AccountInv /\ estate \in BuildingCases /\ CaseNumbers(estate)
    BY SitesAre DEF BuildingInv
  <2>1. SitesInv' /\ TurnInv'
    BY <1>1, <1>3, SitesKept DEF BuildingInv, TurnInv
  <2>2. building' \in {"info", "warning"}
    BY <1>3
  <2>3. AccountInv' /\ PlaceInv'
    BY <1>1, <2>0, <2>2 DEF AccountInv, PlaceInv
  <2>4. building' = "info" => \A k \in DOMAIN opened : opened[k].placement.status = "CONVERGED"
    <3>1. SUFFICES ASSUME building' = "info", NEW k \in DOMAIN opened
                   PROVE opened[k].placement.status = "CONVERGED"
      OBVIOUS
    <3>2. k \in 1..Turn
      BY NothingPlacedYet
    <3>3. opened[k].envelope.status = "READY" /\ TargetsMet(k, Mine(k))
      BY <1>3, <3>1, <3>2
    <3>4. Accounted(estate, sites[k], opened[k], placed, k) /\ opened[k].placement.status # "OPEN"
      BY <1>1, <3>1 DEF BuildingInv, AccountInv
    <3>5. Reached(estate, sites[k], opened[k].multiplier, k, MineIn(placed, k))
      BY <3>1, <3>3, WindowsAre, MineAre
    <3>6. /\ opened[k].placement.status \in Statuses /\ opened[k].placement.status # "NONE"
          /\ opened[k].placement.status \notin {"CANDIDATES_EXHAUSTED", "MAX_ITERATIONS"}
      BY <3>3, <3>4, <3>5 DEF Accounted, Shaped, Enveloped, Honest
    <3> QED BY <3>4, <3>6 DEF Statuses
  <2>5. /\ Over(estate.area, Footprints) <= SiteArea
        /\ IsFiniteSet(Footprints) /\ Footprints \subseteq DOMAIN estate.area
    BY <2>0, FootprintsWithinSites
  <2>6. ASSUME NEW f \in Footprints
        PROVE /\ Owner(f).block \in DOMAIN estate.parcels
              /\ Owner(f).zone = estate.zone[Owner(f).block] /\ Owner(f).zone # 0
              /\ Rule(f) \in Rules(Owner(f).zone, Archetype(f))
              /\ floors[f] \in Rule(f).min..Rule(f).max /\ Rule(f).min \in Nat \ {0}
              /\ floors[f] \in Nat \ {0}
    <3>1. /\ Owner(f).block \in DOMAIN estate.parcels
          /\ Owner(f).zone = estate.zone[Owner(f).block] /\ Owner(f).zone # 0
          /\ Rule(f) \in Rules(Owner(f).zone, Archetype(f))
      BY <1>1, <1>3, OwnerIs
    <3>2. Rule(f) \in estate.rules
      BY <3>1 DEF Rules
    <3>3. Rule(f).min \in 1..Rule(f).max
      BY <2>0, <3>2, EstateFacts DEF RuleInput
    <3>4. floors[f] \in Rule(f).min..Rule(f).max
      BY <1>3
    <3> QED BY <3>1, <3>3, <3>4
  <2>7. SummaryAccepted(AreaSummary(floors))
    <3> DEFINE g == [f \in Footprints |-> estate.area[f] * floors[f]]
               a == SumFunctionOnSet(estate.area, Footprints)
               b == SumFunctionOnSet(g, Footprints)
    <3>1. Over(estate.area, Footprints) = a /\ Over(g, Footprints) = b
      BY OverIs
    <3>2. \A f \in Footprints : estate.area[f] \in Nat
      BY <2>0, <2>5 DEF CaseNumbers
    <3>3. \A f \in Footprints : g[f] \in Nat /\ estate.area[f] <= g[f]
      <4>1. SUFFICES ASSUME NEW f \in Footprints PROVE g[f] \in Nat /\ estate.area[f] <= g[f]
        OBVIOUS
      <4>2. g[f] = estate.area[f] * floors[f]
        OBVIOUS
      <4>3. floors[f] \in Nat /\ 1 <= floors[f] /\ estate.area[f] \in Nat
        BY <2>6, <3>2
      <4> DEFINE n == floors[f]
                 m == estate.area[f]
      <4> HIDE DEF n, m, g
      <4>4. 1 * m <= n * m /\ n * m \in Nat
        <5>1. n \in Nat /\ m \in Nat /\ 1 \in Nat /\ 1 <= n
          BY <4>3 DEF n, m
        <5>2. 1 * m <= n * m
          BY <5>1, ProductGrows
        <5> QED BY <5>1, <5>2
      <4>5. 1 * m = m /\ n * m = m * n
        BY <4>3 DEF n, m
      <4> QED BY <4>2, <4>4, <4>5 DEF n, m
    <3> HIDE DEF g
    <3>4. a <= b
      <4>1. \A f \in Footprints : estate.area[f] \in Int /\ g[f] \in Int /\ estate.area[f] <= g[f]
        BY <3>2, <3>3
      <4> QED BY <2>5, <4>1, SumLeq
    <3>5. a \in Nat
      BY <2>5, <3>2, SumIsNat
    <3>6. b \in Nat
      BY <2>5, <3>3, SumIsNat
    <3>7. estate.priorFootprint \in Nat /\ estate.priorGfa \in Nat
      BY <2>0, EstateFacts
    <3>8. AreaSummary(floors) = [site |-> SiteArea, footprint |-> estate.priorFootprint + a,
                                 gfa |-> estate.priorGfa + b]
      BY <3>1 DEF AreaSummary, g
    <3>9. estate.priorFootprint + a <= SiteArea
      BY <1>3, <3>1
    <3> HIDE DEF a, b
    <3>10. estate.priorGfa + b >= (estate.priorFootprint + a) - estate.priorFootprint
      BY <3>4, <3>5, <3>6, <3>7
    <3> QED BY <3>8, <3>9, <3>10 DEF SummaryAccepted
  <2>8. DOMAIN Assigned(floors) = Footprints /\ AttributesAccepted(Assigned(floors))
    <3>1. DOMAIN Assigned(floors) = Footprints
      BY DEF Assigned
    <3>2. ASSUME NEW f \in Footprints
          PROVE \E r \in Rules(Assigned(floors)[f].zone, Assigned(floors)[f].name) :
                  Assigned(floors)[f].floors \in r.min..r.max
      <4>1. Assigned(floors)[f] = [zone |-> Owner(f).zone, name |-> Archetype(f), floors |-> floors[f]]
        BY DEF Assigned
      <4> QED BY <2>6, <4>1
    <3> QED BY <3>1, <3>2 DEF AttributesAccepted
  <2>9. \A f \in Footprints : \E r \in BlockRefs :
          r.block = Ownership[f].block /\ r.zone = Ownership[f].zone
    <3>1. SUFFICES ASSUME NEW f \in Footprints
                   PROVE \E r \in BlockRefs : r.block = Ownership[f].block /\ r.zone = Ownership[f].zone
      OBVIOUS
    <3>2. Ownership[f].block = Owner(f).block /\ Ownership[f].zone = Owner(f).zone
      BY DEF Ownership
    <3> DEFINE b == Owner(f).block
               ref == [block |-> b, zone |-> estate.zone[b], area |-> estate.plot[b].size]
    <3>3. b \in DOMAIN estate.parcels /\ estate.zone[b] # 0
      BY <2>6
    <3> HIDE DEF b
    <3>4. ref \in BlockRefs /\ ref.block = b /\ ref.zone = estate.zone[b]
      BY <3>3 DEF BlockRefs
    <3>5. Ownership[f].block = b /\ Ownership[f].zone = estate.zone[b]
      BY <2>6, <3>2 DEF b
    <3> HIDE DEF ref
    <3> QED BY <3>4, <3>5
  <2>10. LedgerInv'
    <3>1. Footprints' = Footprints
      BY <1>1 DEF Footprints
    <3>2. SummaryAccepted(ledger.areas)'
      BY <1>1, <1>3, <2>7 DEF SummaryAccepted
    <3>3. AttributesAccepted(ledger.attributes)' /\ DOMAIN ledger'.attributes = Footprints
      <4>1. \A z, n : Rules(z, n)' = Rules(z, n)
        BY <1>1 DEF Rules
      <4>2. ledger'.attributes = Assigned(floors)
        BY <1>3
      <4> QED BY <2>8, <4>1, <4>2 DEF AttributesAccepted
    <3>4. \A f \in Footprints : \E r \in ledger'.blocks :
            r.block = ledger'.owners[f].block /\ r.zone = ledger'.owners[f].zone
      <4>1. ledger'.blocks = BlockRefs /\ ledger'.owners = Ownership
        BY <1>3
      <4> QED BY <2>9, <4>1
    <3>5. building' = "info" => \A k \in DOMAIN opened' : opened'[k].placement.status = "CONVERGED"
      BY <1>1, <2>4
    <3> QED BY <2>2, <3>1, <3>2, <3>3, <3>4, <3>5 DEF LedgerInv
  <2> QED BY <2>1, <2>2, <2>3, <2>10 DEF BuildingInv
<1>4. \/ building' = "error" /\ UNCHANGED ledger
      \/ /\ sites # << >> /\ ~(estate.priorFootprint + Over(estate.area, Footprints) > SiteArea)
         /\ building' = IF \A k \in 1..Turn : opened[k].envelope.status = "READY" /\ TargetsMet(k, Mine(k))
                        THEN "info" ELSE "warning"
         /\ \E floors \in [Footprints -> UNION {r.min..r.max : r \in estate.rules}] :
              /\ \A f \in Footprints : floors[f] \in Rule(f).min..Rule(f).max
              /\ ledger' = [owners |-> Ownership, blocks |-> BlockRefs,
                            attributes |-> Assigned(floors), areas |-> AreaSummary(floors)]
  BY Zenon DEF Finish
<1>5. ~(estate.priorFootprint + Over(estate.area, Footprints) > SiteArea) =>
        estate.priorFootprint + Over(estate.area, Footprints) <= SiteArea
  <2> DEFINE a == SumFunctionOnSet(estate.area, Footprints)
             v == [k \in DOMAIN sites |-> sites[k].plot.size]
  <2>1. SitesInv /\ TurnInv /\ AccountInv /\ estate \in BuildingCases /\ CaseNumbers(estate)
    BY SitesAre DEF BuildingInv
  <2>2. IsFiniteSet(Footprints) /\ \A f \in Footprints : estate.area[f] \in Nat
    BY <2>1, FootprintsWithinSites DEF CaseNumbers
  <2>3. a \in Nat /\ Over(estate.area, Footprints) = a
    BY <2>2, SumIsNat, OverIs
  <2>4. SiteArea \in Nat
    <3>1. DOMAIN sites = 1..Len(sites) /\ Len(sites) \in Nat
      BY <2>1, SitesAre
    <3>2. IsFiniteSet(DOMAIN sites) /\ \A k \in DOMAIN sites : v[k] \in Nat
      BY <2>1, <3>1, UpToFinite, BuiltWithinSite
    <3>3. SiteArea = SumFunctionOnSet(v, DOMAIN sites)
      BY OverIs DEF SiteArea
    <3> HIDE DEF v
    <3> QED BY <3>2, <3>3, SumIsNat
  <2>5. estate.priorFootprint \in Nat
    BY <2>1, EstateFacts
  <2> HIDE DEF a
  <2> QED BY <2>3, <2>4, <2>5
<1> QED BY <1>2, <1>3, <1>4, <1>5

LEMMA BuildingStutters == ASSUME BuildingInv, UNCHANGED buildingVars PROVE BuildingInv'
<1>1. SitesInv'
  BY SitesKept DEF BuildingInv, buildingVars
<1>2. TurnInv' /\ AccountInv'
  BY DEF BuildingInv, TurnInv, AccountInv, buildingVars
<1>3. PlaceInv'
  BY DEF BuildingInv, PlaceInv, IndexInv, Chunked, buildingVars
<1>4. LedgerInv'
  <2>1. \A z, n : Rules(z, n)' = Rules(z, n)
    BY DEF Rules, buildingVars
  <2> QED BY <2>1 DEF BuildingInv, LedgerInv, SummaryAccepted, AttributesAccepted, Footprints, buildingVars
<1> QED BY <1>1, <1>2, <1>3, <1>4 DEF BuildingInv, buildingVars

LEMMA BuildingStep == ASSUME BuildingInv, [BuildingNext]_buildingVars PROVE BuildingInv'
BY PrepareKeeps, OpenSourceKeeps, PlaceKeeps, ExhaustedKeeps, BuildingFinishes, BuildingStutters
   DEF BuildingNext

\* The buildings of every district keep their distance, stay within the window of their
\* zone and within the site, every result and count says what was done, and the areas,
\* floors and owners that are reported agree with what was placed.
THEOREM BuildingsKeepTheirRules == BuildingSpec => []BuildingsFit
<1>1. BuildingSpec => []BuildingInv
  BY BuildingStarts, BuildingStep, PTL DEF BuildingSpec
<1> QED BY <1>1, BuildingsFitFrom, PTL
-----------------------------------------------------------------------------
(* Accessibility: the metric of the network. *)

NetNodes == DOMAIN net.at

LEMMA NetIs ==
  ASSUME net \in AccessCases
  PROVE /\ Len(net.at) \in Nat /\ NetNodes = 1..Len(net.at) /\ IsFiniteSet(NetNodes)
        /\ \A n \in NetNodes : net.at[n] \in Int
        /\ IsFiniteSet(Range(net.roads))
        /\ \A r \in Range(net.roads) :
             r.length \in Nat \ {0} /\ \E m, n \in NetNodes : r.ends = {m, n}
        /\ net.reach \in Nat
<1> DEFINE RoadEnds == {{m, n} : m, n \in NetNodes}
           Road == [ends : RoadEnds, length : Nat \ {0}]
<1>1. AccessInput(net)
  BY AccessAssumption
<1>2. net.at \in Seq(Int) /\ net.reach \in Nat /\ net.roads \in Seq(Road)
  BY <1>1 DEF AccessInput, GraphInput, NetNodes
<1>3. Len(net.at) \in Nat /\ NetNodes = 1..Len(net.at) /\ \A n \in NetNodes : net.at[n] \in Int
  BY <1>2 DEF NetNodes
<1>4. IsFiniteSet(NetNodes)
  BY <1>3, FS_Interval
<1>5. Len(net.roads) \in Nat /\ DOMAIN net.roads = 1..Len(net.roads) /\ Range(net.roads) \subseteq Road
  <2> HIDE DEF Road
  <2> QED BY <1>2 DEF Range
<1>6. IsFiniteSet(Range(net.roads))
  <2>1. IsFiniteSet(DOMAIN net.roads)
    BY <1>5, FS_Interval
  <2> QED BY <2>1, ImageFinite DEF Range
<1>7. ASSUME NEW r \in Range(net.roads)
      PROVE r.length \in Nat \ {0} /\ \E m, n \in NetNodes : r.ends = {m, n}
  <2>1. r \in Road
    <3> HIDE DEF Road
    <3> QED BY <1>5
  <2>2. r.ends \in RoadEnds /\ r.length \in Nat \ {0}
    <3> HIDE DEF RoadEnds
    <3> QED BY <2>1
  <2> QED BY <2>2
<1> HIDE DEF RoadEnds, Road
<1> QED BY <1>2, <1>3, <1>4, <1>6, <1>7

\* What is known of two nodes with a road between them.
RoadBetween(m, n) ==
  /\ m \in NetNodes /\ n \in NetNodes /\ m # n
  /\ m \in Adjacent(n) /\ n \in Adjacent(m)
  /\ Weight(m, n) \in Nat \ {0} /\ Weight(n, m) = Weight(m, n)
  /\ \E r \in Range(net.roads) : r.ends = {m, n} /\ r.length = Weight(m, n)

LEMMA RoadsAre ==
  ASSUME net \in AccessCases
  PROVE \A n \in NetNodes : \A m \in Adjacent(n) : RoadBetween(m, n)
<1> SUFFICES ASSUME NEW n \in NetNodes, NEW m \in Adjacent(n) PROVE RoadBetween(m, n)
  OBVIOUS
<1> DEFINE twins == {r \in Range(net.roads) : r.ends = {m, n}}
           back == {r \in Range(net.roads) : r.ends = {n, m}}
           lengths == {r.length : r \in twins}
<1>1. m \in NetNodes /\ m # n /\ \E r \in Range(net.roads) : r.ends = {m, n}
  BY DEF Adjacent, NetNodes
<1>2. n \in Adjacent(m)
  <2>1. {m, n} = {n, m}
    OBVIOUS
  <2> QED BY <1>1, <2>1 DEF Adjacent, NetNodes
<1>3. twins = back
  <2>1. {m, n} = {n, m}
    OBVIOUS
  <2> QED BY <2>1
<1>4. Weight(m, n) = Min(lengths) /\ Weight(n, m) = Min({r.length : r \in back})
  BY DEF Weight
<1>5. IsFiniteSet(lengths) /\ lengths # {} /\ lengths \subseteq Nat \ {0}
  <2>1. IsFiniteSet(twins)
    <3>1. IsFiniteSet(Range(net.roads))
      BY NetIs
    <3>2. twins \in SUBSET Range(net.roads)
      OBVIOUS
    <3> QED BY <3>1, <3>2, FS_Subset
  <2>2. IsFiniteSet(lengths)
    <3> DEFINE f == [r \in twins |-> r.length]
    <3>1. {f[r] : r \in twins} = lengths
      OBVIOUS
    <3>2. IsFiniteSet({f[r] : r \in twins})
      <4> HIDE DEF f, twins
      <4> QED BY <2>1, ImageFinite
    <3> QED BY <3>1, <3>2
  <2>3. \A r \in Range(net.roads) : r.length \in Nat \ {0}
    BY NetIs
  <2> QED BY <1>1, <2>2, <2>3
<1>6. Min(lengths) \in lengths
  <2>1. lengths \subseteq Int
    BY <1>5
  <2> HIDE DEF lengths
  <2> QED BY <1>5, <2>1, MinOf
<1>7. \E r \in Range(net.roads) : r.ends = {m, n} /\ r.length = Weight(m, n)
  BY <1>4, <1>6
<1> QED BY <1>1, <1>2, <1>3, <1>4, <1>5, <1>6, <1>7 DEF RoadBetween

\* The ways without a node between, and with node k besides those allowed in w.
DirectWays ==
  [p \in NetNodes |-> [q \in NetNodes |->
     IF p = q THEN 0 ELSE IF q \in Adjacent(p) THEN Weight(p, q) ELSE Far]]
Through(w, k) == [p \in NetNodes |-> [q \in NetNodes |-> Min({w[p][q], w[p][k] + w[k][q]})]]

IsVia(u, n) ==
  /\ u = [k \in 0..n |-> u[k]] /\ u[0] = DirectWays
  /\ \A k \in 1..n : u[k] = Through(u[k - 1], k)

LEMMA ViaExists == ASSUME NEW n \in Nat PROVE \E u : IsVia(u, n)
<1> DEFINE Good == {k \in Nat : \E u : IsVia(u, k)}
<1>1. 0 \in Good
  <2> DEFINE u == [k \in 0..0 |-> DirectWays]
  <2>1. IsVia(u, 0)
    BY DEF IsVia
  <2> HIDE DEF u
  <2> QED BY <2>1
<1>2. ASSUME NEW m \in Nat, m \in Good PROVE m + 1 \in Good
  <2>1. PICK u : IsVia(u, m)
    BY <1>2
  <2> DEFINE h == [k \in 0..(m + 1) |-> IF k <= m THEN u[k] ELSE Through(u[m], m + 1)]
  <2>2. h[0] = DirectWays /\ h = [k \in 0..(m + 1) |-> h[k]]
    BY <2>1 DEF IsVia
  <2>3. \A k \in 0..m : h[k] = u[k]
    OBVIOUS
  <2>4. h[m + 1] = Through(u[m], m + 1)
    OBVIOUS
  <2> HIDE DEF h
  <2>5. ASSUME NEW k \in 1..(m + 1) PROVE h[k] = Through(h[k - 1], k)
    <3>1. k - 1 \in 0..m /\ h[k - 1] = u[k - 1]
      BY <2>3
    <3>2. CASE k = m + 1
      BY <2>4, <3>1, <3>2
    <3>3. CASE k # m + 1
      <4>1. k \in 1..m /\ k \in 0..m
        BY <3>3
      <4> QED BY <2>1, <2>3, <3>1, <4>1 DEF IsVia
    <3> QED BY <3>2, <3>3
  <2>6. IsVia(h, m + 1)
    BY <2>2, <2>5 DEF IsVia
  <2> QED BY <2>6
<1>3. Nat \subseteq Good
  <2> HIDE DEF Good
  <2> QED BY <1>1, <1>2, NatInductionOnSet
<1> QED BY <1>3

ViaBody(u, k) == IF k = 0 THEN DirectWays ELSE Through(u[k - 1], k)
Via(n) == CHOOSE u : u = [k \in 0..n |-> ViaBody(u, k)]

LEMMA MetricIsVia == Metric = Via(Len(net.at))[Len(net.at)]
BY Zenon DEF Metric, Via, ViaBody, DirectWays, Through, NetNodes

\* The recursive function of the model is the one that grows node by node.
LEMMA ViaIs == ASSUME NEW n \in Nat PROVE IsVia(Via(n), n)
<1> DEFINE r == Via(n)
<1>1. PICK h : IsVia(h, n)
  BY ViaExists
<1>2. \A k \in 0..n : h[k] = ViaBody(h, k)
  <2>1. \A k \in 0..n : k = 0 \/ k \in 1..n
    OBVIOUS
  <2> QED BY <1>1, <2>1 DEF IsVia, ViaBody
<1>3. h = [k \in 0..n |-> ViaBody(h, k)]
  BY <1>1, <1>2 DEF IsVia
<1>4. r = [k \in 0..n |-> ViaBody(r, k)]
  BY <1>3 DEF Via
<1> HIDE DEF r
<1>5. \A k \in 0..n : r[k] = ViaBody(r, k)
  BY <1>4
<1>6. r = [k \in 0..n |-> r[k]]
  BY <1>4, <1>5
<1>7. r[0] = DirectWays
  BY <1>5 DEF ViaBody
<1>8. \A k \in 1..n : r[k] = Through(r[k - 1], k)
  BY <1>5 DEF ViaBody
<1>9. IsVia(r, n)
  BY <1>6, <1>7, <1>8 DEF IsVia
<1> QED BY <1>9 DEF r

\* What the ways over the nodes up to k have in common with a metric.
MetricTo(w, k) ==
  /\ w \in [NetNodes -> [NetNodes -> Nat]]
  /\ \A p \in NetNodes : w[p][p] = 0
  /\ \A p, q \in NetNodes : w[p][q] <= DirectWays[p][q]
  /\ \A p, q \in NetNodes : \A r \in 1..k : w[p][q] <= w[p][r] + w[r][q]
\* No way is shorter than the rise of a function along it, by a unit of c for each of length.
Rises(D, c, w) == \A p, q \in NetNodes : D[q] - D[p] <= c * w[p][q]

LEMMA DirectIs ==
  ASSUME net \in AccessCases
  PROVE /\ DirectWays \in [NetNodes -> [NetNodes -> Nat]]
        /\ \A p \in NetNodes : DirectWays[p][p] = 0
        /\ \A p, q \in NetNodes : DirectWays[p][q] =
             IF p = q THEN 0 ELSE IF q \in Adjacent(p) THEN Weight(p, q) ELSE Far
<1>1. Far \in Nat
  BY NetIs DEF Far
<1>2. ASSUME NEW p \in NetNodes, NEW q \in NetNodes PROVE q \in Adjacent(p) => Weight(p, q) \in Nat
  BY RoadsAre DEF RoadBetween
<1> QED BY <1>1, <1>2 DEF DirectWays

LEMMA ThroughIs ==
  ASSUME NEW w \in [NetNodes -> [NetNodes -> Nat]], NEW k \in NetNodes
  PROVE /\ Through(w, k) \in [NetNodes -> [NetNodes -> Nat]]
        /\ \A p, q \in NetNodes :
             Through(w, k)[p][q] = IF w[p][q] <= w[p][k] + w[k][q] THEN w[p][q] ELSE w[p][k] + w[k][q]
<1>1. \A p, q \in NetNodes : w[p][q] \in Nat
  OBVIOUS
<1>2. ASSUME NEW p \in NetNodes, NEW q \in NetNodes
      PROVE Min({w[p][q], w[p][k] + w[k][q]}) = IF w[p][q] <= w[p][k] + w[k][q] THEN w[p][q] ELSE w[p][k] + w[k][q]
  <2>1. w[p][q] \in Nat /\ w[p][k] + w[k][q] \in Nat
    BY <1>1
  <2> QED BY <2>1, LesserOf
<1>3. \A p, q \in NetNodes : Min({w[p][q], w[p][k] + w[k][q]}) \in Nat
  BY <1>1, <1>2
<1> QED BY <1>2, <1>3 DEF Through

LEMMA MetricGrows ==
  ASSUME net \in AccessCases, NEW k \in NetNodes, NEW w, MetricTo(w, k - 1)
  PROVE MetricTo(Through(w, k), k)
<1> DEFINE v == Through(w, k)
           Nd == NetNodes
<1>1. /\ w \in [NetNodes -> [NetNodes -> Nat]] /\ v \in [NetNodes -> [NetNodes -> Nat]] /\ k \in Nat \ {0} /\ 1..k \subseteq Nd
      /\ \A p, q \in Nd : w[p][q] \in Nat /\ v[p][q] \in Nat
      /\ \A p, q \in Nd : v[p][q] = IF w[p][q] <= w[p][k] + w[k][q] THEN w[p][q] ELSE w[p][k] + w[k][q]
  <2>2. w \in [NetNodes -> [NetNodes -> Nat]]
    BY DEF MetricTo
  <2>3. k \in Nat \ {0} /\ 1..k \subseteq Nd
    BY NetIs
  <2> QED BY <2>2, <2>3, ThroughIs
<1>2. /\ \A p \in Nd : w[p][p] = 0
      /\ \A p, q \in Nd : w[p][q] <= DirectWays[p][q]
      /\ \A p, q \in Nd : \A r \in 1..(k - 1) : w[p][q] <= w[p][r] + w[r][q]
  BY DEF MetricTo
<1>3. \A p, q \in Nd : DirectWays[p][q] \in Nat
  BY DirectIs
<1> HIDE DEF v, Nd
<1>4. \A p \in Nd : v[p][p] = 0
  BY <1>1, <1>2
<1>5. \A p, q \in Nd : v[p][q] <= DirectWays[p][q]
  BY <1>1, <1>2, <1>3
<1>6. ASSUME NEW p \in Nd, NEW q \in Nd, NEW r \in 1..k PROVE v[p][q] <= v[p][r] + v[r][q]
  <2>1. k \in Nd /\ r \in Nd /\ w[k][k] = 0
    BY <1>1, <1>2 DEF Nd
  <2>2. /\ w[p][q] \in Nat /\ w[p][k] \in Nat /\ w[k][q] \in Nat /\ w[p][r] \in Nat /\ w[r][q] \in Nat
        /\ w[r][k] \in Nat /\ w[k][r] \in Nat
    BY <1>1, <2>1
  <2>3. /\ v[p][q] = IF w[p][q] <= w[p][k] + w[k][q] THEN w[p][q] ELSE w[p][k] + w[k][q]
        /\ v[p][r] = IF w[p][r] <= w[p][k] + w[k][r] THEN w[p][r] ELSE w[p][k] + w[k][r]
        /\ v[r][q] = IF w[r][q] <= w[r][k] + w[k][q] THEN w[r][q] ELSE w[r][k] + w[k][q]
    BY <1>1, <2>1
  <2>4. CASE r = k
    BY <2>1, <2>2, <2>3, <2>4
  <2>5. CASE r # k
    <3>1. r \in 1..(k - 1)
      BY <1>1, <2>5
    <3>2. w[p][q] <= w[p][r] + w[r][q] /\ w[p][k] <= w[p][r] + w[r][k] /\ w[k][q] <= w[k][r] + w[r][q]
      BY <1>2, <2>1, <3>1
    <3> QED BY <2>2, <2>3, <3>2
  <2> QED BY <2>4, <2>5
<1> QED BY <1>1, <1>4, <1>5, <1>6 DEF MetricTo, Nd, v

LEMMA RisesStill ==
  ASSUME NEW k \in NetNodes, NEW w \in [NetNodes -> [NetNodes -> Nat]], NEW D \in [NetNodes -> Int],
         NEW c \in Nat, Rises(D, c, w)
  PROVE Rises(D, c, Through(w, k))
<1> SUFFICES ASSUME NEW p \in NetNodes, NEW q \in NetNodes
             PROVE D[q] - D[p] <= c * Through(w, k)[p][q]
  BY DEF Rises
<1> DEFINE a == w[p][k]
           b == w[k][q]
<1>1. D[q] - D[p] <= c * w[p][q] /\ D[k] - D[p] <= c * a /\ D[q] - D[k] <= c * b
  BY DEF Rises
<1>2. a \in Nat /\ b \in Nat /\ w[p][q] \in Nat
  OBVIOUS
<1>3. Through(w, k)[p][q] = w[p][q] \/ Through(w, k)[p][q] = a + b
  BY ThroughIs
<1>4. c * (a + b) = c * a + c * b /\ c * a \in Int /\ c * b \in Int
  BY <1>2
<1>5. D[p] \in Int /\ D[q] \in Int /\ D[k] \in Int
  OBVIOUS
<1> HIDE DEF a, b
<1> QED BY <1>1, <1>3, <1>4, <1>5

\* The metric of the whole network is one, and the greatest that no road exceeds.
LEMMA MetricIs ==
  ASSUME net \in AccessCases
  PROVE /\ MetricTo(Metric, Len(net.at))
        /\ \A D \in [NetNodes -> Int] : \A c \in Nat : Rises(D, c, DirectWays) => Rises(D, c, Metric)
<1> DEFINE n == Len(net.at)
           u == Via(n)
           Suits(w) == \A D \in [NetNodes -> Int] : \A c \in Nat :
                        Rises(D, c, DirectWays) => Rises(D, c, w)
           Good == {k \in Nat : k <= n => MetricTo(u[k], k) /\ Suits(u[k])}
<1>1. n \in Nat /\ NetNodes = 1..n /\ IsVia(u, n)
  BY NetIs, ViaIs
<1>2. 0 \in Good
  <2>1. u[0] = DirectWays
    BY <1>1 DEF IsVia
  <2>2. MetricTo(DirectWays, 0)
    <3>1. \A p, q \in NetNodes : DirectWays[p][q] \in Nat
      BY DirectIs
    <3> QED BY <3>1, DirectIs DEF MetricTo
  <2> QED BY <2>1, <2>2
<1>3. ASSUME NEW k \in Nat, k \in Good PROVE k + 1 \in Good
  <2> SUFFICES ASSUME k + 1 <= n PROVE MetricTo(u[k + 1], k + 1) /\ Suits(u[k + 1])
    OBVIOUS
  <2>1. k + 1 \in NetNodes /\ (k + 1) - 1 = k /\ k <= n
    BY <1>1
  <2>2. u[k + 1] = Through(u[k], k + 1)
    BY <1>1, <2>1 DEF IsVia
  <2>3. MetricTo(u[k], k) /\ Suits(u[k])
    BY <1>3, <2>1
  <2> HIDE DEF u, n
  <2>4. MetricTo(u[k + 1], k + 1)
    BY <2>1, <2>2, <2>3, MetricGrows
  <2>5. u[k] \in [NetNodes -> [NetNodes -> Nat]]
    BY <2>3 DEF MetricTo
  <2>6. Suits(u[k + 1])
    BY <2>1, <2>2, <2>3, <2>5, RisesStill
  <2> QED BY <2>4, <2>6
<1>4. n \in Good
  <2> HIDE DEF Good, n
  <2> QED BY <1>1, <1>2, <1>3, NatInductionOnSet
<1> QED BY <1>1, <1>4, MetricIsVia

-----------------------------------------------------------------------------
(* Accessibility: the order of the heap. *)

HeapEntries == Int \X Int \X Int \X Int \X Int
Triples == Int \X Int \X Int

LEMMA EntryOrder ==
  ASSUME NEW a \in HeapEntries, NEW b \in HeapEntries
  PROVE Precedes(a, b) <=>
          \/ a[1] < b[1]
          \/ a[1] = b[1] /\ a[2] < b[2]
          \/ a[1] = b[1] /\ a[2] = b[2] /\ a[3] < b[3]
          \/ a[1] = b[1] /\ a[2] = b[2] /\ a[3] = b[3] /\ a[4] < b[4]
          \/ a[1] = b[1] /\ a[2] = b[2] /\ a[3] = b[3] /\ a[4] = b[4] /\ a[5] < b[5]
<1>1. DOMAIN a = 1..5
  BY DEF HeapEntries
<1>2. /\ 1 - 1 = 0 /\ 2 - 1 = 1 /\ 3 - 1 = 2 /\ 4 - 1 = 3 /\ 5 - 1 = 4
      /\ 1..0 = {} /\ 1..1 = {1} /\ 1..2 = {1, 2} /\ 1..3 = {1, 2, 3} /\ 1..4 = {1, 2, 3, 4}
      /\ 1..5 = {1, 2, 3, 4, 5}
  OBVIOUS
<1> DEFINE Same(i) == \A j \in 1..(i - 1) : a[j] = b[j]
<1>3. /\ Same(1) /\ (Same(2) <=> a[1] = b[1])
      /\ (Same(3) <=> a[1] = b[1] /\ a[2] = b[2])
      /\ (Same(4) <=> a[1] = b[1] /\ a[2] = b[2] /\ a[3] = b[3])
      /\ (Same(5) <=> a[1] = b[1] /\ a[2] = b[2] /\ a[3] = b[3] /\ a[4] = b[4])
  BY <1>2
<1>4. Precedes(a, b) <=> \E i \in {1, 2, 3, 4, 5} : a[i] < b[i] /\ Same(i)
  BY <1>1, <1>2 DEF Precedes
<1> HIDE DEF Same
<1> QED BY <1>3, <1>4

LEMMA TripleOrder ==
  ASSUME NEW a \in Triples, NEW b \in Triples
  PROVE Precedes(a, b) <=>
          \/ a[1] < b[1]
          \/ a[1] = b[1] /\ a[2] < b[2]
          \/ a[1] = b[1] /\ a[2] = b[2] /\ a[3] < b[3]
<1>1. DOMAIN a = 1..3
  BY DEF Triples
<1>2. 1..3 = {1, 2, 3} /\ 1..(1 - 1) = {} /\ 1..(2 - 1) = {1} /\ 1..(3 - 1) = {1, 2}
  OBVIOUS
<1>3. Precedes(a, b) <=> \E i \in {1, 2, 3} : a[i] < b[i] /\ \A j \in 1..(i - 1) : a[j] = b[j]
  BY <1>1, <1>2 DEF Precedes
<1> QED BY <1>2, <1>3

LEMMA LowestBy ==
  ASSUME NEW S, IsFiniteSet(S), S # {}, NEW f, \A x \in S : f[x] \in Int
  PROVE \E m \in S : \A x \in S : f[m] <= f[x]
<1> DEFINE g == [x \in S |-> -f[x]]
<1>1. \A x \in S : g[x] \in Int /\ g[x] = -f[x]
  OBVIOUS
<1> HIDE DEF g
<1>2. PICK m \in S : \A x \in S : g[x] <= g[m]
  BY <1>1, HighestOf
<1>3. \A x \in S : f[m] <= f[x]
  BY <1>1, <1>2
<1> QED BY <1>3

\* T: those of S that are least in component i.
LeastOf(T, S, i) ==
  /\ T \in SUBSET S /\ IsFiniteSet(T) /\ T # {} /\ T \subseteq HeapEntries
  /\ \A x \in T, y \in S \ T : x[i] < y[i]
  /\ \A x, y \in T : x[i] = y[i]

LEMMA LeastIn ==
  ASSUME NEW S, IsFiniteSet(S), S # {}, S \subseteq HeapEntries, NEW i \in {1, 2, 3, 4, 5}
  PROVE \E T : LeastOf(T, S, i)
<1>1. \A x \in S : x[i] \in Int
  <2> SUFFICES ASSUME NEW x \in HeapEntries PROVE x[i] \in Int
    OBVIOUS
  <2> QED BY DEF HeapEntries
<1> DEFINE f == [x \in S |-> x[i]]
<1>2. \A x \in S : f[x] \in Int /\ f[x] = x[i]
  BY <1>1
<1>3. PICK m \in S : \A x \in S : f[m] <= f[x]
  <2> HIDE DEF f
  <2> QED BY <1>2, LowestBy
<1> HIDE DEF f
<1> DEFINE T == {x \in S : x[i] = m[i]}
<1>4. T \in SUBSET S /\ m \in T /\ IsFiniteSet(T)
  BY FS_Subset
<1>5. \A y \in S : m[i] <= y[i]
  BY <1>2, <1>3
<1>6. \A y \in S \ T : m[i] < y[i]
  BY <1>1, <1>5
<1>7. \A x \in T : x[i] = m[i]
  OBVIOUS
<1>8. T \subseteq HeapEntries
  OBVIOUS
<1> HIDE DEF T
<1>9. LeastOf(T, S, i)
  BY <1>4, <1>6, <1>7, <1>8 DEF LeastOf
<1> QED BY <1>9

LEMMA LeastEntry ==
  ASSUME NEW S, IsFiniteSet(S), S # {}, S \subseteq HeapEntries
  PROVE \E e \in S : \A x \in S \ {e} : Precedes(e, x)
<1>1. PICK A : LeastOf(A, S, 1)
  BY LeastIn
<1>2. PICK B : LeastOf(B, A, 2)
  BY <1>1, LeastIn DEF LeastOf
<1>3. PICK C : LeastOf(C, B, 3)
  BY <1>2, LeastIn DEF LeastOf
<1>4. PICK D : LeastOf(D, C, 4)
  BY <1>3, LeastIn DEF LeastOf
<1>5. PICK E : LeastOf(E, D, 5)
  BY <1>4, LeastIn DEF LeastOf
<1>6. PICK e \in E : TRUE
  BY <1>5 DEF LeastOf
<1>7. e \in A /\ e \in B /\ e \in C /\ e \in D /\ e \in S /\ e \in HeapEntries
  BY <1>1, <1>2, <1>3, <1>4, <1>5 DEF LeastOf
<1>8. ASSUME NEW x \in S \ {e} PROVE Precedes(e, x)
  <2>1. x \in HeapEntries
    OBVIOUS
  <2>2. CASE x \notin A
    BY <1>1, <1>7, <2>1, <2>2, EntryOrder DEF LeastOf
  <2>3. CASE x \in A \ B
    BY <1>1, <1>2, <1>7, <2>1, <2>3, EntryOrder DEF LeastOf
  <2>4. CASE x \in B \ C
    BY <1>1, <1>2, <1>3, <1>7, <2>1, <2>4, EntryOrder DEF LeastOf
  <2>5. CASE x \in C \ D
    BY <1>1, <1>2, <1>3, <1>4, <1>7, <2>1, <2>5, EntryOrder DEF LeastOf
  <2>6. CASE x \in D \ E
    BY <1>1, <1>2, <1>3, <1>4, <1>5, <1>7, <2>1, <2>6, EntryOrder DEF LeastOf
  <2>7. x \notin E
    <3>1. SUFFICES ASSUME x \in E PROVE x = e
      OBVIOUS
    <3>2. x[1] = e[1] /\ x[2] = e[2] /\ x[3] = e[3] /\ x[4] = e[4] /\ x[5] = e[5]
      BY <1>1, <1>2, <1>3, <1>4, <1>5, <1>7, <3>1 DEF LeastOf
    <3> QED BY <2>1, <1>7, <3>2 DEF HeapEntries
  <2> QED BY <2>2, <2>3, <2>4, <2>5, <2>6, <2>7
<1> QED BY <1>7, <1>8

\* What is popped is there, and nothing is before it.
LEMMA PoppedIs ==
  ASSUME IsFiniteSet(frontier), frontier # {}, frontier \subseteq HeapEntries
  PROVE /\ PoppedEntry \in frontier
        /\ \A x \in frontier : x = PoppedEntry \/ Precedes(PoppedEntry, x)
<1>1. \E e \in frontier : \A x \in frontier \ {e} : Precedes(e, x)
  BY LeastEntry
<1>2. PoppedEntry \in frontier /\ \A x \in frontier \ {PoppedEntry} : Precedes(PoppedEntry, x)
  BY <1>1 DEF PoppedEntry
<1> QED BY <1>2

-----------------------------------------------------------------------------
(* Accessibility: the priority of an entry. *)

LEMMA TimesKeeps ==
  ASSUME NEW x \in Nat, NEW y \in Nat, NEW z \in Nat, x <= y PROVE x * z <= y * z
OBVIOUS

LEMMA TimesCancels ==
  ASSUME NEW x \in Nat, NEW y \in Nat, NEW z \in Nat \ {0}, z * x <= z * y PROVE x <= y
OBVIOUS

LEMMA RatiosOrder ==
  ASSUME NEW a \in Nat \ {0}, NEW b \in Nat \ {0}, NEW c \in Nat \ {0}, NEW d \in Nat \ {0},
         NEW e \in Nat \ {0}, NEW f \in Nat \ {0}, a * d <= c * b, c * f <= e * d
  PROVE a * f <= e * b
<1>1. a * d \in Nat /\ c * b \in Nat /\ c * f \in Nat /\ e * d \in Nat /\ a * f \in Nat /\ e * b \in Nat
  OBVIOUS
<1>2. (a * d) * f <= (c * b) * f
  BY <1>1, TimesKeeps
<1>3. (c * f) * b <= (e * d) * b
  BY <1>1, TimesKeeps
<1>4. (a * d) * f = d * (a * f) /\ (c * b) * f = (c * f) * b /\ (e * d) * b = d * (e * b)
  OBVIOUS
<1>5. d * (a * f) <= d * (e * b)
  BY <1>1, <1>2, <1>3, <1>4
<1> QED BY <1>1, <1>5, TimesCancels

LEMMA LeastRatio ==
  ASSUME NEW S, IsFiniteSet(S), S # {}, S \subseteq (Nat \ {0}) \X (Nat \ {0})
  PROVE \E p \in S : \A q \in S : p[1] * q[2] <= q[1] * p[2]
<1> DEFINE Lowest(p, T) == \A q \in T : p[1] * q[2] <= q[1] * p[2]
           Good == {T \in SUBSET S : T # {} => \E p \in T : Lowest(p, T)}
<1>1. ASSUME NEW T \in SUBSET S, \A R \in SUBSET T : R # T => R \in Good PROVE T \in Good
  <2>1. SUFFICES ASSUME T # {} PROVE \E p \in T : Lowest(p, T)
    OBVIOUS
  <2>2. PICK x \in T : TRUE
    BY <2>1
  <2> DEFINE R == T \ {x}
  <2>3. R \in Good
    BY <1>1, <2>2
  <2>4. x[1] \in Nat \ {0} /\ x[2] \in Nat \ {0}
    OBVIOUS
  <2>5. CASE R = {}
    <3>1. \A q \in T : q = x
      BY <2>5
    <3>2. x[1] * x[2] <= x[1] * x[2]
      BY <2>4
    <3>3. Lowest(x, T)
      BY <3>1, <3>2
    <3> QED BY <2>2, <3>3
  <2>6. CASE R # {}
    <3>1. PICK p \in R : Lowest(p, R)
      BY <2>3, <2>6
    <3>2. p[1] \in Nat \ {0} /\ p[2] \in Nat \ {0} /\ p \in T
      OBVIOUS
    <3>3. CASE p[1] * x[2] <= x[1] * p[2]
      <4>1. Lowest(p, T)
        BY <3>1, <3>3
      <4> QED BY <3>2, <4>1
    <3>4. CASE ~(p[1] * x[2] <= x[1] * p[2])
      <4>1. x[1] * p[2] <= p[1] * x[2]
        <5>1. x[1] * p[2] \in Nat /\ p[1] * x[2] \in Nat
          BY <2>4, <3>2
        <5> QED BY <3>4, <5>1
      <4>2. ASSUME NEW q \in R PROVE x[1] * q[2] <= q[1] * x[2]
        <5>1. q[1] \in Nat \ {0} /\ q[2] \in Nat \ {0}
          OBVIOUS
        <5>2. p[1] * q[2] <= q[1] * p[2]
          BY <3>1
        <5> QED BY <2>4, <3>2, <4>1, <5>1, <5>2, RatiosOrder
      <4>3. x[1] * x[2] <= x[1] * x[2]
        BY <2>4
      <4>4. Lowest(x, T)
        <5>1. \A q \in T : q = x \/ q \in R
          OBVIOUS
        <5> QED BY <4>2, <4>3, <5>1
      <4> QED BY <2>2, <4>4
    <3> QED BY <3>3, <3>4
  <2> QED BY <2>5, <2>6
<1>2. SUBSET S \subseteq Good
  <2> HIDE DEF Good
  <2> QED BY <1>1, SubsetInduction
<1> QED BY <1>2

LEMMA GapIs ==
  ASSUME NEW x \in Int, NEW y \in Int, NEW z \in Int
  PROVE /\ Gap(x, y) \in Nat /\ Gap(x, y) = Gap(y, x) /\ Gap(x, x) = 0
        /\ Gap(x, z) <= Gap(x, y) + Gap(y, z)
BY DEF Gap

LEMMA EndsAre ==
  ASSUME net \in AccessCases, NEW m \in NetNodes, NEW n \in NetNodes, NEW r, r.ends = {m, n}
  PROVE Straight(r) = Gap(net.at[m], net.at[n])
<1>1. m \in Nat /\ n \in Nat /\ net.at[m] \in Int /\ net.at[n] \in Int
  BY NetIs
<1>2. Min({m, n}) = IF m <= n THEN m ELSE n
  BY <1>1, LesserOf
<1>3. Max({m, n}) = IF m <= n THEN n ELSE m
  <2>1. IsFiniteSet({m, n}) /\ {m, n} # {} /\ {m, n} \subseteq Int
    <3>1. IsFiniteSet({m, n})
      BY PairFinite
    <3>2. m \in Int /\ n \in Int
      BY <1>1
    <3> QED BY <3>1, <3>2
  <2>2. Max({m, n}) \in {m, n} /\ m <= Max({m, n}) /\ n <= Max({m, n})
    BY <2>1, MaxOf
  <2> HIDE DEF Max
  <2> QED BY <1>1, <2>2
<1>4. Straight(r) = Gap(net.at[Min({m, n})], net.at[Max({m, n})])
  BY DEF Straight
<1>5. Gap(net.at[m], net.at[n]) = Gap(net.at[n], net.at[m])
  BY <1>1, GapIs
<1> QED BY <1>2, <1>3, <1>4, <1>5

LEMMA ScaleIs ==
  ASSUME net \in AccessCases
  PROVE /\ HeuristicScale[1] \in Nat \ {0} /\ HeuristicScale[2] \in Nat \ {0}
        /\ \A r \in Range(net.roads) : HeuristicScale[1] * Straight(r) <= r.length * HeuristicScale[2]
<1> DEFINE long == {x \in Range(net.roads) : Straight(x) > 0}
           marked == {<<r.length, Straight(r)>> : r \in long}
           ratios == {<<1, 1>>} \cup marked
<1>1. ASSUME NEW r \in Range(net.roads) PROVE Straight(r) \in Nat /\ r.length \in Nat \ {0}
  <2>1. PICK m \in NetNodes, n \in NetNodes : r.ends = {m, n}
    BY NetIs
  <2>2. net.at[m] \in Int /\ net.at[n] \in Int /\ r.length \in Nat \ {0}
    BY NetIs
  <2>3. Straight(r) = Gap(net.at[m], net.at[n])
    BY <2>1, EndsAre
  <2>4. Gap(net.at[m], net.at[n]) \in Nat
    BY <2>2, GapIs
  <2> QED BY <2>2, <2>3, <2>4
<1>2. ratios \subseteq (Nat \ {0}) \X (Nat \ {0}) /\ ratios # {}
  <2>1. marked \subseteq (Nat \ {0}) \X (Nat \ {0})
    <3> SUFFICES ASSUME NEW r \in long PROVE <<r.length, Straight(r)>> \in (Nat \ {0}) \X (Nat \ {0})
      OBVIOUS
    <3>1. Straight(r) \in Nat \ {0} /\ r.length \in Nat \ {0}
      BY <1>1
    <3> QED BY <3>1
  <2>2. <<1, 1>> \in (Nat \ {0}) \X (Nat \ {0})
    OBVIOUS
  <2> HIDE DEF marked
  <2> QED BY <2>1, <2>2
<1>3. IsFiniteSet(ratios)
  <2>1. IsFiniteSet(long)
    BY NetIs, FS_Subset
  <2> DEFINE f == [r \in long |-> <<r.length, Straight(r)>>]
  <2>2. {f[r] : r \in long} = marked
    OBVIOUS
  <2>3. IsFiniteSet({f[r] : r \in long})
    <3> HIDE DEF f, long
    <3> QED BY <2>1, ImageFinite
  <2>4. IsFiniteSet(marked) /\ IsFiniteSet({<<1, 1>>})
    BY <2>2, <2>3, FS_Singleton
  <2> HIDE DEF marked
  <2> QED BY <2>4, FS_Union
<1>4. HeuristicScale = CHOOSE p \in ratios : \A q \in ratios : p[1] * q[2] <= q[1] * p[2]
  BY DEF HeuristicScale
<1> HIDE DEF ratios
<1>5. \E p \in ratios : \A q \in ratios : p[1] * q[2] <= q[1] * p[2]
  BY <1>2, <1>3, LeastRatio
<1>6. /\ HeuristicScale \in ratios
      /\ \A q \in ratios : HeuristicScale[1] * q[2] <= q[1] * HeuristicScale[2]
  BY <1>4, <1>5
<1>7. HeuristicScale[1] \in Nat \ {0} /\ HeuristicScale[2] \in Nat \ {0}
  BY <1>2, <1>6
<1>8. ASSUME NEW r \in Range(net.roads)
      PROVE HeuristicScale[1] * Straight(r) <= r.length * HeuristicScale[2]
  <2>1. CASE Straight(r) > 0
    <3>1. <<r.length, Straight(r)>> \in ratios
      BY <2>1 DEF ratios
    <3> DEFINE q == <<r.length, Straight(r)>>
    <3>2. q[1] = r.length /\ q[2] = Straight(r) /\ q \in ratios
      BY <3>1
    <3> HIDE DEF q
    <3> QED BY <1>6, <3>2
  <2>2. CASE Straight(r) = 0
    <3>1. HeuristicScale[1] * 0 = 0 /\ r.length * HeuristicScale[2] \in Nat
      BY <1>1, <1>7
    <3> QED BY <2>2, <3>1
  <2> QED BY <1>1, <2>1, <2>2
<1> QED BY <1>7, <1>8

\* Priority is a multiple of the distance and something for the node.
Stretch(goal) == IF goal = 0 THEN 1 ELSE HeuristicScale[2]
Lift(n, goal) == IF goal = 0 THEN 0 ELSE Heuristic(n, goal)

\* What a search expects of the priorities.
PriorityFits(goal) ==
  /\ Stretch(goal) \in Nat \ {0} /\ (goal = 0 => Stretch(goal) = 1)
  /\ \A n \in NetNodes : /\ Lift(n, goal) \in Nat /\ (goal = 0 => Lift(n, goal) = 0)
                         /\ \A d \in Nat : Priority(n, d, goal) = Stretch(goal) * d + Lift(n, goal)
  /\ \A n \in NetNodes : \A m \in Adjacent(n) :
       Lift(n, goal) <= Lift(m, goal) + Stretch(goal) * Weight(n, m)
  /\ goal # 0 => Lift(goal, goal) = 0

LEMMA PriorityIs ==
  ASSUME net \in AccessCases, NEW goal \in {0} \cup NetNodes PROVE PriorityFits(goal)
<1>1. CASE goal = 0
  <2>1. \A n \in NetNodes : \A m \in Adjacent(n) : Weight(n, m) \in Nat
    BY RoadsAre DEF RoadBetween
  <2>2. \A d \in Nat : 1 * d = d
    OBVIOUS
  <2> QED BY <1>1, <2>1, <2>2 DEF PriorityFits, Stretch, Lift, Priority
<1>2. CASE goal # 0
  <2> DEFINE a == HeuristicScale[1]
             b == HeuristicScale[2]
             G(n) == Gap(net.at[n], net.at[goal])
  <2>1. a \in Nat \ {0} /\ b \in Nat \ {0} /\ Stretch(goal) = b
    BY <1>2, ScaleIs DEF Stretch
  <2>2. goal \in NetNodes /\ \A n \in NetNodes : net.at[n] \in Int
    BY <1>2, NetIs
  <2>3. \A n \in NetNodes : G(n) \in Nat /\ Lift(n, goal) = a * G(n)
    BY <1>2, <2>2, GapIs DEF Lift, Heuristic
  <2>4. \A n \in NetNodes : Lift(n, goal) \in Nat
    BY <2>1, <2>3
  <2>5. Lift(goal, goal) = 0
    <3>1. G(goal) = 0
      BY <2>2, GapIs
    <3> QED BY <2>1, <2>2, <2>3, <3>1
  <2>6. \A n \in NetNodes : \A d \in Nat : Priority(n, d, goal) = b * d + Lift(n, goal)
    BY <1>2 DEF Priority, Lift
  <2>7. ASSUME NEW n \in NetNodes, NEW m \in Adjacent(n)
        PROVE Lift(n, goal) <= Lift(m, goal) + b * Weight(n, m)
    <3>1. RoadBetween(m, n)
      BY RoadsAre
    <3>2. PICK r \in Range(net.roads) : r.ends = {m, n} /\ r.length = Weight(n, m)
      BY <3>1 DEF RoadBetween
    <3>3. m \in NetNodes /\ Weight(n, m) \in Nat
      BY <3>1 DEF RoadBetween
    <3> DEFINE s == Gap(net.at[m], net.at[n])
    <3>4. s \in Nat /\ G(n) <= G(m) + s
      <4>1. Gap(net.at[n], net.at[goal]) <= Gap(net.at[n], net.at[m]) + Gap(net.at[m], net.at[goal])
        BY <2>2, <3>3, GapIs
      <4>2. Gap(net.at[n], net.at[m]) = s /\ s \in Nat
        BY <2>2, <3>3, GapIs
      <4> QED BY <2>3, <3>3, <4>1, <4>2
    <3>5. a * s <= Weight(n, m) * b
      <4>1. a * Straight(r) <= r.length * b
        BY ScaleIs
      <4>2. Straight(r) = s
        BY <3>2, <3>3, EndsAre
      <4> QED BY <3>2, <4>1, <4>2
    <3>6. a * G(n) <= a * G(m) + a * s
      <4>1. G(n) \in Nat /\ G(m) \in Nat
        BY <2>3, <3>3
      <4> HIDE DEF a, G, s
      <4>2. G(n) * a <= (G(m) + s) * a
        BY <2>1, <3>4, <4>1, TimesKeeps
      <4>3. G(n) * a = a * G(n) /\ (G(m) + s) * a = a * G(m) + a * s
        BY <2>1, <3>4, <4>1
      <4> QED BY <4>2, <4>3
    <3>7. a * G(n) \in Int /\ a * G(m) \in Int /\ a * s \in Int /\ b * Weight(n, m) = Weight(n, m) * b
          /\ b * Weight(n, m) \in Int
      BY <2>1, <2>3, <3>3, <3>4
    <3>8. Lift(n, goal) = a * G(n) /\ Lift(m, goal) = a * G(m)
      BY <2>3, <3>3
    <3> HIDE DEF a, b, G, s
    <3> QED BY <3>5, <3>6, <3>7, <3>8
  <2> QED BY <1>2, <2>1, <2>4, <2>5, <2>6, <2>7 DEF PriorityFits
<1> QED BY <1>1, <1>2

-----------------------------------------------------------------------------
(* Accessibility: settled distances are those of the metric. *)

\* D never rises along a road by more than c for each of its length, below c for each of Far.
Climbs(D, c) ==
  \A k \in NetNodes : \A m \in Adjacent(k) :
    D[m] <= D[k] + c * Weight(k, m) \/ c * Far <= D[k] + c * Weight(k, m)

LEMMA WaysAreLonger ==
  ASSUME net \in AccessCases, NEW D \in [NetNodes -> Int], NEW c \in Nat \ {0}, Climbs(D, c),
         NEW x \in NetNodes, D[x] <= 0, NEW k \in NetNodes
  PROVE D[k] <= c * Metric[x][k] \/ c * Far <= c * Metric[x][k]
<1> DEFINE top == c * Far
           E == [n \in NetNodes |-> IF D[n] < 0 THEN 0 ELSE IF D[n] > top THEN top ELSE D[n]]
<1>1. Far \in Nat /\ top \in Nat
  <2>1. Far \in Nat
    BY NetIs DEF Far
  <2> QED BY <2>1
<1>2. \A n \in NetNodes : D[n] \in Int /\ E[n] \in 0..top
                          /\ E[n] = IF D[n] < 0 THEN 0 ELSE IF D[n] > top THEN top ELSE D[n]
  <2> HIDE DEF top
  <2> QED BY <1>1
<1>3. E \in [NetNodes -> Int]
  <2>1. E = [n \in NetNodes |-> E[n]]
    OBVIOUS
  <2> HIDE DEF E
  <2> QED BY <1>2, <2>1
<1> HIDE DEF E
<1>4. Rises(E, c, DirectWays)
  <2> SUFFICES ASSUME NEW p \in NetNodes, NEW q \in NetNodes PROVE E[q] - E[p] <= c * DirectWays[p][q]
    BY DEF Rises
  <2>1. DirectWays[p][q] = IF p = q THEN 0 ELSE IF q \in Adjacent(p) THEN Weight(p, q) ELSE Far
    BY DirectIs
  <2>2. CASE p = q
    <3>1. c * 0 = 0 /\ E[q] - E[p] = 0
      BY <1>2, <2>2
    <3> QED BY <2>1, <2>2, <3>1
  <2>3. CASE p # q /\ q \notin Adjacent(p)
    <3>1. E[q] - E[p] <= top
      <4> HIDE DEF top
      <4> QED BY <1>1, <1>2
    <3> QED BY <2>1, <2>3, <3>1
  <2>4. CASE p # q /\ q \in Adjacent(p)
    <3> DEFINE r == c * Weight(p, q)
    <3>1. r \in Nat
      <4>1. Weight(p, q) \in Nat
        BY <2>4, RoadsAre DEF RoadBetween
      <4> QED BY <4>1
    <3>2. D[q] <= D[p] + r \/ top <= D[p] + r
      BY <2>4 DEF Climbs
    <3>3. E[q] - E[p] <= r
      <4> HIDE DEF r, top
      <4> QED BY <1>1, <1>2, <3>1, <3>2
    <3> QED BY <2>1, <2>4, <3>3
  <2> QED BY <2>2, <2>3, <2>4
<1>5. E[k] - E[x] <= c * Metric[x][k]
  <2>1. Rises(E, c, Metric)
    BY <1>3, <1>4, MetricIs
  <2> QED BY <2>1 DEF Rises
<1>6. c * Metric[x][k] \in Int
  <2>1. Metric[x][k] \in Nat
    BY MetricIs DEF MetricTo
  <2> QED BY <2>1
<1> HIDE DEF top
<1>7. E[x] = 0 /\ (E[k] = top \/ D[k] <= E[k])
  BY <1>1, <1>2
<1>8. D[k] <= c * Metric[x][k] \/ top <= c * Metric[x][k]
  BY <1>1, <1>2, <1>5, <1>6, <1>7
<1> QED BY <1>8 DEF top

\* One place in the order of the heap is not behind another; a guided search looks at the priority only.
NoLater(goal, p, o, r, s) == p < r \/ (p = r /\ (goal = 0 => o <= s))

SettledPriority(k, goal) == Priority(k, settled[k].distance, goal)

\* The settled nodes of search q: ways of the network, none of which a road between them shortens.
SettledFit(q) ==
  /\ DOMAIN settled \subseteq NetNodes /\ q.from \subseteq NetNodes /\ q.goal \in {0} \cup NetNodes
  /\ \A k \in DOMAIN settled :
       /\ settled[k].distance \in 0..net.reach /\ settled[k].origin \in q.from
       /\ Metric[settled[k].origin][k] <= settled[k].distance
  /\ \A s \in q.from \cap DOMAIN settled : settled[s].distance = 0 /\ settled[s].origin = s
  /\ \A k \in DOMAIN settled : \A m \in Adjacent(k) \cap DOMAIN settled :
       NoLater(q.goal, settled[m].distance, settled[m].origin,
               settled[k].distance + Weight(k, m), settled[k].origin)
\* Every node within reach is settled.
AllSettled(q) ==
  /\ q.from \subseteq DOMAIN settled
  /\ \A k \in DOMAIN settled : \A m \in Adjacent(k) \ DOMAIN settled :
       settled[k].distance + Weight(k, m) > net.reach
\* No other node is reached before the last settled one.
LastIs(q, top) ==
  /\ top \in DOMAIN settled
  /\ \A k \in DOMAIN settled :
       NoLater(q.goal, SettledPriority(k, q.goal), settled[k].origin, SettledPriority(top, q.goal), settled[top].origin)
  /\ \A k \in DOMAIN settled : \A m \in Adjacent(k) \ DOMAIN settled :
       \/ settled[k].distance + Weight(k, m) > net.reach
       \/ NoLater(q.goal, SettledPriority(top, q.goal), settled[top].origin,
                  Priority(m, settled[k].distance + Weight(k, m), q.goal), settled[k].origin)
  /\ \A s \in q.from \ DOMAIN settled :
       NoLater(q.goal, SettledPriority(top, q.goal), settled[top].origin, Priority(s, 0, q.goal), s)

\* A lower bound of the ways from source x, scaled.
Bonus(q, x, o) == IF q.goal = 0 /\ x < o THEN 1 ELSE 0
Known(q, x, k) == Stretch(q.goal) * settled[k].distance + Bonus(q, x, settled[k].origin)

LEMMA BonusIs ==
  ASSUME NEW q, NEW x \in Int, NEW o \in Int, NEW s \in Int
  PROVE /\ Bonus(q, x, o) \in {0, 1} /\ (q.goal # 0 => Bonus(q, x, o) = 0) /\ Bonus(q, x, x) = 0
        /\ (q.goal = 0 /\ o <= s => Bonus(q, x, o) <= Bonus(q, x, s))
BY DEF Bonus

\* The step from one place to a later one makes up for the bonus.
LEMMA NoLaterAdds ==
  ASSUME NEW q, NEW x \in Int, NEW p \in Int, NEW o \in Int, NEW r \in Int, NEW s \in Int,
         NoLater(q.goal, p, o, r, s)
  PROVE p + Bonus(q, x, o) <= r + Bonus(q, x, s)
<1>1. Bonus(q, x, o) \in {0, 1} /\ Bonus(q, x, s) \in {0, 1}
  BY BonusIs
<1>2. CASE p < r
  BY <1>1, <1>2
<1>3. CASE p = r /\ (q.goal = 0 => o <= s)
  <2>1. Bonus(q, x, o) <= Bonus(q, x, s)
    BY <1>1, <1>3, BonusIs
  <2> QED BY <1>1, <1>3, <2>1
<1> QED BY <1>2, <1>3 DEF NoLater

\* The same for distances, which priorities are multiples of.
LEMMA NoLaterScaled ==
  ASSUME NEW q, NEW x \in Int, NEW p \in Nat, NEW o \in Int, NEW r \in Nat, NEW s \in Int,
         NEW c \in Nat \ {0}, NoLater(q.goal, p, o, r, s)
  PROVE c * p + Bonus(q, x, o) <= c * r + Bonus(q, x, s)
<1>1. c * p \in Nat /\ c * r \in Nat
  OBVIOUS
<1>2. CASE p < r
  <2>1. c * p < c * r
    BY <1>2
  <2>2. NoLater(q.goal, c * p, o, c * r, s)
    BY <2>1 DEF NoLater
  <2> QED BY <1>1, <2>2, NoLaterAdds
<1>3. CASE p = r /\ (q.goal = 0 => o <= s)
  <2>2. NoLater(q.goal, c * p, o, c * r, s)
    BY <1>3 DEF NoLater
  <2> QED BY <1>1, <2>2, NoLaterAdds
<1> QED BY <1>2, <1>3 DEF NoLater

\* The facts about one settled node that the arithmetic needs.
LEMMA SettledIs ==
  ASSUME net \in AccessCases, NEW q, SettledFit(q), NEW x \in q.from, NEW k \in DOMAIN settled
  PROVE /\ k \in NetNodes /\ settled[k].distance \in Nat /\ settled[k].distance < Far /\ Far \in Nat
        /\ settled[k].origin \in Int /\ x \in Int /\ x \in NetNodes
        /\ Stretch(q.goal) \in Nat \ {0} /\ Lift(k, q.goal) \in Nat
        /\ SettledPriority(k, q.goal) = Stretch(q.goal) * settled[k].distance + Lift(k, q.goal)
        /\ SettledPriority(k, q.goal) \in Int /\ Known(q, x, k) \in Int
<1>1. k \in NetNodes /\ settled[k].distance \in 0..net.reach /\ settled[k].origin \in q.from
  BY DEF SettledFit
<1>2. q.from \subseteq NetNodes /\ net.reach \in Nat /\ NetNodes \subseteq Nat
  BY NetIs DEF SettledFit
<1>3. settled[k].distance \in Nat /\ settled[k].distance < Far /\ Far \in Nat
  BY <1>1, <1>2 DEF Far
<1>4. PriorityFits(q.goal)
  BY PriorityIs DEF SettledFit
<1>5. /\ Stretch(q.goal) \in Nat \ {0} /\ Lift(k, q.goal) \in Nat
      /\ SettledPriority(k, q.goal) = Stretch(q.goal) * settled[k].distance + Lift(k, q.goal)
  BY <1>1, <1>3, <1>4 DEF PriorityFits, SettledPriority
<1>6. settled[k].origin \in Int /\ x \in Int /\ x \in NetNodes
  BY <1>1, <1>2
<1>7. Bonus(q, x, settled[k].origin) \in Int
  BY <1>6, BonusIs
<1>8. Stretch(q.goal) * settled[k].distance \in Int
  BY <1>3, <1>5
<1> QED BY <1>1, <1>3, <1>5, <1>6, <1>7, <1>8 DEF Known

\* The lower bound: what is known of the settled nodes, and of the others what the last one says,
\* or nothing but that they are beyond reach.
BoundWhole(q, x) ==
  [n \in NetNodes |-> IF n \in DOMAIN settled THEN Known(q, x, n) ELSE Stretch(q.goal) * Far]
BoundLast(q, x, top) ==
  [n \in NetNodes |->
     IF n \in DOMAIN settled THEN Known(q, x, n)
     ELSE SettledPriority(top, q.goal) - Lift(n, q.goal) + Bonus(q, x, settled[top].origin)]

\* Between settled nodes neither bound rises too fast.
LEMMA SettledClimb ==
  ASSUME net \in AccessCases, NEW q, SettledFit(q), NEW x \in q.from,
         NEW k \in DOMAIN settled, NEW m \in Adjacent(k), m \in DOMAIN settled
  PROVE Known(q, x, m) <= Known(q, x, k) + Stretch(q.goal) * Weight(k, m)
<1> DEFINE c == Stretch(q.goal)
           d == settled[k].distance
           w == Weight(k, m)
           e == settled[m].distance
<1>1. c \in Nat \ {0} /\ d \in Nat /\ e \in Nat /\ x \in Int /\ settled[k].origin \in Int
      /\ settled[m].origin \in Int /\ k \in NetNodes
  BY SettledIs
<1>2. w \in Nat
  BY <1>1, RoadsAre DEF RoadBetween
<1>3. NoLater(q.goal, e, settled[m].origin, d + w, settled[k].origin)
  BY DEF SettledFit
<1>4. /\ Known(q, x, m) = c * e + Bonus(q, x, settled[m].origin)
      /\ Known(q, x, k) = c * d + Bonus(q, x, settled[k].origin)
  BY DEF Known
<1>5. Bonus(q, x, settled[k].origin) \in Int /\ Bonus(q, x, settled[m].origin) \in Int
  BY <1>1, BonusIs
<1> HIDE DEF c, d, e, w
<1>6. d + w \in Nat
  BY <1>1, <1>2
<1>7. c * e + Bonus(q, x, settled[m].origin) <= c * (d + w) + Bonus(q, x, settled[k].origin)
  BY <1>1, <1>3, <1>6, NoLaterScaled
<1>8. c * (d + w) = c * d + c * w /\ c * d \in Int /\ c * w \in Int /\ c * e \in Int
  BY <1>1, <1>2
<1> QED BY <1>4, <1>5, <1>7, <1>8 DEF c, d, e, w

\* A road that leads beyond reach.
LEMMA BeyondReach ==
  ASSUME net \in AccessCases, NEW q, SettledFit(q), NEW x \in q.from,
         NEW k \in DOMAIN settled, NEW m \in Adjacent(k), settled[k].distance + Weight(k, m) > net.reach
  PROVE Stretch(q.goal) * Far <= Known(q, x, k) + Stretch(q.goal) * Weight(k, m)
<1> DEFINE c == Stretch(q.goal)
           d == settled[k].distance
           w == Weight(k, m)
<1>1. c \in Nat \ {0} /\ d \in Nat /\ x \in Int /\ settled[k].origin \in Int /\ k \in NetNodes /\ Far \in Nat
  BY SettledIs
<1>2. w \in Nat /\ net.reach \in Nat
  BY <1>1, RoadsAre, NetIs DEF RoadBetween
<1>3. Known(q, x, k) = c * d + Bonus(q, x, settled[k].origin)
  BY DEF Known
<1>4. Bonus(q, x, settled[k].origin) \in {0, 1}
  BY <1>1, BonusIs
<1> HIDE DEF c, d, w
<1>5. Far <= d + w
  BY <1>1, <1>2 DEF Far, d, w
<1>6. c * Far <= c * (d + w)
  BY <1>1, <1>2, <1>5
<1>7. c * (d + w) = c * d + c * w /\ c * d \in Int /\ c * w \in Int
  BY <1>1, <1>2
<1>8. c * Far \in Int
  BY <1>1
<1> QED BY <1>3, <1>4, <1>6, <1>7, <1>8 DEF c, d, w

LEMMA WholeClimbs ==
  ASSUME net \in AccessCases, NEW q, SettledFit(q), AllSettled(q), NEW x \in q.from
  PROVE /\ BoundWhole(q, x) \in [NetNodes -> Int] /\ Climbs(BoundWhole(q, x), Stretch(q.goal))
        /\ BoundWhole(q, x)[x] <= 0 /\ x \in NetNodes
<1> DEFINE c == Stretch(q.goal)
           D == BoundWhole(q, x)
<1>1. x \in DOMAIN settled /\ x \in NetNodes /\ c \in Nat \ {0} /\ x \in Int /\ Far \in Nat
  <2>1. x \in DOMAIN settled
    BY DEF AllSettled
  <2> QED BY <2>1, SettledIs
<1>2. c * Far \in Int
  BY <1>1
<1>3. \A n \in NetNodes : D[n] = IF n \in DOMAIN settled THEN Known(q, x, n) ELSE c * Far
  BY DEF BoundWhole
<1>4. D \in [NetNodes -> Int]
  <2>1. \A n \in NetNodes : D[n] \in Int
    BY <1>2, <1>3, SettledIs
  <2> QED BY <2>1 DEF BoundWhole
<1>5. D[x] <= 0
  <2>1. settled[x].distance = 0 /\ settled[x].origin = x
    BY <1>1 DEF SettledFit
  <2>2. Known(q, x, x) = c * 0 + Bonus(q, x, x)
    BY <2>1 DEF Known
  <2>3. c * 0 = 0 /\ Bonus(q, x, x) = 0
    BY <1>1, BonusIs
  <2> QED BY <1>1, <1>3, <2>2, <2>3
<1>6. Climbs(D, c)
  <2> SUFFICES ASSUME NEW k \in NetNodes, NEW m \in Adjacent(k)
               PROVE D[m] <= D[k] + c * Weight(k, m) \/ c * Far <= D[k] + c * Weight(k, m)
    BY DEF Climbs
  <2>1. m \in NetNodes /\ Weight(k, m) \in Nat
    BY RoadsAre DEF RoadBetween
  <2>2. CASE k \notin DOMAIN settled
    <3>1. c * Weight(k, m) \in Nat
      BY <1>1, <2>1
    <3> QED BY <1>2, <1>3, <2>2, <3>1
  <2>3. CASE k \in DOMAIN settled /\ m \in DOMAIN settled
    <3>1. D[k] = Known(q, x, k) /\ D[m] = Known(q, x, m)
      BY <1>3, <2>1, <2>3
    <3> QED BY <2>3, <3>1, SettledClimb
  <2>4. CASE k \in DOMAIN settled /\ m \notin DOMAIN settled
    <3>1. settled[k].distance + Weight(k, m) > net.reach
      BY <2>4 DEF AllSettled
    <3>2. D[k] = Known(q, x, k)
      BY <1>3, <2>4
    <3> QED BY <2>4, <3>1, <3>2, BeyondReach
  <2> QED BY <2>2, <2>3, <2>4
<1> QED BY <1>1, <1>4, <1>5, <1>6

LEMMA LastClimbs ==
  ASSUME net \in AccessCases, NEW q, SettledFit(q), NEW top, LastIs(q, top), NEW x \in q.from
  PROVE /\ BoundLast(q, x, top) \in [NetNodes -> Int] /\ Climbs(BoundLast(q, x, top), Stretch(q.goal))
        /\ BoundLast(q, x, top)[x] <= 0 /\ x \in NetNodes
<1> DEFINE c == Stretch(q.goal)
           D == BoundLast(q, x, top)
           H(n) == Lift(n, q.goal)
           P == SettledPriority(top, q.goal)
           b == Bonus(q, x, settled[top].origin)
<1>1. top \in DOMAIN settled
  BY DEF LastIs
<1>2. /\ x \in NetNodes /\ c \in Nat \ {0} /\ x \in Int /\ Far \in Nat
      /\ P \in Int /\ settled[top].origin \in Int
  BY <1>1, SettledIs
<1>3. b \in {0, 1}
  BY <1>2, BonusIs
<1>4. /\ \A n \in NetNodes : H(n) \in Nat
      /\ \A n \in NetNodes : \A m \in Adjacent(n) : H(n) <= H(m) + c * Weight(n, m)
      /\ \A n \in NetNodes : \A d \in Nat : Priority(n, d, q.goal) = c * d + H(n)
  <2>1. PriorityFits(q.goal)
    BY PriorityIs DEF SettledFit
  <2> QED BY <2>1 DEF PriorityFits
<1>5. \A n \in NetNodes : D[n] = IF n \in DOMAIN settled THEN Known(q, x, n) ELSE P - H(n) + b
  BY DEF BoundLast
<1>6. D \in [NetNodes -> Int]
  <2>1. \A n \in NetNodes : D[n] \in Int
    BY <1>2, <1>3, <1>4, <1>5, SettledIs
  <2> QED BY <2>1 DEF BoundLast
<1> HIDE DEF D
<1>7. D[x] <= 0
  <2>1. CASE x \in DOMAIN settled
    <3>1. settled[x].distance = 0 /\ settled[x].origin = x
      BY <2>1 DEF SettledFit
    <3>2. Known(q, x, x) = c * 0 + Bonus(q, x, x)
      BY <3>1 DEF Known
    <3>3. c * 0 = 0 /\ Bonus(q, x, x) = 0
      BY <1>2, BonusIs
    <3> QED BY <1>2, <1>5, <2>1, <3>2, <3>3
  <2>2. CASE x \notin DOMAIN settled
    <3>1. NoLater(q.goal, P, settled[top].origin, Priority(x, 0, q.goal), x)
      BY <2>2 DEF LastIs
    <3>2. Priority(x, 0, q.goal) = c * 0 + H(x) /\ c * 0 = 0 /\ H(x) \in Nat
      BY <1>2, <1>4
    <3>3. P + b <= H(x) + Bonus(q, x, x) /\ Bonus(q, x, x) = 0
      BY <1>2, <3>1, <3>2, NoLaterAdds, BonusIs
    <3>4. D[x] = P - H(x) + b
      BY <1>2, <1>5, <2>2
    <3> HIDE DEF P, H, b
    <3> QED BY <1>2, <1>3, <3>2, <3>3, <3>4
  <2> QED BY <2>1, <2>2
<1>8. Climbs(D, c)
  <2> SUFFICES ASSUME NEW k \in NetNodes, NEW m \in Adjacent(k)
               PROVE D[m] <= D[k] + c * Weight(k, m) \/ c * Far <= D[k] + c * Weight(k, m)
    BY DEF Climbs
  <2> DEFINE w == Weight(k, m)
  <2>1. m \in NetNodes /\ w \in Nat /\ k \in Adjacent(m) /\ Weight(m, k) = w
    BY RoadsAre DEF RoadBetween
  <2>2. c * w \in Nat /\ H(m) \in Nat /\ H(k) \in Nat /\ H(k) <= H(m) + c * w /\ H(m) <= H(k) + c * w
    BY <1>2, <1>4, <2>1
  <2>3. CASE k \notin DOMAIN settled /\ m \notin DOMAIN settled
    <3>1. D[k] = P - H(k) + b /\ D[m] = P - H(m) + b
      BY <1>5, <2>1, <2>3
    <3> HIDE DEF P, H, b, w, c
    <3>2. D[m] <= D[k] + c * w
      BY <1>2, <1>3, <2>2, <3>1
    <3> QED BY <3>2 DEF w
  <2>4. CASE k \in DOMAIN settled /\ m \in DOMAIN settled
    <3>1. D[k] = Known(q, x, k) /\ D[m] = Known(q, x, m)
      BY <1>5, <2>1, <2>4
    <3> QED BY <2>4, <3>1, SettledClimb
  <2>5. CASE k \in DOMAIN settled /\ m \notin DOMAIN settled
    <3>1. D[k] = Known(q, x, k) /\ D[m] = P - H(m) + b
      BY <1>5, <2>1, <2>5
    <3>2. CASE settled[k].distance + w > net.reach
      BY <2>5, <3>1, <3>2, BeyondReach
    <3>3. CASE NoLater(q.goal, P, settled[top].origin,
                       Priority(m, settled[k].distance + w, q.goal), settled[k].origin)
      <4> DEFINE d == settled[k].distance
                 a == Bonus(q, x, settled[k].origin)
      <4>1. d \in Nat /\ settled[k].origin \in Int
        BY <2>5, SettledIs
      <4>2. d + w \in Nat
        BY <2>1, <4>1
      <4>3. Priority(m, d + w, q.goal) = c * (d + w) + H(m) /\ c * (d + w) \in Nat
        BY <1>2, <1>4, <2>1, <4>2
      <4>4. P + b <= (c * (d + w) + H(m)) + a
        <5>1. Priority(m, d + w, q.goal) \in Int
          BY <2>2, <4>3
        <5> QED BY <1>2, <3>3, <4>1, <4>3, <5>1, NoLaterAdds
      <4>5. c * (d + w) = c * d + c * w /\ c * d \in Int /\ Known(q, x, k) = c * d + a /\ a \in Int
        <5>1. a \in {0, 1}
          BY <1>2, <4>1, BonusIs
        <5> QED BY <1>2, <2>1, <4>1, <5>1 DEF Known
      <4> HIDE DEF P, H, b, a, c, d, w
      <4>6. D[m] <= D[k] + c * w
        BY <1>2, <1>3, <2>2, <3>1, <4>4, <4>5
      <4> QED BY <4>6 DEF w
    <3> QED BY <2>5, <3>2, <3>3 DEF LastIs
  <2>6. CASE k \notin DOMAIN settled /\ m \in DOMAIN settled
    <3> DEFINE e == settled[m].distance
               a == Bonus(q, x, settled[m].origin)
               R == SettledPriority(m, q.goal)
    <3>1. D[k] = P - H(k) + b /\ D[m] = Known(q, x, m)
      BY <1>5, <2>1, <2>6
    <3>2. NoLater(q.goal, R, settled[m].origin, P, settled[top].origin)
      BY <2>6 DEF LastIs
    <3>3. e \in Nat /\ R = c * e + H(m) /\ R \in Int /\ settled[m].origin \in Int
      BY <2>6, SettledIs
    <3>4. R + a <= P + b
      BY <1>2, <3>2, <3>3, NoLaterAdds
    <3>5. Known(q, x, m) = c * e + a /\ c * e \in Int /\ a \in Int
      <4>1. a \in {0, 1}
        BY <1>2, <3>3, BonusIs
      <4> QED BY <1>2, <3>3, <4>1 DEF Known
    <3> HIDE DEF P, H, b, a, c, e, w, R
    <3>6. D[m] <= D[k] + c * w
      BY <1>2, <1>3, <2>2, <3>1, <3>3, <3>4, <3>5
    <3> QED BY <3>6 DEF w
  <2> QED BY <2>3, <2>4, <2>5, <2>6
<1> QED BY <1>2, <1>6, <1>7, <1>8 DEF D

\* A settled node is as far as its origin, and no source is nearer; of equally near ones, for a
\* search without a goal, its origin is the first.
NearestIs(q, k) ==
  /\ k \in NetNodes /\ settled[k].distance \in 0..net.reach /\ settled[k].origin \in q.from
  /\ Metric[settled[k].origin][k] = settled[k].distance
  /\ \A x \in q.from : /\ settled[k].distance <= Metric[x][k]
                       /\ q.goal = 0 /\ x < settled[k].origin => settled[k].distance < Metric[x][k]

LEMMA SettledAreNearest ==
  ASSUME net \in AccessCases, NEW q, SettledFit(q), AllSettled(q) \/ \E top : LastIs(q, top)
  PROVE /\ \A k \in DOMAIN settled : NearestIs(q, k)
        /\ AllSettled(q) => \A x \in q.from : \A k \in NetNodes \ DOMAIN settled : Far <= Metric[x][k]
<1> DEFINE c == Stretch(q.goal)
<1>1. ASSUME NEW x \in q.from
      PROVE \E D : /\ D \in [NetNodes -> Int] /\ Climbs(D, c) /\ D[x] <= 0 /\ x \in NetNodes
                   /\ \A k \in DOMAIN settled : D[k] = Known(q, x, k)
                   /\ AllSettled(q) => \A k \in NetNodes \ DOMAIN settled : D[k] = c * Far
  <2>1. \A k \in DOMAIN settled : k \in NetNodes
    BY DEF SettledFit
  <2>2. CASE AllSettled(q)
    <3> DEFINE D == BoundWhole(q, x)
    <3>1. D \in [NetNodes -> Int] /\ Climbs(D, c) /\ D[x] <= 0 /\ x \in NetNodes
      BY <2>2, WholeClimbs
    <3>2. /\ \A k \in DOMAIN settled : D[k] = Known(q, x, k)
          /\ \A k \in NetNodes \ DOMAIN settled : D[k] = c * Far
      BY <2>1 DEF BoundWhole
    <3> HIDE DEF D, c
    <3> QED BY <3>1, <3>2
  <2>3. CASE ~AllSettled(q)
    <3>1. PICK top : LastIs(q, top)
      BY <2>3
    <3> DEFINE D == BoundLast(q, x, top)
    <3>2. D \in [NetNodes -> Int] /\ Climbs(D, c) /\ D[x] <= 0 /\ x \in NetNodes
      BY <3>1, LastClimbs
    <3>3. \A k \in DOMAIN settled : D[k] = Known(q, x, k)
      BY <2>1 DEF BoundLast
    <3> HIDE DEF D, c
    <3> QED BY <2>3, <3>2, <3>3
  <2> QED BY <2>2, <2>3
<1>2. ASSUME NEW x \in q.from, NEW k \in NetNodes
      PROVE /\ c \in Nat \ {0} /\ Far \in Nat /\ Metric[x][k] \in Nat
            /\ k \in DOMAIN settled => Known(q, x, k) <= c * Metric[x][k] \/ c * Far <= c * Metric[x][k]
            /\ AllSettled(q) /\ k \notin DOMAIN settled => c * Far <= c * Metric[x][k]
  <2>1. PICK D : /\ D \in [NetNodes -> Int] /\ Climbs(D, c) /\ D[x] <= 0 /\ x \in NetNodes
                 /\ \A n \in DOMAIN settled : D[n] = Known(q, x, n)
                 /\ AllSettled(q) => \A n \in NetNodes \ DOMAIN settled : D[n] = c * Far
    BY <1>1
  <2>2. c \in Nat \ {0} /\ Far \in Nat /\ Metric[x][k] \in Nat
    <3>1. PriorityFits(q.goal)
      BY PriorityIs DEF SettledFit
    <3>2. Far \in Nat
      BY NetIs DEF Far
    <3>3. Metric[x][k] \in Nat
      BY <2>1, MetricIs DEF MetricTo
    <3> QED BY <3>1, <3>2, <3>3 DEF PriorityFits
  <2>3. D[k] <= c * Metric[x][k] \/ c * Far <= c * Metric[x][k]
    <3> HIDE DEF c
    <3> QED BY <2>1, <2>2, WaysAreLonger
  <2> HIDE DEF c
  <2> QED BY <2>1, <2>2, <2>3
<1>3. ASSUME NEW k \in DOMAIN settled PROVE NearestIs(q, k)
  <2> DEFINE d == settled[k].distance
             o == settled[k].origin
  <2>1. k \in NetNodes /\ d \in 0..net.reach /\ o \in q.from /\ Metric[o][k] <= d
    BY DEF SettledFit
  <2>2. ASSUME NEW x \in q.from
        PROVE d <= Metric[x][k] /\ (q.goal = 0 /\ x < o => d < Metric[x][k])
    <3> DEFINE b == Bonus(q, x, o)
               M == Metric[x][k]
    <3>1. c \in Nat \ {0} /\ Far \in Nat /\ M \in Nat
          /\ (c * d + b <= c * M \/ c * Far <= c * M)
      BY <1>2, <2>1 DEF Known
    <3>2. d \in Nat /\ d < Far /\ x \in Int /\ o \in Int
      BY SettledIs
    <3>3. b \in {0, 1} /\ (q.goal = 0 /\ x < o => b = 1)
      BY DEF Bonus
    <3> HIDE DEF c, d, b, M, o
    <3>4. CASE c * Far <= c * M
      <4>1. Far <= M
        BY <3>1, <3>4, TimesCancels
      <4> QED BY <3>1, <3>2, <4>1 DEF M
    <3>5. CASE c * d + b <= c * M
      <4>1. c * d \in Nat /\ c * M \in Nat
        BY <3>1, <3>2
      <4>2. c * d <= c * M
        BY <3>3, <3>5, <4>1
      <4>3. d <= M
        BY <3>1, <3>2, <4>2, TimesCancels
      <4>4. ASSUME b = 1 PROVE d # M
        BY <3>5, <4>1, <4>4
      <4> QED BY <3>1, <3>2, <3>3, <4>3, <4>4 DEF M
    <3> QED BY <3>1, <3>4, <3>5
  <2>3. Metric[o][k] \in Nat /\ d \in Nat
    BY <1>2, <2>1, SettledIs
  <2>4. Metric[o][k] = d
    <3>1. d <= Metric[o][k]
      BY <2>1, <2>2
    <3> HIDE DEF d, o
    <3> QED BY <2>1, <2>3, <3>1
  <2> QED BY <2>1, <2>2, <2>4 DEF NearestIs
<1>4. ASSUME AllSettled(q), NEW x \in q.from, NEW k \in NetNodes \ DOMAIN settled
      PROVE Far <= Metric[x][k]
  <2>1. c \in Nat \ {0} /\ Far \in Nat /\ Metric[x][k] \in Nat /\ c * Far <= c * Metric[x][k]
    BY <1>2, <1>4
  <2> HIDE DEF c
  <2> QED BY <2>1, TimesCancels
<1> QED BY <1>3, <1>4

-----------------------------------------------------------------------------
(* Accessibility: the search. *)

LEMMA NetKept ==
  ASSUME net' = net
  PROVE /\ NetNodes' = NetNodes /\ Far' = Far /\ Metric' = Metric
        /\ \A n : Adjacent(n)' = Adjacent(n)
        /\ \A m, n : Weight(m, n)' = Weight(m, n)
        /\ \A n, d, g : Priority(n, d, g)' = Priority(n, d, g)
<1>1. \A n : Adjacent(n)' = Adjacent(n)
  BY DEF Adjacent
<1>2. \A m, n : Weight(m, n)' = Weight(m, n)
  BY DEF Weight
<1>3. NetNodes' = NetNodes /\ Far' = Far
  BY DEF NetNodes, Far
<1>4. HeuristicScale' = HeuristicScale
  BY DEF HeuristicScale, Straight
<1>5. \A n, d, g : Priority(n, d, g)' = Priority(n, d, g)
  BY <1>4 DEF Priority, Heuristic
<1>6. Metric' = Metric
  BY DEF Metric, Adjacent, Weight, Far
<1> QED BY <1>1, <1>2, <1>3, <1>5, <1>6

EntryFits(q, e) ==
  /\ e \in HeapEntries /\ e[4] \in DOMAIN tentative /\ e[2] \in Nat /\ e[3] \in q.from
  /\ e[1] = Priority(e[4], e[2], q.goal)
EntryOf(q, n) ==
  <<Priority(n, tentative[n][1], q.goal), tentative[n][1], tentative[n][2], n, tentative[n][3]>>

\* A tentative entry is a way along the settled node it names.
TentativeFits(q, n) ==
  LET t == tentative[n] IN
  /\ t \in Triples /\ t[1] \in 0..net.reach /\ t[2] \in q.from /\ Metric[t[2]][n] <= t[1]
  /\ IF t[3] = 0 THEN t[1] = 0 /\ t[2] = n
     ELSE /\ t[3] \in DOMAIN settled /\ n \in Adjacent(t[3])
          /\ t[1] = settled[t[3]].distance + Weight(t[3], n) /\ t[2] = settled[t[3]].origin

TentativeInv(q) ==
  /\ DOMAIN tentative \subseteq NetNodes /\ \A n \in DOMAIN tentative : TentativeFits(q, n)
  /\ \A s \in q.from : s \in DOMAIN tentative /\ tentative[s] = <<0, s, 0>>
  /\ DOMAIN settled \subseteq DOMAIN tentative
  /\ \A n \in DOMAIN settled :
       settled[n] = [distance |-> tentative[n][1], origin |-> tentative[n][2], parent |-> tentative[n][3]]
FrontierInv(q) ==
  /\ IsFiniteSet(frontier) /\ \A e \in frontier : EntryFits(q, e)
  /\ \A n \in DOMAIN tentative \ DOMAIN settled : EntryOf(q, n) \in frontier
\* What a settled node's roads lead to is known, as well as by that road or better.
RoadsCovered ==
  \A k \in DOMAIN settled : \A m \in Adjacent(k) \ DOMAIN settled :
    \/ settled[k].distance + Weight(k, m) > net.reach
    \/ /\ m \in DOMAIN tentative
       /\ NoLater(0, tentative[m][1], tentative[m][2], settled[k].distance + Weight(k, m), settled[k].origin)
HeapIsLater(q) ==
  \A k \in DOMAIN settled : \A e \in frontier :
    NoLater(q.goal, SettledPriority(k, q.goal), settled[k].origin, e[1], e[3])

SettlingInv(q) == SettledFit(q) /\ TentativeInv(q)
PopInv(q) == SettlingInv(q) /\ FrontierInv(q) /\ RoadsCovered /\ HeapIsLater(q)

LEMMA NoLaterIsOrder ==
  ASSUME NEW g, NEW p \in Int, NEW o \in Int, NEW r \in Int, NEW s \in Int, NEW u \in Int, NEW v \in Int
  PROVE /\ NoLater(g, p, o, p, o)
        /\ NoLater(0, p, o, r, s) => NoLater(g, p, o, r, s)
        /\ NoLater(g, p, o, r, s) /\ NoLater(g, r, s, u, v) => NoLater(g, p, o, u, v)
        /\ p < r => NoLater(g, p, o, r, s)
        /\ g # 0 => (NoLater(g, p, o, r, s) <=> p <= r)
BY DEF NoLater

\* The order of the heap and that of the places.
LEMMA EntriesInOrder ==
  ASSUME NEW q, NEW a, NEW b, EntryFits(q, a), EntryFits(q, b), a = b \/ Precedes(a, b),
         q.from \subseteq Int
  PROVE NoLater(q.goal, a[1], a[3], b[1], b[3])
<1>1. a \in HeapEntries /\ b \in HeapEntries /\ a[1] = Priority(a[4], a[2], q.goal) /\ b[1] = Priority(b[4], b[2], q.goal)
  BY DEF EntryFits
<1>2. a[1] \in Int /\ b[1] \in Int /\ a[3] \in Int /\ b[3] \in Int /\ a[2] \in Int /\ b[2] \in Int
  BY <1>1 DEF HeapEntries
<1>3. q.goal = 0 => a[1] = a[2] /\ b[1] = b[2]
  BY <1>1 DEF Priority
<1>4. CASE a = b
  BY <1>2, <1>4, NoLaterIsOrder
<1>5. CASE Precedes(a, b)
  <2>1. a[1] < b[1] \/ (a[1] = b[1] /\ (a[2] < b[2] \/ (a[2] = b[2] /\ a[3] <= b[3])))
        \/ (a[1] = b[1] /\ q.goal # 0)
    BY <1>1, <1>2, <1>5, EntryOrder
  <2> QED BY <1>2, <1>3, <2>1 DEF NoLater
<1> QED BY <1>4, <1>5

\* The entry of a node that is not settled is one of the heap.
LEMMA EntryOfIs ==
  ASSUME NEW q, TentativeInv(q), FrontierInv(q), NEW n \in DOMAIN tentative \ DOMAIN settled
  PROVE /\ EntryFits(q, EntryOf(q, n)) /\ EntryOf(q, n) \in frontier
        /\ EntryOf(q, n)[1] = Priority(n, tentative[n][1], q.goal) /\ EntryOf(q, n)[2] = tentative[n][1]
        /\ EntryOf(q, n)[3] = tentative[n][2] /\ EntryOf(q, n)[4] = n /\ EntryOf(q, n)[5] = tentative[n][3]
<1>1. EntryOf(q, n) \in frontier
  BY DEF FrontierInv
<1> QED BY <1>1 DEF FrontierInv, EntryOf

LEMMA SearchStarts ==
  ASSUME net \in AccessCases, NEW q, q.from \subseteq NetNodes, q.goal \in {0} \cup NetNodes,
         net' = net, settled' = << >>,
         frontier' = {<<Priority(s, 0, q.goal), 0, s, s, 0>> : s \in q.from},
         tentative' = [s \in q.from |-> <<0, s, 0>>]
  PROVE PopInv(q)'
<1>1. DOMAIN settled' = {}
  OBVIOUS
<1>2. NetNodes' = NetNodes /\ NetNodes \subseteq Nat /\ Metric' = Metric /\ net.reach \in Nat
  BY NetKept, NetIs
<1>3. SettledFit(q)'
  BY <1>1, <1>2 DEF SettledFit
<1>4. TentativeInv(q)'
  <2>1. DOMAIN tentative' = q.from /\ \A s \in q.from : tentative'[s] = <<0, s, 0>>
    OBVIOUS
  <2>2. ASSUME NEW s \in q.from PROVE TentativeFits(q, s)'
    <3>1. Metric[s][s] = 0
      BY MetricIs DEF MetricTo
    <3>2. s \in Int /\ tentative'[s] = <<0, s, 0>>
      BY <1>2, <2>1
    <3> QED BY <1>2, <3>1, <3>2 DEF TentativeFits, Triples
  <2> QED BY <1>1, <1>2, <2>1, <2>2 DEF TentativeInv
<1>5. FrontierInv(q)'
  <2> DEFINE f == [s \in q.from |-> <<Priority(s, 0, q.goal), 0, s, s, 0>>]
  <2>1. IsFiniteSet(frontier')
    <3>1. IsFiniteSet(q.from)
      BY NetIs, FS_Subset
    <3>2. frontier' = {f[s] : s \in q.from}
      OBVIOUS
    <3>3. IsFiniteSet({f[s] : s \in q.from})
      <4> HIDE DEF f
      <4> QED BY <3>1, ImageFinite
    <3> QED BY <3>2, <3>3
  <2>2. ASSUME NEW s \in q.from, NEW e, e = <<Priority(s, 0, q.goal), 0, s, s, 0>> PROVE EntryFits(q, e)'
    <3>1. Priority(s, 0, q.goal) \in Int
      <4>1. PriorityFits(q.goal) /\ s \in NetNodes
        BY PriorityIs
      <4>2. Priority(s, 0, q.goal) = Stretch(q.goal) * 0 + Lift(s, q.goal)
        BY <4>1 DEF PriorityFits
      <4>3. Stretch(q.goal) \in Int /\ Lift(s, q.goal) \in Int
        BY <4>1 DEF PriorityFits
      <4> QED BY <4>2, <4>3
    <3>2. e[1] = Priority(s, 0, q.goal) /\ e[2] = 0 /\ e[3] = s /\ e[4] = s
      BY <2>2
    <3>3. e \in HeapEntries
      <4>1. s \in Int
        BY <1>2
      <4> QED BY <2>2, <3>1, <4>1 DEF HeapEntries
    <3>4. s \in DOMAIN tentative'
      OBVIOUS
    <3>5. Priority(s, 0, q.goal)' = Priority(s, 0, q.goal)
      BY NetKept
    <3> QED BY <3>2, <3>3, <3>4, <3>5 DEF EntryFits
  <2>3. ASSUME NEW s \in q.from PROVE EntryOf(q, s)' = <<Priority(s, 0, q.goal), 0, s, s, 0>>
    BY NetKept DEF EntryOf
  <2>4. \A e \in frontier' : EntryFits(q, e)'
    <3> TAKE e \in frontier'
    <3>1. PICK s \in q.from : e = <<Priority(s, 0, q.goal), 0, s, s, 0>>
      OBVIOUS
    <3> QED BY <2>2, <3>1
  <2> QED BY <1>1, <2>1, <2>3, <2>4 DEF FrontierInv
<1>6. RoadsCovered' /\ HeapIsLater(q)'
  BY <1>1 DEF RoadsCovered, HeapIsLater
<1> QED BY <1>3, <1>4, <1>5, <1>6 DEF PopInv, SettlingInv

\* A step that keeps the settled and the tentative entries keeps what is said of them.
LEMMA SearchKept ==
  ASSUME net' = net, settled' = settled, tentative' = tentative, NEW q
  PROVE /\ SettledFit(q)' = SettledFit(q) /\ TentativeInv(q)' = TentativeInv(q) /\ RoadsCovered' = RoadsCovered
        /\ AllSettled(q)' = AllSettled(q) /\ \A top : LastIs(q, top)' = LastIs(q, top)
        /\ \A e : EntryFits(q, e)' = EntryFits(q, e) /\ \A n : EntryOf(q, n)' = EntryOf(q, n)
        /\ \A k, g : SettledPriority(k, g)' = SettledPriority(k, g)
<1>1. \A k, g : SettledPriority(k, g)' = SettledPriority(k, g)
  BY NetKept DEF SettledPriority
<1>2. SettledFit(q)' = SettledFit(q)
  BY NetKept DEF SettledFit
<1>3. \A n : TentativeFits(q, n)' = TentativeFits(q, n)
  BY NetKept DEF TentativeFits
<1>4. TentativeInv(q)' = TentativeInv(q)
  BY <1>3, NetKept DEF TentativeInv
<1>5. RoadsCovered' = RoadsCovered
  BY NetKept DEF RoadsCovered
<1>6. AllSettled(q)' = AllSettled(q)
  BY NetKept DEF AllSettled
<1>7. ASSUME NEW top PROVE LastIs(q, top)' = LastIs(q, top)
  BY <1>1, NetKept DEF LastIs
<1>8. \A e : EntryFits(q, e)' = EntryFits(q, e)
  BY NetKept DEF EntryFits
<1>9. \A n : EntryOf(q, n)' = EntryOf(q, n)
  BY NetKept DEF EntryOf
<1> QED BY <1>1, <1>2, <1>4, <1>5, <1>6, <1>7, <1>8, <1>9

LEMMA PoppedFits ==
  ASSUME net \in AccessCases, NEW q, PopInv(q), frontier # {}, NEW e, e = PoppedEntry
  PROVE /\ e \in frontier /\ EntryFits(q, e) /\ q.from \subseteq Int
        /\ \A x \in frontier : NoLater(q.goal, e[1], e[3], x[1], x[3])
<1>1. FrontierInv(q) /\ SettledFit(q)
  BY DEF PopInv, SettlingInv
<1>2. IsFiniteSet(frontier) /\ \A x \in frontier : EntryFits(q, x)
  BY <1>1 DEF FrontierInv
<1>3. frontier \subseteq HeapEntries
  BY <1>2 DEF EntryFits
<1>4. e \in frontier /\ \A x \in frontier : e = x \/ Precedes(e, x)
  BY <1>2, <1>3, PoppedIs
<1>5. q.from \subseteq Int
  BY <1>1, NetIs DEF SettledFit
<1> QED BY <1>2, <1>4, <1>5, EntriesInOrder

LEMMA StaleKeeps ==
  ASSUME net \in AccessCases, NEW q, PopInv(q), PopStale
  PROVE PopInv(q)'
<1> DEFINE e == PoppedEntry
<1>1. frontier # {} /\ Stale(e) /\ frontier' = frontier \ {e} /\ net' = net /\ settled' = settled /\ tentative' = tentative
  BY DEF PopStale, accessVars, searchVars
<1> HIDE DEF e
<1>2. SettlingInv(q)' /\ RoadsCovered'
  BY <1>1, SearchKept DEF PopInv, SettlingInv
<1>3. FrontierInv(q)'
  <2>1. IsFiniteSet(frontier')
    <3>1. frontier' \in SUBSET frontier /\ IsFiniteSet(frontier)
      BY <1>1 DEF PopInv, FrontierInv
    <3> QED BY <3>1, FS_Subset
  <2>2. \A x \in frontier' : EntryFits(q, x)'
    BY <1>1, SearchKept DEF PopInv, FrontierInv
  <2>3. ASSUME NEW n \in DOMAIN tentative' \ DOMAIN settled' PROVE EntryOf(q, n)' \in frontier'
    <3>1. n \in DOMAIN tentative \ DOMAIN settled /\ TentativeInv(q) /\ FrontierInv(q)
      BY <1>1 DEF PopInv, SettlingInv
    <3>2. /\ EntryOf(q, n) \in frontier /\ EntryOf(q, n)[4] = n
          /\ EntryOf(q, n)[2] = tentative[n][1] /\ EntryOf(q, n)[3] = tentative[n][2] /\ EntryOf(q, n)[5] = tentative[n][3]
      BY <3>1, EntryOfIs
    <3>3. tentative[n] \in Triples
      BY <3>1 DEF TentativeInv, TentativeFits
    <3>4. tentative[n] = <<tentative[n][1], tentative[n][2], tentative[n][3]>>
      BY <3>3 DEF Triples
    <3>5. EntryOf(q, n) # e
      BY <1>1, <3>1, <3>2, <3>4 DEF Stale
    <3> QED BY <1>1, <3>2, <3>5, SearchKept
  <2> QED BY <2>1, <2>2, <2>3 DEF FrontierInv
<1>4. HeapIsLater(q)'
  BY <1>1, SearchKept DEF PopInv, HeapIsLater
<1> QED BY <1>2, <1>3, <1>4 DEF PopInv

\* An empty heap leaves nothing out.
LEMMA ExhaustedAll ==
  ASSUME net \in AccessCases, NEW q, PopInv(q), frontier = {}
  PROVE AllSettled(q)
<1>1. DOMAIN tentative \subseteq DOMAIN settled
  BY DEF PopInv, FrontierInv
<1>2. q.from \subseteq DOMAIN settled
  BY <1>1 DEF PopInv, SettlingInv, TentativeInv
<1>3. ASSUME NEW k \in DOMAIN settled, NEW m \in Adjacent(k) \ DOMAIN settled
      PROVE settled[k].distance + Weight(k, m) > net.reach
  BY <1>1 DEF PopInv, RoadsCovered
<1> QED BY <1>2, <1>3 DEF AllSettled

\* The entry that is popped, when it is not stale, and the step that settles its node.
SettlesAs(e) ==
  /\ net' = net
  /\ settled' = [m \in DOMAIN settled \cup {e[4]} |->
       IF m = e[4] THEN [distance |-> e[2], origin |-> e[3], parent |-> e[5]] ELSE settled[m]]
Ripe(q, e) == PopInv(q) /\ frontier # {} /\ e = PoppedEntry /\ ~Stale(e)

LEMMA RipeIs ==
  ASSUME net \in AccessCases, NEW q, NEW e, Ripe(q, e)
  PROVE /\ e[4] \in NetNodes \ DOMAIN settled /\ e[4] \in DOMAIN tentative /\ e \in HeapEntries
        /\ tentative[e[4]] = <<e[2], e[3], e[5]>> /\ TentativeFits(q, e[4])
        /\ e[2] \in 0..net.reach /\ e[2] \in Nat /\ e[3] \in q.from /\ e[3] \in Int /\ e[1] \in Int
        /\ e[1] = Priority(e[4], e[2], q.goal) /\ Metric[e[3]][e[4]] <= e[2] /\ net.reach \in Nat
<1>1. EntryFits(q, e) /\ q.from \subseteq Int
  BY PoppedFits DEF Ripe
<1>2. e[4] \in DOMAIN tentative /\ e \in HeapEntries /\ e[1] = Priority(e[4], e[2], q.goal) /\ e[3] \in q.from
  BY <1>1 DEF EntryFits
<1>3. e[4] \notin DOMAIN settled /\ tentative[e[4]] = <<e[2], e[3], e[5]>>
  BY DEF Ripe, Stale
<1>4. TentativeFits(q, e[4]) /\ e[4] \in NetNodes
  BY <1>2 DEF Ripe, PopInv, SettlingInv, TentativeInv
<1>5. net.reach \in Nat
  BY NetIs
<1>6. e[2] \in 0..net.reach /\ Metric[e[3]][e[4]] <= e[2]
  BY <1>3, <1>4 DEF TentativeFits
<1>7. e[1] \in Int
  BY <1>2 DEF HeapEntries
<1> QED BY <1>1, <1>2, <1>3, <1>4, <1>5, <1>6, <1>7

LEMMA SettledNow ==
  ASSUME NEW e, SettlesAs(e), e[4] \notin DOMAIN settled
  PROVE /\ DOMAIN settled' = DOMAIN settled \cup {e[4]}
        /\ settled'[e[4]] = [distance |-> e[2], origin |-> e[3], parent |-> e[5]]
        /\ settled'[e[4]].distance = e[2] /\ settled'[e[4]].origin = e[3] /\ settled'[e[4]].parent = e[5]
        /\ \A k \in DOMAIN settled : settled'[k] = settled[k]
        /\ \A k \in DOMAIN settled : \A g : SettledPriority(k, g)' = SettledPriority(k, g)
        /\ \A g : SettledPriority(e[4], g)' = Priority(e[4], e[2], g)
<1>1. /\ DOMAIN settled' = DOMAIN settled \cup {e[4]}
      /\ settled'[e[4]] = [distance |-> e[2], origin |-> e[3], parent |-> e[5]]
      /\ \A k \in DOMAIN settled : settled'[k] = settled[k]
  BY DEF SettlesAs
<1>3. settled'[e[4]].distance = e[2] /\ settled'[e[4]].origin = e[3] /\ settled'[e[4]].parent = e[5]
  BY <1>1
<1>2. \A n, d, g : Priority(n, d, g)' = Priority(n, d, g)
  BY NetKept DEF SettlesAs
<1> QED BY <1>1, <1>2, <1>3 DEF SettledPriority

\* The settled nodes are no later than the next one.
LEMMA RipeIsLast ==
  ASSUME net \in AccessCases, NEW q, NEW e, Ripe(q, e), SettlesAs(e)
  PROVE \A k \in DOMAIN settled' : NoLater(q.goal, SettledPriority(k, q.goal)', settled'[k].origin, e[1], e[3])
<1>1. /\ DOMAIN settled' = DOMAIN settled \cup {e[4]}
      /\ settled'[e[4]].origin = e[3]
      /\ \A k \in DOMAIN settled : settled'[k] = settled[k]
      /\ \A k \in DOMAIN settled : SettledPriority(k, q.goal)' = SettledPriority(k, q.goal)
      /\ SettledPriority(e[4], q.goal)' = e[1]
  <2>1. e[4] \notin DOMAIN settled /\ e[1] = Priority(e[4], e[2], q.goal)
    BY RipeIs
  <2>2. DOMAIN settled' = DOMAIN settled \cup {e[4]} /\ settled'[e[4]].origin = e[3]
        /\ \A k \in DOMAIN settled : settled'[k] = settled[k]
    BY <2>1, SettledNow
  <2>3. \A k \in DOMAIN settled : SettledPriority(k, q.goal)' = SettledPriority(k, q.goal)
    BY <2>1, SettledNow
  <2>4. SettledPriority(e[4], q.goal)' = Priority(e[4], e[2], q.goal)
    BY <2>1, SettledNow
  <2> QED BY <2>1, <2>2, <2>3, <2>4
<1>2. \A k \in DOMAIN settled : NoLater(q.goal, SettledPriority(k, q.goal), settled[k].origin, e[1], e[3])
  BY PoppedFits DEF Ripe, PopInv, HeapIsLater
<1>3. NoLater(q.goal, e[1], e[3], e[1], e[3])
  BY RipeIs, NoLaterIsOrder
<1> QED BY <1>1, <1>2, <1>3

\* A road along which the priority of a node grows.
LEMMA RoadIsLater ==
  ASSUME net \in AccessCases, NEW g \in {0} \cup NetNodes, NEW k \in NetNodes, NEW m \in Adjacent(k),
         NEW d \in Nat, NEW o \in Int
  PROVE /\ NoLater(g, Priority(k, d, g), o, Priority(m, d + Weight(k, m), g), o)
        /\ Priority(k, d, g) \in Int /\ Priority(m, d + Weight(k, m), g) \in Int
        /\ m \in NetNodes /\ Weight(k, m) \in Nat \ {0} /\ Weight(m, k) = Weight(k, m) /\ k \in Adjacent(m)
<1> DEFINE c == Stretch(g)
           w == Weight(k, m)
<1>1. m \in NetNodes /\ w \in Nat \ {0} /\ Weight(m, k) = w /\ k \in Adjacent(m)
  BY RoadsAre DEF RoadBetween
<1>2. PriorityFits(g)
  BY PriorityIs
<1>3. c \in Nat \ {0} /\ Lift(k, g) \in Nat /\ Lift(m, g) \in Nat /\ Lift(k, g) <= Lift(m, g) + c * w
  BY <1>1, <1>2 DEF PriorityFits
<1>4. d + w \in Nat
  BY <1>1
<1>5. Priority(k, d, g) = c * d + Lift(k, g) /\ Priority(m, d + w, g) = c * (d + w) + Lift(m, g)
  BY <1>1, <1>2, <1>4 DEF PriorityFits
<1>6. c * (d + w) = c * d + c * w /\ c * d \in Nat /\ c * w \in Nat
  BY <1>1, <1>3
<1> HIDE DEF c, w
<1>7. Priority(k, d, g) <= Priority(m, d + w, g) /\ Priority(k, d, g) \in Int /\ Priority(m, d + w, g) \in Int
  BY <1>3, <1>5, <1>6
<1>8. NoLater(g, Priority(k, d, g), o, Priority(m, d + w, g), o)
  BY <1>7 DEF NoLater
<1> QED BY <1>1, <1>7, <1>8 DEF w

\* Distances and priorities at one node have the same order.
LEMMA PriorityKeepsOrder ==
  ASSUME net \in AccessCases, NEW g \in {0} \cup NetNodes, NEW m \in NetNodes,
         NEW d \in Nat, NEW o \in Int, NEW r \in Nat, NEW s \in Int, NoLater(0, d, o, r, s)
  PROVE NoLater(g, Priority(m, d, g), o, Priority(m, r, g), s)
<1> DEFINE c == Stretch(g)
<1>1. PriorityFits(g)
  BY PriorityIs
<1>2. /\ c \in Nat \ {0} /\ Lift(m, g) \in Nat
      /\ Priority(m, d, g) = c * d + Lift(m, g) /\ Priority(m, r, g) = c * r + Lift(m, g)
  BY <1>1 DEF PriorityFits
<1> HIDE DEF c
<1>3. CASE d < r
  <2>1. c * d < c * r /\ c * d \in Nat /\ c * r \in Nat
    BY <1>2, <1>3
  <2> QED BY <1>2, <2>1 DEF NoLater
<1>4. CASE d = r /\ o <= s
  BY <1>2, <1>4 DEF NoLater
<1> QED BY <1>3, <1>4 DEF NoLater

LEMMA SettleFits ==
  ASSUME net \in AccessCases, NEW q, NEW e, Ripe(q, e), SettlesAs(e)
  PROVE SettledFit(q)'
<1> DEFINE n == e[4]
<1>1. /\ n \in NetNodes \ DOMAIN settled /\ e[2] \in 0..net.reach /\ e[2] \in Nat /\ e[3] \in q.from /\ e[3] \in Int
      /\ Metric[e[3]][n] <= e[2] /\ e[1] \in Int /\ e[1] = Priority(n, e[2], q.goal) /\ net.reach \in Nat
  BY RipeIs
<1>2. /\ DOMAIN settled' = DOMAIN settled \cup {n}
      /\ settled'[n].distance = e[2] /\ settled'[n].origin = e[3]
      /\ \A k \in DOMAIN settled : settled'[k] = settled[k]
  BY <1>1, SettledNow
<1>3. SettledFit(q) /\ TentativeInv(q) /\ RoadsCovered /\ HeapIsLater(q)
  BY DEF Ripe, PopInv, SettlingInv
<1>4. net' = net /\ NetNodes' = NetNodes /\ Metric' = Metric /\ (\A k : Adjacent(k)' = Adjacent(k))
      /\ (\A k, m : Weight(k, m)' = Weight(k, m))
  BY NetKept DEF SettlesAs
<1>5. DOMAIN settled' \subseteq NetNodes /\ q.from \subseteq NetNodes /\ q.goal \in {0} \cup NetNodes
  BY <1>1, <1>2, <1>3 DEF SettledFit
<1>6. ASSUME NEW k \in DOMAIN settled'
      PROVE /\ settled'[k].distance \in 0..net.reach /\ settled'[k].origin \in q.from
            /\ Metric[settled'[k].origin][k] <= settled'[k].distance
  BY <1>1, <1>2, <1>3 DEF SettledFit
<1>7. ASSUME NEW s \in q.from \cap DOMAIN settled' PROVE settled'[s].distance = 0 /\ settled'[s].origin = s
  <2>1. CASE s \in DOMAIN settled
    BY <1>2, <1>3, <2>1 DEF SettledFit
  <2>2. CASE s = n
    <3>1. tentative[n] = <<0, n, 0>>
      BY <1>3, <2>2 DEF TentativeInv
    <3>2. tentative[n] = <<e[2], e[3], e[5]>>
      BY RipeIs
    <3> QED BY <1>2, <2>2, <3>1, <3>2
  <2> QED BY <1>2, <2>1, <2>2
<1>8. ASSUME NEW k \in DOMAIN settled', NEW m \in Adjacent(k) \cap DOMAIN settled'
      PROVE NoLater(q.goal, settled'[m].distance, settled'[m].origin,
                    settled'[k].distance + Weight(k, m), settled'[k].origin)
  <2>1. CASE k \in DOMAIN settled /\ m \in DOMAIN settled
    BY <1>2, <1>3, <2>1 DEF SettledFit
  <2>2. CASE k = n /\ m = n
    BY <1>1, <2>2, RoadsAre DEF RoadBetween
  <2>3. CASE k \in DOMAIN settled /\ m = n
    <3> DEFINE d == settled[k].distance
               w == Weight(k, n)
               o == settled[k].origin
    <3>0. n \in Adjacent(k) \ DOMAIN settled
      BY <1>1, <2>3
    <3>1. d \in Nat /\ o \in Int /\ k \in NetNodes
      BY <1>1, <1>3, <2>3, SettledIs
    <3>2. w \in Nat
      BY <3>0, <3>1, RoadsAre DEF RoadBetween
    <3>3. tentative[n] = <<e[2], e[3], e[5]>>
      BY RipeIs
    <3>4. d + w > net.reach \/ NoLater(0, e[2], e[3], d + w, o)
      BY <1>3, <2>3, <3>0, <3>3 DEF RoadsCovered
    <3>5. NoLater(0, e[2], e[3], d + w, o)
      <4> HIDE DEF d, w, o
      <4> QED BY <1>1, <3>1, <3>2, <3>4 DEF NoLater
    <3>6. NoLater(q.goal, e[2], e[3], d + w, o)
      <4>1. d + w \in Int
        BY <3>1, <3>2
      <4> QED BY <1>1, <3>1, <3>5, <4>1, NoLaterIsOrder
    <3> QED BY <1>2, <2>3, <3>6
  <2>4. CASE k = n /\ m \in DOMAIN settled
    <3> DEFINE d == settled[m].distance
               w == Weight(n, m)
               o == settled[m].origin
               c == Stretch(q.goal)
    <3>1. /\ d \in Nat /\ o \in Int /\ m \in NetNodes /\ c \in Nat \ {0} /\ Lift(m, q.goal) \in Nat
          /\ SettledPriority(m, q.goal) = c * d + Lift(m, q.goal)
      BY <1>1, <1>3, <2>4, SettledIs
    <3>2. m \in Adjacent(n) /\ w \in Nat \ {0}
      BY <1>1, <2>4, RoadsAre DEF RoadBetween
    <3>3. PriorityFits(q.goal)
      BY <1>5, PriorityIs
    <3>4. /\ Lift(n, q.goal) \in Nat /\ Lift(n, q.goal) <= Lift(m, q.goal) + c * w
          /\ e[1] = c * e[2] + Lift(n, q.goal)
          /\ q.goal = 0 => c = 1 /\ Lift(n, q.goal) = 0 /\ Lift(m, q.goal) = 0
      BY <1>1, <3>1, <3>2, <3>3 DEF PriorityFits
    <3>5. NoLater(q.goal, SettledPriority(m, q.goal), o, e[1], e[3])
      BY <2>4, PoppedFits DEF Ripe, PopInv, HeapIsLater
    <3>6. c * (e[2] + w) = c * e[2] + c * w /\ c * d \in Nat /\ c * e[2] \in Nat /\ c * w \in Nat
      BY <1>1, <3>1, <3>2
    <3>7. c * d <= c * (e[2] + w)
      <4> HIDE DEF c, d, w
      <4>1. c * d + Lift(m, q.goal) <= c * e[2] + Lift(n, q.goal)
        BY <1>1, <3>1, <3>4, <3>5, <3>6 DEF NoLater
      <4> QED BY <3>1, <3>4, <3>6, <4>1
    <3>8. d <= e[2] + w
      <4> HIDE DEF c, d, w
      <4>1. e[2] + w \in Nat
        BY <1>1, <3>2
      <4> QED BY <3>1, <3>7, <4>1, TimesCancels
    <3>9. q.goal = 0 => d < e[2] + w
      <4>1. SUFFICES ASSUME q.goal = 0 PROVE d < e[2] + w
        OBVIOUS
      <4>2. c * d = d /\ c * e[2] = e[2]
        BY <1>1, <3>1, <3>4, <4>1
      <4>3. d <= e[2]
        <5> HIDE DEF c, d, w
        <5> QED BY <1>1, <3>1, <3>4, <3>5, <4>1, <4>2 DEF NoLater
      <4> HIDE DEF c, d, w
      <4> QED BY <1>1, <3>1, <3>2, <4>3
    <3>10. NoLater(q.goal, d, o, e[2] + w, e[3])
      <4> HIDE DEF c, d, w
      <4> QED BY <1>1, <3>1, <3>2, <3>8, <3>9 DEF NoLater
    <3> QED BY <1>2, <2>4, <3>10
  <2> QED BY <1>2, <2>1, <2>2, <2>3, <2>4
<1> HIDE DEF n
<1> QED BY <1>4, <1>5, <1>6, <1>7, <1>8 DEF SettledFit

\* The step that gives the nodes of T, neighbours of the settled one, a better entry.
Improved(e, T) ==
  /\ T \subseteq Adjacent(e[4]) \ (DOMAIN settled \cup {e[4]})
  /\ DOMAIN tentative' = T \cup DOMAIN tentative
  /\ \A m \in T : /\ tentative'[m] = <<e[2] + Weight(e[4], m), e[3], e[4]>>
                  /\ e[2] + Weight(e[4], m) <= net.reach
                  /\ m \in DOMAIN tentative => Precedes(<<e[2] + Weight(e[4], m), e[3], e[4]>>, tentative[m])
  /\ \A m \in DOMAIN tentative \ T : tentative'[m] = tentative[m]

LEMMA ImprovedIs ==
  ASSUME net \in AccessCases, NEW q, NEW e, Ripe(q, e), SettlesAs(e), NEW T, Improved(e, T), NEW m \in T
  PROVE /\ m \in Adjacent(e[4]) /\ m \in NetNodes /\ m \notin DOMAIN settled /\ m # e[4]
        /\ Weight(e[4], m) \in Nat \ {0} /\ Weight(m, e[4]) = Weight(e[4], m)
        /\ e[2] + Weight(e[4], m) \in 0..net.reach /\ e[2] + Weight(e[4], m) \in Nat
        /\ tentative'[m] \in Triples /\ tentative'[m][1] = e[2] + Weight(e[4], m)
        /\ tentative'[m][2] = e[3] /\ tentative'[m][3] = e[4]
<1>1. m \in Adjacent(e[4]) /\ m \notin DOMAIN settled /\ m # e[4]
  BY DEF Improved
<1>2. e[4] \in NetNodes /\ e[4] \in Int /\ e[2] \in Nat /\ e[3] \in Int /\ net.reach \in Nat
  <2>1. NetNodes \subseteq Int
    BY NetIs
  <2> QED BY <2>1, RipeIs
<1>3. m \in NetNodes /\ Weight(e[4], m) \in Nat \ {0} /\ Weight(m, e[4]) = Weight(e[4], m)
  BY <1>1, <1>2, RoadsAre DEF RoadBetween
<1>4. e[2] + Weight(e[4], m) <= net.reach /\ tentative'[m] = <<e[2] + Weight(e[4], m), e[3], e[4]>>
  BY DEF Improved
<1> QED BY <1>1, <1>2, <1>3, <1>4 DEF Triples

LEMMA TentativeGrows ==
  ASSUME net \in AccessCases, NEW q, NEW e, Ripe(q, e), SettlesAs(e), NEW T, Improved(e, T)
  PROVE TentativeInv(q)'
<1> DEFINE n == e[4]
<1>1. /\ n \in NetNodes \ DOMAIN settled /\ n \in DOMAIN tentative /\ tentative[n] = <<e[2], e[3], e[5]>>
      /\ e[2] \in Nat /\ e[3] \in q.from /\ e[3] \in Int /\ Metric[e[3]][n] <= e[2]
  BY RipeIs
<1>2. /\ DOMAIN settled' = DOMAIN settled \cup {n}
      /\ settled'[n] = [distance |-> e[2], origin |-> e[3], parent |-> e[5]]
      /\ settled'[n].distance = e[2] /\ settled'[n].origin = e[3]
      /\ \A k \in DOMAIN settled : settled'[k] = settled[k]
  BY <1>1, SettledNow
<1>3. TentativeInv(q) /\ SettledFit(q)
  BY DEF Ripe, PopInv, SettlingInv
<1>4. /\ net' = net /\ NetNodes' = NetNodes /\ Metric' = Metric /\ (\A k : Adjacent(k)' = Adjacent(k))
      /\ (\A k, m : Weight(k, m)' = Weight(k, m))
  BY NetKept DEF SettlesAs
<1>5. DOMAIN tentative' = T \cup DOMAIN tentative /\ \A m \in DOMAIN tentative \ T : tentative'[m] = tentative[m]
  BY DEF Improved
<1>6. n \notin T /\ T \cap DOMAIN settled = {} /\ T \subseteq NetNodes
  BY ImprovedIs
<1>7. DOMAIN tentative' \subseteq NetNodes /\ DOMAIN settled' \subseteq DOMAIN tentative'
  BY <1>1, <1>2, <1>3, <1>5, <1>6 DEF TentativeInv
<1>8. ASSUME NEW m \in T PROVE TentativeFits(q, m)'
  <2> DEFINE w == Weight(n, m)
  <2>1. /\ m \in Adjacent(n) /\ m \in NetNodes /\ w \in Nat \ {0}
        /\ e[2] + w \in 0..net.reach /\ e[2] + w \in Nat
        /\ tentative'[m] \in Triples /\ tentative'[m][1] = e[2] + w /\ tentative'[m][2] = e[3] /\ tentative'[m][3] = n
    BY ImprovedIs
  <2>2. n # 0
    BY <1>1, NetIs
  <2>3. Metric[e[3]][m] <= e[2] + w
    <3>1. e[3] \in NetNodes
      BY <1>1, <1>3 DEF SettledFit
    <3>2. /\ Metric[e[3]][m] \in Nat /\ Metric[e[3]][n] \in Nat /\ Metric[n][m] \in Nat
          /\ Metric[n][m] <= DirectWays[n][m] /\ Metric[e[3]][m] <= Metric[e[3]][n] + Metric[n][m]
      <4>1. MetricTo(Metric, Len(net.at)) /\ NetNodes = 1..Len(net.at)
        BY MetricIs, NetIs
      <4> QED BY <1>1, <2>1, <3>1, <4>1 DEF MetricTo
    <3>3. DirectWays[n][m] = w
      <4>1. n # m
        BY <1>6
      <4> QED BY <1>1, <2>1, <4>1, DirectIs
    <3> HIDE DEF w, n
    <3> QED BY <1>1, <2>1, <3>2, <3>3
  <2> HIDE DEF w, n
  <2>4. settled'[n].distance + w = e[2] + w /\ n \in DOMAIN settled'
    BY <1>2
  <2> QED BY <1>1, <1>2, <1>4, <2>1, <2>2, <2>3, <2>4 DEF TentativeFits, w
<1>9. ASSUME NEW m \in DOMAIN tentative \ T PROVE TentativeFits(q, m)'
  <2>1. TentativeFits(q, m) /\ tentative'[m] = tentative[m]
    BY <1>3, <1>5 DEF TentativeInv
  <2>2. \A k \in DOMAIN settled : k \in DOMAIN settled' /\ settled'[k] = settled[k]
    BY <1>2
  <2> QED BY <1>4, <2>1, <2>2 DEF TentativeFits
<1>10. ASSUME NEW s \in q.from PROVE s \in DOMAIN tentative' /\ tentative'[s] = <<0, s, 0>>
  <2>1. s \in DOMAIN tentative /\ tentative[s] = <<0, s, 0>> /\ s \in Int
    BY <1>3, PoppedFits DEF TentativeInv, Ripe
  <2>2. s \notin T
    <3>1. SUFFICES ASSUME s \in T PROVE FALSE
      OBVIOUS
    <3> DEFINE b == <<e[2] + Weight(n, s), e[3], n>>
    <3>2. Weight(n, s) \in Nat \ {0} /\ e[2] + Weight(n, s) \in Nat /\ tentative'[s] \in Triples
      BY <3>1, ImprovedIs
    <3>3. Precedes(b, <<0, s, 0>>) /\ b = tentative'[s]
      BY <2>1, <3>1 DEF Improved
    <3>4. b \in Triples /\ <<0, s, 0>> \in Triples
      BY <2>1, <3>2, <3>3 DEF Triples
    <3>5. b[1] <= 0
      <4> DEFINE z == <<0, s, 0>>
      <4>1. z[1] = 0
        OBVIOUS
      <4>2. b[1] < z[1] \/ b[1] = z[1]
        <5> HIDE DEF b, z
        <5> QED BY <3>3, <3>4, TripleOrder DEF z
      <4>3. b[1] \in Int
        BY <3>4 DEF Triples
      <4> HIDE DEF b, z
      <4> QED BY <4>1, <4>2, <4>3
    <3>6. b[1] = e[2] + Weight(n, s)
      OBVIOUS
    <3> HIDE DEF b
    <3> QED BY <1>1, <3>2, <3>5, <3>6
  <2> QED BY <1>5, <2>1, <2>2
<1>11. ASSUME NEW k \in DOMAIN settled'
       PROVE settled'[k] = [distance |-> tentative'[k][1], origin |-> tentative'[k][2], parent |-> tentative'[k][3]]
  <2>1. k \in DOMAIN tentative /\ k \notin T
    BY <1>1, <1>2, <1>3, <1>6 DEF TentativeInv
  <2>2. tentative'[k] = tentative[k]
    BY <1>5, <2>1
  <2>3. CASE k = n
    BY <1>1, <1>2, <2>2, <2>3
  <2>4. CASE k # n
    BY <1>2, <1>3, <2>2, <2>4 DEF TentativeInv
  <2> QED BY <2>3, <2>4
<1> HIDE DEF n
<1>12. \A m \in DOMAIN tentative' : TentativeFits(q, m)'
  BY <1>5, <1>8, <1>9
<1> QED BY <1>4, <1>7, <1>10, <1>11, <1>12 DEF TentativeInv

\* The first search that ends at its last target ends with it as the last.
LEMMA LastSettled ==
  ASSUME net \in AccessCases, NEW q, NEW e, Ripe(q, e), SettlesAs(e)
  PROVE LastIs(q, e[4])'
<1> DEFINE n == e[4]
<1>1. /\ n \in NetNodes \ DOMAIN settled /\ e[2] \in Nat /\ e[3] \in Int /\ e[1] \in Int
      /\ e[1] = Priority(n, e[2], q.goal) /\ net.reach \in Nat
  BY RipeIs
<1>2. /\ DOMAIN settled' = DOMAIN settled \cup {n}
      /\ settled'[n].distance = e[2] /\ settled'[n].origin = e[3]
      /\ \A k \in DOMAIN settled : settled'[k] = settled[k]
      /\ SettledPriority(n, q.goal)' = e[1]
  BY <1>1, SettledNow
<1>3. SettledFit(q) /\ TentativeInv(q) /\ FrontierInv(q) /\ RoadsCovered /\ q.goal \in {0} \cup NetNodes
  BY DEF Ripe, PopInv, SettlingInv, SettledFit
<1>4. /\ net' = net /\ (\A k : Adjacent(k)' = Adjacent(k)) /\ (\A k, m : Weight(k, m)' = Weight(k, m))
      /\ (\A k, d, g : Priority(k, d, g)' = Priority(k, d, g))
  BY NetKept DEF SettlesAs
<1>5. \A k \in DOMAIN settled' : NoLater(q.goal, SettledPriority(k, q.goal)', settled'[k].origin, e[1], e[3])
  BY RipeIsLast
<1>6. \A x \in frontier : NoLater(q.goal, e[1], e[3], x[1], x[3])
  BY PoppedFits DEF Ripe
<1>7. ASSUME NEW k \in DOMAIN settled', NEW m \in Adjacent(k) \ DOMAIN settled'
      PROVE \/ settled'[k].distance + Weight(k, m) > net.reach
            \/ NoLater(q.goal, e[1], e[3], Priority(m, settled'[k].distance + Weight(k, m), q.goal), settled'[k].origin)
  <2>1. CASE k = n
    <3>1. NoLater(q.goal, Priority(n, e[2], q.goal), e[3], Priority(m, e[2] + Weight(n, m), q.goal), e[3])
      BY <1>1, <1>3, <2>1, RoadIsLater
    <3> QED BY <1>1, <1>2, <2>1, <3>1
  <2>2. CASE k # n
    <3> DEFINE d == settled[k].distance
               o == settled[k].origin
               w == Weight(k, m)
               t == tentative[m]
    <3>1. k \in DOMAIN settled /\ settled'[k] = settled[k] /\ m \in Adjacent(k) \ DOMAIN settled
      BY <1>2, <2>2
    <3>2. d \in Nat /\ o \in Int /\ k \in NetNodes
      BY <1>3, <3>1, SettledIs, RipeIs
    <3>3. m \in NetNodes /\ w \in Nat /\ d + w \in Nat
      BY <3>1, <3>2, RoadsAre DEF RoadBetween
    <3>4. CASE d + w > net.reach
      BY <3>1, <3>4
    <3>5. CASE m \in DOMAIN tentative /\ NoLater(0, t[1], t[2], d + w, o)
      <4>1. t[1] \in Nat /\ t[2] \in Int /\ t \in Triples
        <5>1. TentativeFits(q, m) /\ net.reach \in Nat
          BY <1>1, <1>3, <3>5 DEF TentativeInv
        <5>2. t \in Triples /\ t[1] \in 0..net.reach
          BY <5>1 DEF TentativeFits
        <5> QED BY <5>1, <5>2 DEF Triples
      <4> DEFINE x == EntryOf(q, m)
                 a == Priority(m, t[1], q.goal)
                 b == Priority(m, d + w, q.goal)
      <4>2. x \in frontier /\ x[1] = a /\ x[3] = t[2] /\ EntryFits(q, x)
        BY <1>3, <3>1, <3>5, EntryOfIs
      <4>3. NoLater(q.goal, e[1], e[3], a, t[2])
        BY <1>6, <4>2
      <4>4. NoLater(q.goal, a, t[2], b, o)
        <5> HIDE DEF d, w, o, t
        <5> QED BY <1>3, <3>2, <3>3, <3>5, <4>1, PriorityKeepsOrder
      <4>5. a \in Int /\ b \in Int
        <5>1. PriorityFits(q.goal)
          BY <1>3, PriorityIs
        <5>2. /\ a = Stretch(q.goal) * t[1] + Lift(m, q.goal) /\ b = Stretch(q.goal) * (d + w) + Lift(m, q.goal)
              /\ Stretch(q.goal) \in Nat /\ Lift(m, q.goal) \in Nat
          BY <3>3, <4>1, <5>1 DEF PriorityFits
        <5> HIDE DEF d, w, t, a, b
        <5> QED BY <3>3, <4>1, <5>2
      <4>6. NoLater(q.goal, e[1], e[3], b, o)
        <5> HIDE DEF d, w, o, t, a, b
        <5> QED BY <1>1, <3>2, <4>1, <4>3, <4>4, <4>5, NoLaterIsOrder
      <4> QED BY <3>1, <4>6
    <3>6. d + w > net.reach \/ (m \in DOMAIN tentative /\ NoLater(0, t[1], t[2], d + w, o))
      BY <1>3, <3>1 DEF RoadsCovered
    <3> QED BY <3>4, <3>5, <3>6
  <2> QED BY <2>1, <2>2
<1>8. ASSUME NEW s \in q.from \ DOMAIN settled' PROVE NoLater(q.goal, e[1], e[3], Priority(s, 0, q.goal), s)
  <2>1. s \in DOMAIN tentative \ DOMAIN settled /\ tentative[s] = <<0, s, 0>>
    BY <1>2, <1>3 DEF TentativeInv
  <2>2. EntryOf(q, s) \in frontier /\ EntryOf(q, s)[1] = Priority(s, 0, q.goal) /\ EntryOf(q, s)[3] = s
    BY <1>3, <2>1, EntryOfIs
  <2> QED BY <1>6, <2>2
<1> HIDE DEF n
<1> QED BY <1>1, <1>2, <1>4, <1>5, <1>7, <1>8 DEF LastIs, n

\* What the neighbours of the settled node T leaves out lack.
LeavesOut(e, T) ==
  \A m \in Adjacent(e[4]) \ (DOMAIN settled \cup {e[4]} \cup T) :
    \/ e[2] + Weight(e[4], m) > net.reach
    \/ m \in DOMAIN tentative /\ ~Precedes(<<e[2] + Weight(e[4], m), e[3], e[4]>>, tentative[m])
Pushes(q, e, T) ==
  frontier' = (frontier \ {e})
                \cup {<<Priority(m, e[2] + Weight(e[4], m), q.goal), e[2] + Weight(e[4], m), e[3], m, e[4]>> : m \in T}

LEMMA HeapGrows ==
  ASSUME net \in AccessCases, NEW q, NEW e, Ripe(q, e), SettlesAs(e), NEW T, Improved(e, T), Pushes(q, e, T)
  PROVE FrontierInv(q)'
<1> DEFINE n == e[4]
           F(m) == <<Priority(m, e[2] + Weight(n, m), q.goal), e[2] + Weight(n, m), e[3], m, n>>
           new == {F(m) : m \in T}
<1>1. frontier' = (frontier \ {e}) \cup new
  BY DEF Pushes
<1>2. FrontierInv(q) /\ TentativeInv(q) /\ SettledFit(q) /\ q.goal \in {0} \cup NetNodes
  BY DEF Ripe, PopInv, SettlingInv, SettledFit
<1>3. /\ n \in NetNodes \ DOMAIN settled /\ n \in Int /\ e[2] \in Nat /\ e[3] \in q.from /\ e[3] \in Int
  <2>1. NetNodes \subseteq Int
    BY NetIs
  <2> QED BY <2>1, RipeIs
<1>4. DOMAIN settled' = DOMAIN settled \cup {n}
  BY <1>3, SettledNow
<1>5. net' = net /\ \A k, d, g : Priority(k, d, g)' = Priority(k, d, g)
  BY NetKept DEF SettlesAs
<1>6. /\ DOMAIN tentative' = T \cup DOMAIN tentative /\ T \subseteq NetNodes
      /\ \A m \in DOMAIN tentative \ T : tentative'[m] = tentative[m]
  BY ImprovedIs DEF Improved
<1>7. IsFiniteSet(frontier')
  <2>1. IsFiniteSet(T)
    BY <1>6, NetIs, FS_Subset
  <2>2. IsFiniteSet(new)
    <3> DEFINE f == [m \in T |-> F(m)]
    <3>1. {f[m] : m \in T} = new
      OBVIOUS
    <3>2. IsFiniteSet({f[m] : m \in T})
      <4> HIDE DEF f
      <4> QED BY <2>1, ImageFinite
    <3> QED BY <3>1, <3>2
  <2>3. IsFiniteSet(frontier \ {e})
    <3>1. IsFiniteSet(frontier) /\ frontier \ {e} \in SUBSET frontier
      BY <1>2 DEF FrontierInv
    <3> QED BY <3>1, FS_Subset
  <2> HIDE DEF new
  <2> QED BY <1>1, <2>2, <2>3, FS_Union
<1>8. ASSUME NEW m \in T, NEW x, x = F(m)
      PROVE /\ EntryFits(q, x)' /\ EntryOf(q, m)' = x
  <2> DEFINE w == Weight(n, m)
  <2>1. /\ m \in NetNodes /\ e[2] + w \in Nat
        /\ tentative'[m] \in Triples /\ tentative'[m][1] = e[2] + w /\ tentative'[m][2] = e[3] /\ tentative'[m][3] = n
    BY ImprovedIs
  <2>2. /\ x = <<Priority(m, e[2] + w, q.goal), e[2] + w, e[3], m, n>>
        /\ x[1] = Priority(m, e[2] + w, q.goal) /\ x[2] = e[2] + w /\ x[3] = e[3] /\ x[4] = m
    BY <1>8
  <2> HIDE DEF n, w
  <2>3. Priority(m, e[2] + w, q.goal) \in Int
    <3>1. PriorityFits(q.goal)
      BY <1>2, PriorityIs
    <3>2. /\ Priority(m, e[2] + w, q.goal) = Stretch(q.goal) * (e[2] + w) + Lift(m, q.goal)
          /\ Stretch(q.goal) \in Nat /\ Lift(m, q.goal) \in Nat
      BY <2>1, <3>1 DEF PriorityFits
    <3> QED BY <2>1, <3>2
  <2>4. x \in HeapEntries
    <3>1. m \in Int /\ e[2] + w \in Int
      <4>1. NetNodes \subseteq Int
        BY NetIs
      <4> QED BY <2>1, <4>1
    <3> QED BY <1>3, <2>2, <2>3, <3>1 DEF HeapEntries
  <2>5. EntryFits(q, x)'
    <3>1. x[4] \in DOMAIN tentative'
      BY <1>6, <2>2
    <3>2. Priority(m, e[2] + w, q.goal)' = Priority(m, e[2] + w, q.goal)'
      OBVIOUS
    <3>3. Priority(x[4], x[2], q.goal)' = Priority(x[4], x[2], q.goal)
      BY <1>5
    <3> QED BY <1>3, <2>1, <2>2, <2>4, <3>1, <3>3 DEF EntryFits
  <2>6. EntryOf(q, m)' = x
    <3>1. EntryOf(q, m)' = <<Priority(m, tentative'[m][1], q.goal), tentative'[m][1], tentative'[m][2], m, tentative'[m][3]>>
      BY <1>5 DEF EntryOf
    <3> QED BY <2>1, <2>2, <3>1
  <2> QED BY <2>5, <2>6
<1>9. \A x \in new : EntryFits(q, x)'
  <2> TAKE x \in new
  <2>1. PICK m \in T : x = F(m)
    OBVIOUS
  <2> HIDE DEF F
  <2> QED BY <1>8, <2>1
<1>10. \A m \in T : EntryOf(q, m)' \in new
  <2> TAKE m \in T
  <2>1. F(m) \in new
    OBVIOUS
  <2> HIDE DEF F, new
  <2> QED BY <1>8, <2>1
<1>11. \A x \in frontier : EntryFits(q, x)'
  BY <1>2, <1>5, <1>6 DEF FrontierInv, EntryFits
<1>12. ASSUME NEW m \in DOMAIN tentative' \ DOMAIN settled' PROVE EntryOf(q, m)' \in frontier'
  <2>1. CASE m \in T
    <3> HIDE DEF new
    <3> QED BY <1>1, <1>10, <2>1
  <2>2. CASE m \notin T
    <3>1. m \in DOMAIN tentative \ DOMAIN settled /\ m # n /\ tentative'[m] = tentative[m]
      BY <1>4, <1>6, <2>2
    <3>2. EntryOf(q, m)' = EntryOf(q, m)
      BY <1>5, <3>1 DEF EntryOf
    <3>3. EntryOf(q, m) \in frontier /\ EntryOf(q, m)[4] = m
      BY <1>2, <3>1, EntryOfIs
    <3> HIDE DEF new
    <3> QED BY <1>1, <3>1, <3>2, <3>3
  <2> QED BY <2>1, <2>2
<1> HIDE DEF new
<1>13. \A x \in frontier' : EntryFits(q, x)'
  BY <1>1, <1>9, <1>11
<1> QED BY <1>7, <1>12, <1>13 DEF FrontierInv

LEMMA CoveredStill ==
  ASSUME net \in AccessCases, NEW q, NEW e, Ripe(q, e), SettlesAs(e), NEW T, Improved(e, T), LeavesOut(e, T)
  PROVE RoadsCovered'
<1> DEFINE n == e[4]
<1>1. /\ n \in NetNodes \ DOMAIN settled /\ n \in Int /\ e[2] \in Nat /\ e[3] \in Int /\ net.reach \in Nat
  <2>1. NetNodes \subseteq Int
    BY NetIs
  <2> QED BY <2>1, RipeIs
<1>2. /\ DOMAIN settled' = DOMAIN settled \cup {n}
      /\ settled'[n].distance = e[2] /\ settled'[n].origin = e[3]
      /\ \A k \in DOMAIN settled : settled'[k] = settled[k]
  BY <1>1, SettledNow
<1>3. SettledFit(q) /\ TentativeInv(q) /\ RoadsCovered
  BY DEF Ripe, PopInv, SettlingInv
<1>4. /\ net' = net /\ (\A k : Adjacent(k)' = Adjacent(k)) /\ (\A k, m : Weight(k, m)' = Weight(k, m))
  BY NetKept DEF SettlesAs
<1>5. /\ DOMAIN tentative' = T \cup DOMAIN tentative
      /\ \A m \in DOMAIN tentative \ T : tentative'[m] = tentative[m]
  BY DEF Improved
<1>6. ASSUME NEW m \in DOMAIN tentative PROVE tentative[m] \in Triples /\ tentative[m][1] \in Int /\ tentative[m][2] \in Int
  <2>1. tentative[m] \in Triples
    BY <1>3 DEF TentativeInv, TentativeFits
  <2> QED BY <2>1 DEF Triples
<1>7. ASSUME NEW k \in DOMAIN settled', NEW m \in Adjacent(k) \ DOMAIN settled'
      PROVE \/ settled'[k].distance + Weight(k, m) > net.reach
            \/ /\ m \in DOMAIN tentative'
               /\ NoLater(0, tentative'[m][1], tentative'[m][2], settled'[k].distance + Weight(k, m), settled'[k].origin)
  <2> DEFINE d == settled'[k].distance
             o == settled'[k].origin
             w == Weight(k, m)
             t == tentative[m]
             u == tentative'[m]
  <2>0. d \in Nat /\ o \in Int /\ k \in NetNodes
    <3>1. CASE k = n
      BY <1>1, <1>2, <3>1
    <3>2. CASE k # n
      BY <1>1, <1>2, <1>3, <3>2, SettledIs, RipeIs
    <3> QED BY <3>1, <3>2
  <2>1. w \in Nat /\ d + w \in Nat /\ m # n /\ m \notin DOMAIN settled
    BY <1>2, <2>0, RoadsAre DEF RoadBetween
  <2>2. CASE m \in T
    <3>1. u \in Triples /\ u[1] = e[2] + Weight(n, m) /\ u[2] = e[3] /\ u[1] \in Int /\ u[2] \in Int
      BY <1>1, <2>2, ImprovedIs
    <3>2. CASE k = n
      <4>1. NoLater(0, u[1], u[2], d + w, o)
        BY <1>2, <3>1, <3>2, NoLaterIsOrder
      <4> QED BY <1>5, <2>2, <4>1
    <3>3. CASE k # n
      <4>1. k \in DOMAIN settled /\ settled'[k] = settled[k] /\ m \in Adjacent(k) \ DOMAIN settled
        BY <1>2, <2>1, <3>3
      <4>2. d + w > net.reach \/ (m \in DOMAIN tentative /\ NoLater(0, t[1], t[2], d + w, o))
        BY <1>3, <4>1 DEF RoadsCovered
      <4>3. CASE m \in DOMAIN tentative /\ NoLater(0, t[1], t[2], d + w, o)
        <5>1. Precedes(u, t)
          BY <2>2, <4>3 DEF Improved
        <5>2. t \in Triples /\ t[1] \in Int /\ t[2] \in Int
          BY <1>6, <4>3
        <5>3. NoLater(0, u[1], u[2], t[1], t[2])
          <6> HIDE DEF u, t
          <6> QED BY <3>1, <5>1, <5>2, TripleOrder DEF NoLater
        <5>4. NoLater(0, u[1], u[2], d + w, o)
          <6> HIDE DEF u, t, d, w, o
          <6> QED BY <2>0, <2>1, <3>1, <4>3, <5>2, <5>3, NoLaterIsOrder
        <5> QED BY <1>5, <2>2, <5>4
      <4> QED BY <4>2, <4>3
    <3> QED BY <3>2, <3>3
  <2>3. CASE m \notin T
    <3>1. CASE k = n
      <4>1. d = e[2] /\ o = e[3] /\ m \in Adjacent(n)
        BY <1>2, <3>1
      <4>2. d + w > net.reach \/ (m \in DOMAIN tentative /\ ~Precedes(<<d + w, o, n>>, t))
        BY <2>1, <2>3, <3>1, <4>1 DEF LeavesOut
      <4>3. CASE m \in DOMAIN tentative /\ ~Precedes(<<d + w, o, n>>, t)
        <5> DEFINE b == <<d + w, o, n>>
        <5>1. t \in Triples /\ t[1] \in Int /\ t[2] \in Int
          BY <1>6, <4>3
        <5>2. b \in Triples /\ b[1] = d + w /\ b[2] = o
          BY <1>1, <2>0, <2>1 DEF Triples
        <5>3. ~Precedes(b, t)
          BY <4>3
        <5>4. NoLater(0, t[1], t[2], b[1], b[2])
          <6>1. b[1] \in Int /\ b[2] \in Int
            BY <2>0, <2>1, <5>2
          <6> HIDE DEF b, t, d, w, o
          <6> QED BY <5>1, <5>2, <5>3, <6>1, TripleOrder DEF NoLater
        <5>5. u = t
          BY <1>5, <2>3, <4>3
        <5> QED BY <1>5, <4>3, <5>2, <5>4, <5>5
      <4> QED BY <4>2, <4>3
    <3>2. CASE k # n
      <4>1. k \in DOMAIN settled /\ settled'[k] = settled[k] /\ m \in Adjacent(k) \ DOMAIN settled
        BY <1>2, <2>1, <3>2
      <4>2. d + w > net.reach \/ (m \in DOMAIN tentative /\ NoLater(0, t[1], t[2], d + w, o))
        BY <1>3, <4>1 DEF RoadsCovered
      <4> QED BY <1>5, <2>3, <4>2
    <3> QED BY <3>1, <3>2
  <2> QED BY <2>2, <2>3
<1> HIDE DEF n
<1> QED BY <1>4, <1>7 DEF RoadsCovered

LEMMA HeapStaysLater ==
  ASSUME net \in AccessCases, NEW q, NEW e, Ripe(q, e), SettlesAs(e), NEW T, Improved(e, T), Pushes(q, e, T)
  PROVE HeapIsLater(q)'
<1> DEFINE n == e[4]
<1>1. /\ n \in NetNodes \ DOMAIN settled /\ e[2] \in Nat /\ e[3] \in Int /\ e[1] \in Int
      /\ e[1] = Priority(n, e[2], q.goal)
  BY RipeIs
<1>2. /\ DOMAIN settled' = DOMAIN settled \cup {n}
      /\ \A k \in DOMAIN settled : settled'[k] = settled[k]
      /\ settled'[n].origin = e[3]
  BY <1>1, SettledNow
<1>3. /\ \A k \in DOMAIN settled : SettledPriority(k, q.goal)' = SettledPriority(k, q.goal)
      /\ SettledPriority(n, q.goal)' = e[1]
  BY <1>1, SettledNow
<1>4. SettledFit(q) /\ HeapIsLater(q) /\ q.goal \in {0} \cup NetNodes
  BY DEF Ripe, PopInv, SettlingInv, SettledFit
<1>5. \A k \in DOMAIN settled' : NoLater(q.goal, SettledPriority(k, q.goal)', settled'[k].origin, e[1], e[3])
  BY RipeIsLast
<1>6. \A x \in frontier : NoLater(q.goal, e[1], e[3], x[1], x[3])
  BY PoppedFits DEF Ripe
<1>7. ASSUME NEW k \in DOMAIN settled', NEW x \in frontier'
      PROVE NoLater(q.goal, SettledPriority(k, q.goal)', settled'[k].origin, x[1], x[3])
  <2>1. CASE x \in frontier
    <3>1. CASE k = n
      BY <1>2, <1>3, <1>6, <2>1, <3>1
    <3>2. CASE k # n
      BY <1>2, <1>3, <1>4, <2>1, <3>2 DEF HeapIsLater
    <3> QED BY <3>1, <3>2
  <2>2. CASE x \notin frontier
    <3>1. PICK m \in T : x = <<Priority(m, e[2] + Weight(n, m), q.goal), e[2] + Weight(n, m), e[3], m, n>>
      BY <2>2 DEF Pushes
    <3> DEFINE p == SettledPriority(k, q.goal)'
               o == settled'[k].origin
               r == Priority(m, e[2] + Weight(n, m), q.goal)
    <3>2. x[1] = r /\ x[3] = e[3] /\ m \in Adjacent(n)
      BY <3>1, ImprovedIs
    <3>3. NoLater(q.goal, e[1], e[3], r, e[3]) /\ r \in Int
      <4>1. NoLater(q.goal, Priority(n, e[2], q.goal), e[3], r, e[3]) /\ r \in Int
        BY <1>1, <1>4, <3>2, RoadIsLater
      <4> QED BY <1>1, <4>1
    <3>4. p \in Int /\ o \in Int
      <4>1. CASE k = n
        BY <1>1, <1>2, <1>3, <4>1
      <4>2. CASE k # n
        <5>1. k \in DOMAIN settled
          BY <1>2, <4>2
        <5>2. SettledPriority(k, q.goal) \in Int /\ settled[k].origin \in Int
          BY <1>4, <5>1, SettledIs, RipeIs
        <5> QED BY <1>2, <1>3, <5>1, <5>2
      <4> QED BY <4>1, <4>2
    <3>5. NoLater(q.goal, p, o, e[1], e[3])
      BY <1>5
    <3> HIDE DEF p, o, r
    <3>6. NoLater(q.goal, p, o, r, e[3])
      BY <1>1, <3>3, <3>4, <3>5, NoLaterIsOrder
    <3> QED BY <3>2, <3>6 DEF p, o
  <2> QED BY <2>1, <2>2
<1> QED BY <1>7 DEF HeapIsLater

\* What PopSettle does besides: it ends the search at its last target, or goes on.
LEMMA RelaxedIs ==
  ASSUME net \in AccessCases, NEW q, NEW e, Ripe(q, e), NEW T, T = DOMAIN Relaxed(e[4], e[2], e[3])
  PROVE /\ T \subseteq Adjacent(e[4]) \ (DOMAIN settled \cup {e[4]}) /\ LeavesOut(e, T)
        /\ \A m \in T : /\ Relaxed(e[4], e[2], e[3])[m] = <<e[2] + Weight(e[4], m), e[3], e[4]>>
                        /\ e[2] + Weight(e[4], m) <= net.reach
                        /\ m \in DOMAIN tentative => Precedes(<<e[2] + Weight(e[4], m), e[3], e[4]>>, tentative[m])
<1> DEFINE E(m) == <<e[2] + Weight(e[4], m), e[3], e[4]>>
<1>1. \A m : E(m)[1] = e[2] + Weight(e[4], m)
  OBVIOUS
<1>2. Relaxed(e[4], e[2], e[3]) = [m \in {m \in Adjacent(e[4]) \ (DOMAIN settled \cup {e[4]}) :
                     E(m)[1] <= net.reach /\ Improves(m, E(m))} |-> E(m)]
  BY DEF Relaxed
<1>3. T = {m \in Adjacent(e[4]) \ (DOMAIN settled \cup {e[4]}) :
                     E(m)[1] <= net.reach /\ Improves(m, E(m))}
      /\ \A m \in T : Relaxed(e[4], e[2], e[3])[m] = E(m)
  <2> HIDE DEF E
  <2> QED BY <1>2
<1>4. T \subseteq Adjacent(e[4]) \ (DOMAIN settled \cup {e[4]})
  BY <1>3
<1>5. \A m \in T : e[2] + Weight(e[4], m) <= net.reach /\ (m \in DOMAIN tentative => Precedes(E(m), tentative[m]))
  <2> HIDE DEF E
  <2> QED BY <1>1, <1>3 DEF Improves
<1>6. ASSUME NEW m \in Adjacent(e[4]) \ (DOMAIN settled \cup {e[4]} \cup T)
      PROVE \/ e[2] + Weight(e[4], m) > net.reach
            \/ m \in DOMAIN tentative /\ ~Precedes(E(m), tentative[m])
  <2>1. e[4] \in NetNodes /\ e[2] \in Nat /\ net.reach \in Nat
    BY RipeIs
  <2>2. Weight(e[4], m) \in Nat
    BY <2>1, RoadsAre DEF RoadBetween
  <2>3. e[2] + Weight(e[4], m) > net.reach \/ e[2] + Weight(e[4], m) <= net.reach
    BY <2>1, <2>2
  <2>4. E(m)[1] = e[2] + Weight(e[4], m)
    BY <1>1
  <2>5. ~(E(m)[1] <= net.reach /\ Improves(m, E(m)))
    <3> HIDE DEF E
    <3> QED BY <1>3
  <2> HIDE DEF E
  <2> QED BY <2>3, <2>4, <2>5 DEF Improves
<1>7. LeavesOut(e, T)
  BY <1>6 DEF LeavesOut
<1> QED BY <1>3, <1>4, <1>5, <1>7

\* PopSettle: it ends the search at its last target, or goes on.
LEMMA SettleSteps ==
  ASSUME net \in AccessCases, NEW q, q = Head(searches), PopInv(q), PopSettle
  PROVE \/ Refused /\ net.maxVisited < Len(net.at)
        \/ /\ SettlingInv(q)' /\ searches' = searches
           /\ \/ access' = "answer" /\ (\E top : LastIs(q, top)') /\ q.to \subseteq DOMAIN settled'
              \/ access' = access /\ PopInv(q)'
<1>0. PICK e : e = PoppedEntry
  OBVIOUS
<1> DEFINE n == e[4]
           after == DOMAIN settled \cup {n}
           better == Relaxed(n, e[2], e[3])
           T == DOMAIN better
           goal == q.goal
<1>1. Ripe(q, e)
  BY <1>0 DEF PopSettle, Ripe
<1>2. CASE Cardinality(after) > net.maxVisited
  <2>1. Refused
    BY <1>0, <1>2 DEF PopSettle
  <2>2. after \subseteq NetNodes
    <3>1. n \in NetNodes /\ DOMAIN settled \subseteq NetNodes
      BY <1>1, RipeIs DEF PopInv, SettlingInv, SettledFit
    <3> QED BY <3>1
  <2>3. Cardinality(after) <= Len(net.at) /\ Cardinality(after) \in Nat /\ Len(net.at) \in Nat
    <3>1. Cardinality(NetNodes) = Len(net.at) /\ IsFiniteSet(NetNodes) /\ Len(net.at) \in Nat
      <4> DEFINE z == Len(net.at)
      <4>1. NetNodes = 1..z /\ z \in Nat
        BY NetIs
      <4> HIDE DEF z
      <4>2. Cardinality(1..z) = z /\ IsFiniteSet(1..z)
        BY <4>1, FS_Interval
      <4> QED BY <4>1, <4>2 DEF z
    <3> HIDE DEF after
    <3> QED BY <2>2, <3>1, FS_Subset, FS_CardinalityType
  <2>4. net.maxVisited \in Nat
    BY AccessAssumption DEF AccessInput
  <2>5. net.maxVisited < Len(net.at)
    <3> HIDE DEF after
    <3> QED BY <1>2, <2>3, <2>4
  <2> QED BY <2>1, <2>5
<1>3. CASE ~(Cardinality(after) > net.maxVisited)
  <2>1. /\ SettlesAs(e) /\ searches' = searches
        /\ \/ n \in q.to /\ q.to \subseteq after /\ access' = "answer" /\ frontier' = frontier /\ tentative' = tentative
           \/ /\ frontier' = (frontier \ {e})
                    \cup {<<Priority(m, better[m][1], goal), better[m][1], better[m][2], m, n>> : m \in T}
              /\ tentative' = [m \in T \cup DOMAIN tentative |-> IF m \in T THEN better[m] ELSE tentative[m]]
              /\ access' = access
    BY <1>0, <1>3 DEF PopSettle, SettlesAs
  <2>2. CASE n \in q.to /\ q.to \subseteq after /\ access' = "answer" /\ frontier' = frontier /\ tentative' = tentative
    <3>1. Improved(e, {})
      BY <2>2 DEF Improved
    <3>2. SettledFit(q)' /\ TentativeInv(q)' /\ LastIs(q, n)'
      BY <1>1, <2>1, <3>1, SettleFits, TentativeGrows, LastSettled
    <3>3. q.to \subseteq DOMAIN settled'
      <4>1. DOMAIN settled' = after
        BY <2>1 DEF SettlesAs
      <4> QED BY <2>2, <4>1
    <3> HIDE DEF n
    <3> QED BY <2>1, <2>2, <3>2, <3>3 DEF SettlingInv
  <2>3. CASE /\ frontier' = (frontier \ {e})
                    \cup {<<Priority(m, better[m][1], goal), better[m][1], better[m][2], m, n>> : m \in T}
             /\ tentative' = [m \in T \cup DOMAIN tentative |-> IF m \in T THEN better[m] ELSE tentative[m]]
             /\ access' = access
    <3>1. /\ T \subseteq Adjacent(n) \ (DOMAIN settled \cup {n}) /\ LeavesOut(e, T)
          /\ \A m \in T : /\ better[m] = <<e[2] + Weight(n, m), e[3], n>>
                          /\ e[2] + Weight(n, m) <= net.reach
                          /\ m \in DOMAIN tentative => Precedes(<<e[2] + Weight(n, m), e[3], n>>, tentative[m])
      BY <1>1, RelaxedIs
    <3>2. Improved(e, T)
      <4> HIDE DEF T, better
      <4> QED BY <2>3, <3>1 DEF Improved
    <3>3. Pushes(q, e, T)
      <4>1. \A m \in T : better[m][1] = e[2] + Weight(n, m) /\ better[m][2] = e[3]
        <5> TAKE m \in T
        <5>1. better[m] = <<e[2] + Weight(n, m), e[3], n>>
          BY <3>1
        <5> HIDE DEF T, better
        <5> QED BY <5>1
      <4> HIDE DEF T, better
      <4> QED BY <2>3, <4>1 DEF Pushes
    <3> HIDE DEF T, better
    <3>4. SettledFit(q)' /\ TentativeInv(q)'
      BY <1>1, <2>1, <3>2, SettleFits, TentativeGrows
    <3>5. FrontierInv(q)'
      BY <1>1, <2>1, <3>2, <3>3, HeapGrows
    <3>6. RoadsCovered'
      BY <1>1, <2>1, <3>1, <3>2, CoveredStill
    <3>7. HeapIsLater(q)'
      BY <1>1, <2>1, <3>2, <3>3, HeapStaysLater
    <3> QED BY <2>1, <2>3, <3>4, <3>5, <3>6, <3>7 DEF PopInv, SettlingInv
  <2> HIDE DEF T, better
  <2> QED BY <2>1, <2>2, <2>3
<1> QED BY <1>2, <1>3

-----------------------------------------------------------------------------
(* Accessibility: the way back. *)

\* A settled node is a source, or lies behind the node it was reached from.
Tree ==
  \A n \in DOMAIN settled :
    /\ n \in NetNodes /\ settled[n].distance \in 0..net.reach
    /\ IF settled[n].parent = 0 THEN settled[n].distance = 0 /\ settled[n].origin = n
       ELSE /\ settled[n].parent \in DOMAIN settled /\ n \in Adjacent(settled[n].parent)
            /\ settled[n].distance = settled[settled[n].parent].distance + Weight(settled[n].parent, n)
            /\ settled[n].origin = settled[settled[n].parent].origin

LEMMA SettledIsTree == ASSUME NEW q, SettlingInv(q) PROVE Tree
<1> SUFFICES ASSUME NEW n \in DOMAIN settled
             PROVE /\ n \in NetNodes /\ settled[n].distance \in 0..net.reach
                   /\ IF settled[n].parent = 0 THEN settled[n].distance = 0 /\ settled[n].origin = n
                      ELSE /\ settled[n].parent \in DOMAIN settled /\ n \in Adjacent(settled[n].parent)
                           /\ settled[n].distance = settled[settled[n].parent].distance + Weight(settled[n].parent, n)
                           /\ settled[n].origin = settled[settled[n].parent].origin
  BY DEF Tree
<1> DEFINE t == tentative[n]
<1>1. n \in NetNodes /\ settled[n].distance \in 0..net.reach
  BY DEF SettlingInv, SettledFit
<1>2. settled[n] = [distance |-> t[1], origin |-> t[2], parent |-> t[3]] /\ TentativeFits(q, n)
  BY DEF SettlingInv, TentativeInv
<1>3. settled[n].distance = t[1] /\ settled[n].origin = t[2] /\ settled[n].parent = t[3]
  BY <1>2
<1>4. IF t[3] = 0 THEN t[1] = 0 /\ t[2] = n
      ELSE /\ t[3] \in DOMAIN settled /\ n \in Adjacent(t[3])
           /\ t[1] = settled[t[3]].distance + Weight(t[3], n) /\ t[2] = settled[t[3]].origin
  BY <1>2 DEF TentativeFits
<1> HIDE DEF t
<1> QED BY <1>1, <1>3, <1>4

PathBody(p, n) == IF settled[n].parent = 0 THEN <<n>> ELSE Append(p[settled[n].parent], n)
Paths == CHOOSE p : p = [n \in DOMAIN settled |-> PathBody(p, n)]

LEMMA PathIs == ASSUME NEW t PROVE ReconstructPath(t) = Paths[t]
BY Zenon DEF ReconstructPath, Paths, PathBody

\* The nodes settled nearer than a distance.
NearerThan(d) == {n \in DOMAIN settled : settled[n].distance < d}

LEMMA ParentIsNearer ==
  ASSUME net \in AccessCases, Tree, NEW n \in DOMAIN settled, settled[n].parent # 0
  PROVE /\ settled[n].parent \in DOMAIN settled /\ settled[settled[n].parent].distance < settled[n].distance
        /\ settled[n].distance \in Nat /\ settled[settled[n].parent].distance \in Nat
        /\ settled[n].parent \in NetNodes /\ n \in Adjacent(settled[n].parent)
        /\ Weight(settled[n].parent, n) \in Nat
<1> DEFINE m == settled[n].parent
<1>1. /\ m \in DOMAIN settled /\ n \in Adjacent(m)
      /\ settled[n].distance = settled[m].distance + Weight(m, n)
  BY DEF Tree
<1>2. m \in NetNodes /\ settled[m].distance \in Nat /\ settled[n].distance \in Nat
  <2>1. net.reach \in Nat
    BY NetIs
  <2>2. settled[m].distance \in 0..net.reach /\ settled[n].distance \in 0..net.reach /\ m \in NetNodes
    BY <1>1 DEF Tree
  <2> HIDE DEF m
  <2> QED BY <2>1, <2>2
<1>3. Weight(m, n) \in Nat \ {0}
  BY <1>1, <1>2, RoadsAre DEF RoadBetween
<1> HIDE DEF m
<1>4. settled[m].distance < settled[n].distance
  BY <1>1, <1>2, <1>3
<1> QED BY <1>1, <1>2, <1>3, <1>4 DEF m

LEMMA PathsExist ==
  ASSUME net \in AccessCases, Tree
  PROVE Paths = [n \in DOMAIN settled |-> PathBody(Paths, n)]
<1> DEFINE IsPaths(p, d) == p = [n \in NearerThan(d) |-> p[n]] /\ \A n \in NearerThan(d) : p[n] = PathBody(p, n)
           Good == {d \in Nat : \E p : IsPaths(p, d)}
<1>0. \A n \in DOMAIN settled : settled[n].distance \in Nat /\ settled[n].distance < Far
  <2>1. net.reach \in Nat
    BY NetIs
  <2>2. \A n \in DOMAIN settled : settled[n].distance \in 0..net.reach
    BY DEF Tree
  <2> QED BY <2>1, <2>2 DEF Far
<1>1. 0 \in Good
  <2>1. NearerThan(0) = {}
    BY <1>0 DEF NearerThan
  <2> DEFINE p == [n \in {} |-> 0]
  <2>2. IsPaths(p, 0)
    BY <2>1
  <2> QED BY <2>2
<1>2. ASSUME NEW d \in Nat, d \in Good PROVE d + 1 \in Good
  <2>1. PICK p : IsPaths(p, d)
    BY <1>2
  <2> DEFINE h == [n \in NearerThan(d + 1) |-> IF n \in NearerThan(d) THEN p[n] ELSE PathBody(p, n)]
  <2>2. NearerThan(d) \subseteq NearerThan(d + 1)
    BY <1>0 DEF NearerThan
  <2>3. h = [n \in NearerThan(d + 1) |-> h[n]] /\ \A n \in NearerThan(d) : h[n] = p[n]
    BY <2>2
  <2>4. \A n \in NearerThan(d + 1) : h[n] = PathBody(p, n)
    BY <2>1
  <2> HIDE DEF h
  <2>5. ASSUME NEW n \in NearerThan(d + 1) PROVE h[n] = PathBody(h, n)
    <3>1. n \in DOMAIN settled /\ settled[n].distance < d + 1
      BY DEF NearerThan
    <3>2. CASE settled[n].parent = 0
      BY <2>4, <3>2 DEF PathBody
    <3>3. CASE settled[n].parent # 0
      <4>1. settled[n].parent \in NearerThan(d)
        BY <3>1, <3>3, ParentIsNearer DEF NearerThan
      <4>2. h[settled[n].parent] = p[settled[n].parent]
        BY <2>3, <4>1
      <4> QED BY <2>4, <4>2 DEF PathBody
    <3> QED BY <3>2, <3>3
  <2>6. IsPaths(h, d + 1)
    BY <2>3, <2>5
  <2> QED BY <2>6
<1>3. Nat \subseteq Good
  <2> HIDE DEF Good
  <2> QED BY <1>1, <1>2, NatInductionOnSet
<1>4. Far \in Nat /\ NearerThan(Far) = DOMAIN settled
  <2>1. Far \in Nat
    BY NetIs DEF Far
  <2> QED BY <1>0, <2>1 DEF NearerThan
<1>5. PICK p : IsPaths(p, Far)
  BY <1>3, <1>4
<1>6. p = [n \in DOMAIN settled |-> PathBody(p, n)]
  BY <1>4, <1>5
<1> QED BY <1>6 DEF Paths

\* A way of roads from one node to another, and how long it is.
WayFits(p, m, n, d) ==
  /\ p \in Seq(NetNodes) /\ Len(p) \in Nat \ {0} /\ p[1] = m /\ p[Len(p)] = n
  /\ \A i \in 1..(Len(p) - 1) : p[i + 1] \in Adjacent(p[i])
  /\ SumFunction([i \in 1..(Len(p) - 1) |-> Weight(p[i], p[i + 1])]) = d

LEMMA WayOfOne == ASSUME NEW n \in NetNodes PROVE WayFits(<<n>>, n, n, 0)
<1> DEFINE p == <<n>>
           f == [i \in 1..(Len(p) - 1) |-> Weight(p[i], p[i + 1])]
<1>1. p \in Seq(NetNodes) /\ Len(p) = 1 /\ p[1] = n /\ 1..(Len(p) - 1) = {}
  OBVIOUS
<1>2. DOMAIN f = {}
  BY <1>1
<1>3. SumFunction(f) = 0
  <2> HIDE DEF f
  <2> QED BY <1>2, SumIsSum, SumOfNone
<1> QED BY <1>1, <1>3 DEF WayFits

LEMMA WayGoesOn ==
  ASSUME net \in AccessCases, NEW k, NEW m \in NetNodes, NEW d \in Nat, NEW p, WayFits(p, k, m, d), NEW n \in Adjacent(m)
  PROVE WayFits(Append(p, n), k, n, d + Weight(m, n))
<1> DEFINE r == Append(p, n)
           L == Len(p)
           f == [i \in 1..(L - 1) |-> Weight(p[i], p[i + 1])]
           g == [i \in 1..L |-> Weight(r[i], r[i + 1])]
<1>1. p \in Seq(NetNodes) /\ L \in Nat \ {0} /\ p[1] = k /\ p[L] = m
      /\ (\A i \in 1..(L - 1) : p[i + 1] \in Adjacent(p[i])) /\ SumFunction(f) = d
  BY DEF WayFits
<1>2. n \in NetNodes /\ Weight(m, n) \in Nat
  BY RoadsAre DEF RoadBetween
<1>3. r \in Seq(NetNodes) /\ Len(r) = L + 1 /\ r[L + 1] = n /\ \A i \in 1..L : r[i] = p[i]
  BY <1>1, <1>2
<1> HIDE DEF r
<1>4. \A i \in 1..L : r[i + 1] \in Adjacent(r[i])
  <2> SUFFICES ASSUME NEW i \in 1..L PROVE r[i + 1] \in Adjacent(r[i])
    OBVIOUS
  <2>1. CASE i = L
    BY <1>1, <1>3, <2>1
  <2>2. CASE i # L
    <3>1. i \in 1..(L - 1) /\ i + 1 \in 1..L /\ r[i + 1] = p[i + 1] /\ r[i] = p[i]
      BY <1>1, <1>3, <2>2
    <3> QED BY <1>1, <3>1
  <2> QED BY <2>1, <2>2
<1>5. \A i \in 1..L : r[i] \in NetNodes
  BY <1>1, <1>3
<1>6. \A i \in 1..L : g[i] \in Int /\ g[i] = Weight(r[i], r[i + 1])
  <2> TAKE i \in 1..L
  <2>1. Weight(r[i], r[i + 1]) \in Nat
    BY <1>4, <1>5, RoadsAre DEF RoadBetween
  <2> QED BY <2>1
<1>7. \A i \in 1..(L - 1) : g[i] = f[i]
  <2> TAKE i \in 1..(L - 1)
  <2>1. i \in 1..L /\ i + 1 \in 1..L
    BY <1>1
  <2> QED BY <1>3, <1>6, <2>1
<1>8. g[L] = Weight(m, n) /\ L \in 1..L
  <2>1. L \in 1..L
    BY <1>1
  <2> QED BY <1>1, <1>3, <1>6, <2>1
<1>9. DOMAIN g = 1..L /\ DOMAIN f = 1..(L - 1)
  OBVIOUS
<1> HIDE DEF f, g, L
<1>10. IsFiniteSet(1..L) /\ IsFiniteSet(1..(L - 1)) /\ (1..L) \ {L} = 1..(L - 1)
  <2>1. L - 1 \in Nat /\ L \in Nat
    BY <1>1
  <2> QED BY <1>1, <2>1, UpToFinite
<1>11. SumFunctionOnSet(g, 1..L) = SumFunctionOnSet(g, 1..(L - 1)) + g[L]
  <2>1. SumFunctionOnSet(g, 1..L) = SumFunctionOnSet(g, (1..L) \ {L}) + g[L]
    BY <1>6, <1>8, <1>10, SumOfMore
  <2> QED BY <1>10, <2>1
<1>12. SumFunctionOnSet(g, 1..(L - 1)) = SumFunctionOnSet(f, 1..(L - 1))
  <2>1. \A i \in 1..(L - 1) : g[i] \in Int /\ g[i] = f[i]
    BY <1>1, <1>6, <1>7
  <2> QED BY <1>10, <2>1, SumSame
<1>13. SumFunction(g) = d + Weight(m, n)
  BY <1>1, <1>8, <1>9, <1>11, <1>12, SumIsSum
<1>14. L \in Nat /\ L + 1 - 1 = L /\ L + 1 \in Nat \ {0} /\ r[1] = k
  BY <1>1, <1>3
<1>15. [i \in 1..(Len(r) - 1) |-> Weight(r[i], r[i + 1])] = g /\ Len(r) - 1 = L /\ r[Len(r)] = n
  <2>1. Len(r) - 1 = L /\ r[Len(r)] = n
    BY <1>3, <1>14
  <2> QED BY <2>1 DEF g
<1>16. WayFits(r, k, n, d + Weight(m, n))
  <2>1. Len(r) \in Nat \ {0}
    BY <1>3, <1>14
  <2> QED BY <1>3, <1>4, <1>13, <1>14, <1>15, <2>1 DEF WayFits
<1> QED BY <1>16 DEF r

LEMMA WaysLeadBack ==
  ASSUME net \in AccessCases, Tree
  PROVE \A n \in DOMAIN settled : WayFits(ReconstructPath(n), settled[n].origin, n, settled[n].distance)
<1> DEFINE Suits(n) == WayFits(Paths[n], settled[n].origin, n, settled[n].distance)
           Good == {d \in Nat : \A n \in NearerThan(d) : Suits(n)}
<1>0. \A n \in DOMAIN settled : settled[n].distance \in Nat /\ settled[n].distance < Far
  <2>1. net.reach \in Nat
    BY NetIs
  <2>2. \A n \in DOMAIN settled : settled[n].distance \in 0..net.reach
    BY DEF Tree
  <2> QED BY <2>1, <2>2 DEF Far
<1>1. \A n \in DOMAIN settled : Paths[n] = PathBody(Paths, n)
  BY PathsExist
<1>2. 0 \in Good
  BY <1>0 DEF NearerThan
<1>3. ASSUME NEW d \in Nat, d \in Good PROVE d + 1 \in Good
  <2> SUFFICES ASSUME NEW n \in NearerThan(d + 1) PROVE Suits(n)
    OBVIOUS
  <2>1. n \in DOMAIN settled /\ settled[n].distance < d + 1
    BY DEF NearerThan
  <2>2. CASE settled[n].parent = 0
    <3>1. Paths[n] = <<n>>
      BY <1>1, <2>1, <2>2 DEF PathBody
    <3>2. settled[n].distance = 0 /\ settled[n].origin = n /\ n \in NetNodes
      BY <2>1, <2>2 DEF Tree
    <3> QED BY <3>1, <3>2, WayOfOne
  <2>3. CASE settled[n].parent # 0
    <3> DEFINE m == settled[n].parent
    <3>1. Paths[n] = Append(Paths[m], n)
      BY <1>1, <2>1, <2>3 DEF PathBody
    <3>2. m \in DOMAIN settled /\ m \in NearerThan(d) /\ m \in NetNodes /\ n \in Adjacent(m)
          /\ settled[m].distance \in Nat
      BY <2>1, <2>3, ParentIsNearer DEF NearerThan
    <3>3. settled[n].distance = settled[m].distance + Weight(m, n) /\ settled[n].origin = settled[m].origin
      BY <2>1, <2>3 DEF Tree
    <3>4. WayFits(Paths[m], settled[m].origin, m, settled[m].distance)
      BY <1>3, <3>2
    <3> HIDE DEF m
    <3>5. WayFits(Append(Paths[m], n), settled[m].origin, n, settled[m].distance + Weight(m, n))
      BY <3>2, <3>4, WayGoesOn
    <3> QED BY <3>1, <3>3, <3>5
  <2> QED BY <2>2, <2>3
<1>4. Nat \subseteq Good
  <2> HIDE DEF Good
  <2> QED BY <1>2, <1>3, NatInductionOnSet
<1>5. Far \in Nat /\ \A n \in DOMAIN settled : n \in NearerThan(Far)
  <2>1. Far \in Nat
    BY NetIs DEF Far
  <2> QED BY <1>0, <2>1 DEF NearerThan
<1> QED BY <1>4, <1>5, PathIs

-----------------------------------------------------------------------------
(* Accessibility: snapping. *)

SnapIs(o) == o.node \in {0} \cup NetNodes /\ (o.node = 0 <=> o.reason # "")

LEMMA SnapOutcomeIs ==
  ASSUME net \in AccessCases, NEW x \in Int, NEW o, o = SnapOutcome(x)
  PROVE /\ SnapIs(o) /\ SnapFits(o)
        /\ o.node # 0 => o.reason = ""
        /\ o.node = 0 => o.reason \in {"empty_network", "no_node_within_max_distance"}
<1> DEFINE near == {n \in DOMAIN net.at : Gap(net.at[n], x) <= net.tolerance}
           nearest == {n \in near : \A k \in near : Gap(net.at[n], x) <= Gap(net.at[k], x)}
<1>1. SnapNode(x) = IF near = {} THEN 0 ELSE Min(nearest)
  BY DEF SnapNode
<1>2. near \subseteq NetNodes /\ NetNodes \subseteq Nat \ {0} /\ \A n \in near : Gap(net.at[n], x) <= net.tolerance
  <2>1. NetNodes \subseteq Nat \ {0}
    BY NetIs
  <2> QED BY <2>1 DEF NetNodes
<1>3. IsFiniteSet(near) /\ \A n \in near : Gap(net.at[n], x) \in Int
  <2>1. IsFiniteSet(near)
    BY <1>2, NetIs, FS_Subset
  <2>2. \A n \in near : n \in NetNodes
    BY DEF NetNodes
  <2>3. ASSUME NEW n \in near PROVE Gap(net.at[n], x) \in Int
    <3>1. net.at[n] \in Int
      <4>1. n \in NetNodes
        BY <2>2
      <4> HIDE DEF near
      <4> QED BY ONLY <4>1, net \in AccessCases, NetIs
    <3> QED BY <3>1 DEF Gap
  <2> QED BY <2>1, <2>3
<1>4. CASE near = {}
  <2>1. o = Unsnapped("empty_network") \/ o = Unsnapped("no_node_within_max_distance")
    BY <1>1, <1>4 DEF SnapOutcome
  <2>2. o.node = 0 /\ o.reason \in {"empty_network", "no_node_within_max_distance"}
    BY <2>1 DEF Unsnapped
  <2>3. o.reason # ""
    BY <2>2
  <2> QED BY <2>2, <2>3 DEF SnapIs, SnapFits
<1>5. CASE near # {}
  <2>1. nearest # {}
    <3> DEFINE f == [n \in near |-> Gap(net.at[n], x)]
    <3>1. \E m \in near : \A k \in near : f[m] <= f[k]
      <4>1. \A n \in near : f[n] \in Int
        BY <1>3
      <4> HIDE DEF f, near
      <4> QED BY <1>3, <1>5, <4>1, LowestBy
    <3> QED BY <3>1
  <2>2. Min(nearest) \in nearest
    <3>1. IsFiniteSet(nearest) /\ nearest \subseteq Int
      <4>1. nearest \in SUBSET near /\ near \subseteq Int
        <5>1. nearest \in SUBSET near
          OBVIOUS
        <5> HIDE DEF near
        <5> QED BY <1>2, <5>1
      <4> HIDE DEF nearest, near
      <4> QED BY <1>3, <4>1, FS_Subset
    <3> HIDE DEF nearest
    <3> QED BY <2>1, <3>1, MinOf
  <2>3. SnapNode(x) \in near
    BY <1>1, <1>5, <2>2
  <2>4. SnapNode(x) \in NetNodes /\ SnapNode(x) # 0 /\ net.at # << >> /\ Gap(net.at[SnapNode(x)], x) <= net.tolerance
    <3>1. SnapNode(x) \in NetNodes /\ SnapNode(x) # 0 /\ Gap(net.at[SnapNode(x)], x) <= net.tolerance
      <4> HIDE DEF near
      <4> QED BY <1>2, <2>3
    <3>2. net.at # << >>
      BY <3>1 DEF NetNodes
    <3> QED BY <3>1, <3>2
  <2>5. o = Snap(x, SnapNode(x))
    BY <2>4 DEF SnapOutcome
  <2>6. o.node = SnapNode(x) /\ o.reason = "" /\ o.distance = Gap(net.at[SnapNode(x)], x)
    <3> HIDE DEF near, nearest
    <3> QED BY ONLY <2>5 DEF Snap
  <2> QED BY <2>4, <2>6 DEF SnapIs, SnapFits
<1> QED BY <1>4, <1>5

LEMMA SnapsHold ==
  ASSUME net \in AccessCases, NEW outcomes, outcomes = [i \in DOMAIN InputOrder |-> SnapOutcome(InputOrder[i])]
  PROVE /\ SnapResultHolds(outcomes) /\ outcomes \in Seq(Range(outcomes))
        /\ Len(outcomes) = Len(net.demandAt) + Len(net.siteAt)
        /\ Len(net.demandAt) \in Nat /\ Len(net.siteAt) \in Nat
        /\ DemandRefs = 1..Len(net.demandAt) /\ SiteRefs = 1..Len(net.siteAt)
        /\ \A i \in 1..Len(outcomes) : SnapIs(outcomes[i])
<1> DEFINE D == DOMAIN outcomes
           A == {i \in D : outcomes[i].node # 0}
           B == {i \in D : outcomes[i].reason = "empty_network"}
           C == {i \in D : outcomes[i].reason = "no_node_within_max_distance"}
           len == Len(net.demandAt) + Len(net.siteAt)
<1>1. net.demandAt \in Seq(Int) /\ net.siteAt \in Seq(Int)
  BY AccessAssumption DEF AccessInput
<1>2. /\ InputOrder \in Seq(Int) /\ Len(InputOrder) = len /\ len \in Nat
      /\ Len(net.demandAt) \in Nat /\ Len(net.siteAt) \in Nat
      /\ DemandRefs = 1..Len(net.demandAt) /\ SiteRefs = 1..Len(net.siteAt)
  <2> DEFINE a == net.demandAt
             b == net.siteAt
  <2>1. a \o b \in Seq(Int) /\ Len(a \o b) = Len(a) + Len(b) /\ Len(a) \in Nat /\ Len(b) \in Nat
        /\ DOMAIN a = 1..Len(a) /\ DOMAIN b = 1..Len(b)
    <3>1. a \in Seq(Int) /\ b \in Seq(Int)
      BY <1>1
    <3> HIDE DEF a, b
    <3> QED BY <3>1
  <2>2. InputOrder = a \o b /\ DemandRefs = DOMAIN a /\ SiteRefs = DOMAIN b /\ len = Len(a) + Len(b)
        /\ Len(net.demandAt) = Len(a) /\ Len(net.siteAt) = Len(b)
    BY DEF InputOrder, DemandRefs, SiteRefs
  <2> HIDE DEF a, b, len
  <2> QED BY <2>1, <2>2
<1>3. DOMAIN InputOrder = 1..len /\ D = 1..len
  BY <1>2
<1>4. outcomes \in Seq(Range(outcomes)) /\ Len(outcomes) = len
  <2>1. outcomes \in [1..len -> Range(outcomes)]
    BY <1>3 DEF Range
  <2> HIDE DEF len
  <2> QED BY <1>2, <2>1
<1>5. ASSUME NEW i \in D
      PROVE /\ SnapIs(outcomes[i]) /\ SnapFits(outcomes[i])
            /\ outcomes[i].node # 0 => outcomes[i].reason = ""
            /\ outcomes[i].node = 0 => outcomes[i].reason \in {"empty_network", "no_node_within_max_distance"}
  <2>1. i \in DOMAIN InputOrder /\ InputOrder[i] \in Int
    <3>1. i \in 1..len
      BY <1>3
    <3> HIDE DEF len, D
    <3> QED BY <1>2, <1>3, <3>1
  <2>2. outcomes[i] = SnapOutcome(InputOrder[i])
    BY <2>1
  <2> QED BY <2>1, <2>2, SnapOutcomeIs
<1>6. IsFiniteSet(D) /\ Cardinality(D) = len
  <2> HIDE DEF len
  <2> QED BY <1>2, <1>3, FS_Interval
<1>7. D = (A \cup B) \cup C /\ A \cap B = {} /\ (A \cup B) \cap C = {}
  BY <1>5
<1>8. IsFiniteSet(A) /\ IsFiniteSet(B) /\ IsFiniteSet(C) /\ IsFiniteSet(A \cup B)
  <2>1. A \in SUBSET D /\ B \in SUBSET D /\ C \in SUBSET D /\ A \cup B \in SUBSET D
    OBVIOUS
  <2> HIDE DEF A, B, C, D
  <2> QED BY <1>6, <2>1, FS_Subset
<1>9. Cardinality(A) + Cardinality(B) + Cardinality(C) = len
  <2> HIDE DEF A, B, C, D, len
  <2>1. Cardinality(A \cup B) = Cardinality(A) + Cardinality(B)
    BY <1>7, <1>8, SizeOfBoth
  <2>2. Cardinality((A \cup B) \cup C) = Cardinality(A \cup B) + Cardinality(C)
    BY <1>7, <1>8, SizeOfBoth
  <2> QED BY <1>6, <1>7, <2>1, <2>2
<1>10. SnapCountsAgree(SnapDiagnostics(outcomes))
  <2>1. /\ SnapDiagnostics(outcomes).snapped = Cardinality(A) /\ SnapDiagnostics(outcomes).empty = Cardinality(B)
        /\ SnapDiagnostics(outcomes).beyond = Cardinality(C) /\ SnapDiagnostics(outcomes).input = Len(outcomes)
    BY DEF SnapDiagnostics
  <2> HIDE DEF A, B, C, D, len
  <2> QED BY <1>4, <1>9, <2>1 DEF SnapCountsAgree
<1>11. SnapResultHolds(outcomes)
  BY <1>5, <1>10 DEF SnapResultHolds
<1>12. \A i \in 1..Len(outcomes) : SnapIs(outcomes[i])
  BY <1>3, <1>4, <1>5
<1> QED BY <1>2, <1>4, <1>11, <1>12

SnapsFit ==
  /\ DOMAIN snapped.demand = DemandRefs /\ \A i \in DemandRefs : SnapIs(snapped.demand[i])
  /\ DOMAIN snapped.site = SiteRefs /\ \A i \in SiteRefs : SnapIs(snapped.site[i])
  /\ IsFiniteSet(DemandRefs) /\ IsFiniteSet(SiteRefs) /\ SiteRefs \subseteq Nat

LEMMA PartsAreSnapped ==
  ASSUME NEW outcomes, NEW d \in Nat, NEW s \in Nat, NEW R, outcomes \in Seq(R), Len(outcomes) = d + s
  PROVE /\ DOMAIN SubSeq(outcomes, 1, d) = 1..d /\ \A i \in 1..d : SubSeq(outcomes, 1, d)[i] = outcomes[i]
        /\ DOMAIN SubSeq(outcomes, d + 1, Len(outcomes)) = 1..s
        /\ \A i \in 1..s : SubSeq(outcomes, d + 1, Len(outcomes))[i] = outcomes[d + i]
<1>1. DOMAIN SubSeq(outcomes, 1, d) = 1..d /\ \A i \in 1..d : SubSeq(outcomes, 1, d)[i] = outcomes[i]
  OBVIOUS
<1>2. DOMAIN SubSeq(outcomes, d + 1, d + s) = 1..s
  OBVIOUS
<1>3. ASSUME NEW i \in 1..s PROVE SubSeq(outcomes, d + 1, d + s)[i] = outcomes[d + i]
  OBVIOUS
<1> QED BY <1>1, <1>2, <1>3

LEMMA SnapBatchSnaps ==
  ASSUME net \in AccessCases, SnapBatch
  PROVE \/ Refused /\ (SnapRefused \/ SnapRepeats)
        \/ /\ access' = "plan" /\ UNCHANGED <<net, searches, searchVars, found, outcome>>
           /\ SnapsFit'
<1>1. PICK outcomes : outcomes = [i \in DOMAIN InputOrder |-> SnapOutcome(InputOrder[i])]
  OBVIOUS
<1> DEFINE d == Len(net.demandAt)
           s == Len(net.siteAt)
           front == SubSeq(outcomes, 1, d)
           rest == SubSeq(outcomes, d + 1, Len(outcomes))
<1>2. /\ SnapResultHolds(outcomes) /\ outcomes \in Seq(Range(outcomes)) /\ Len(outcomes) = d + s
      /\ d \in Nat /\ s \in Nat /\ DemandRefs = 1..d /\ SiteRefs = 1..s
      /\ \A i \in 1..Len(outcomes) : SnapIs(outcomes[i])
  BY <1>1, SnapsHold
<1>3. CASE SnapRefused \/ SnapRepeats
  BY <1>3 DEF SnapBatch
<1>4. CASE ~(SnapRefused \/ SnapRepeats)
  <2>1. /\ access' = "plan" /\ snapped' = [demand |-> front, site |-> rest]
        /\ UNCHANGED <<net, searches, searchVars, found, outcome>>
    BY <1>1, <1>2, <1>4 DEF SnapBatch
  <2>2. snapped'.demand = front /\ snapped'.site = rest /\ net' = net /\ NetNodes' = NetNodes
    BY <2>1, NetKept
  <2>3. /\ DOMAIN front = 1..d /\ \A i \in 1..d : front[i] = outcomes[i]
        /\ DOMAIN rest = 1..s /\ \A i \in 1..s : rest[i] = outcomes[d + i]
    <3> HIDE DEF d, s
    <3> QED BY <1>2, PartsAreSnapped
  <2>4. \A i \in 1..d : i \in 1..Len(outcomes)
    <3> HIDE DEF d, s
    <3> QED BY <1>2
  <2>5. \A i \in 1..s : d + i \in 1..Len(outcomes)
    <3> HIDE DEF d, s
    <3> QED BY <1>2
  <2>6. /\ \A i \in 1..d : SnapIs(front[i])
        /\ \A i \in 1..s : SnapIs(rest[i])
    <3> HIDE DEF d, s, front, rest
    <3> QED BY <1>2, <2>3, <2>4, <2>5
  <2>7. \A o : SnapIs(o)' = SnapIs(o)
    BY <2>2 DEF SnapIs
  <2>8. DemandRefs' = 1..d /\ SiteRefs' = 1..s /\ IsFiniteSet(1..d) /\ IsFiniteSet(1..s)
    <3>1. DemandRefs' = DemandRefs /\ SiteRefs' = SiteRefs
      BY <2>2 DEF DemandRefs, SiteRefs
    <3> HIDE DEF d, s
    <3> QED BY <1>2, <3>1, UpToFinite
  <2>9. SnapsFit'
    <3> HIDE DEF d, s, front, rest
    <3>1. \A i \in 1..d : SnapIs(snapped'.demand[i])
      BY <2>2, <2>6
    <3>2. \A i \in 1..s : SnapIs(snapped'.site[i])
      BY <2>2, <2>6
    <3>3. \A i \in 1..d : SnapIs(snapped.demand[i])'
      BY <2>2, <3>1 DEF SnapIs
    <3>4. \A i \in 1..s : SnapIs(snapped.site[i])'
      BY <2>2, <3>2 DEF SnapIs
    <3> QED BY <2>2, <2>3, <2>8, <3>3, <3>4 DEF SnapsFit
  <2> QED BY <2>1, <2>9
<1> QED BY <1>3, <1>4

-----------------------------------------------------------------------------
(* Accessibility: the searches of a batch. *)

LEMMA CountBelowIs ==
  ASSUME NEW S, IsFiniteSet(S), S \subseteq Int
  PROVE /\ Cardinality(S) \in Nat
        /\ \A n \in S : CountBelow(S, n) \in 0..(Cardinality(S) - 1) /\ CountBelow(S, n) \in Nat
        /\ \A m, n \in S : CountBelow(S, m) = CountBelow(S, n) => m = n
<1> DEFINE A == {p \in S \X S : p[1] < p[2]}
<1>1. \A x, y \in S : <<x, y>> \in A <=> x < y
  OBVIOUS
<1> HIDE DEF A
<1>2. StrictOrder(S, A)
  BY <1>1 DEF StrictOrder
<1>3. \A n \in S : PlaceOf(S, A, n) = 1 + CountBelow(S, n) /\ CountBelow(S, n) \in Nat
  <2> TAKE n \in S
  <2>1. {m \in S : m < n} = {s \in S : <<s, n>> \in A}
    BY <1>1
  <2>2. {m \in S : m < n} \in SUBSET S
    OBVIOUS
  <2>3. Cardinality({m \in S : m < n}) \in Nat
    BY <2>2, FS_Subset, FS_CardinalityType
  <2> QED BY <2>1, <2>3 DEF PlaceOf, CountBelow
<1>4. Cardinality(S) \in Nat
  BY FS_CardinalityType
<1>5. \A n \in S : PlaceOf(S, A, n) \in 1..Cardinality(S)
  BY <1>2, PlacesAre
<1>6. \A m, n \in S : PlaceOf(S, A, m) = PlaceOf(S, A, n) => m = n
  BY <1>2, PlacesAre
<1>7. \A n \in S : CountBelow(S, n) \in 0..(Cardinality(S) - 1)
  <2> TAKE n \in S
  <2>1. 1 + CountBelow(S, n) \in 1..Cardinality(S) /\ CountBelow(S, n) \in Nat
    BY <1>3, <1>5
  <2> QED BY <1>4, <2>1
<1>8. \A m, n \in S : CountBelow(S, m) = CountBelow(S, n) => m = n
  BY <1>3, <1>6
<1> QED BY <1>3, <1>4, <1>7, <1>8

LEMMA NodesAre ==
  ASSUME net \in AccessCases, SnapsFit
  PROVE /\ DemandNodes \subseteq NetNodes /\ SiteNodes \subseteq NetNodes /\ 0 \notin NetNodes
        /\ IsFiniteSet(DemandNodes) /\ IsFiniteSet(SiteNodes) /\ NetNodes \subseteq Int
        /\ \A d \in DemandRefs : snapped.demand[d].node # 0 => snapped.demand[d].node \in DemandNodes
        /\ \A s \in SiteRefs : snapped.site[s].node # 0 => snapped.site[s].node \in SiteNodes
        /\ \A n \in SiteNodes : \E s \in SiteRefs : snapped.site[s].node = n
<1>1. IsFiniteSet(NetNodes) /\ NetNodes \subseteq Int /\ 0 \notin NetNodes
  BY NetIs
<1>2. DemandNodes \subseteq NetNodes /\ SiteNodes \subseteq NetNodes
  BY DEF SnapsFit, SnapIs, DemandNodes, SiteNodes, Range
<1>3. IsFiniteSet(DemandNodes) /\ IsFiniteSet(SiteNodes)
  BY <1>1, <1>2, FS_Subset
<1>4. /\ \A d \in DemandRefs : snapped.demand[d].node # 0 => snapped.demand[d].node \in DemandNodes
      /\ \A s \in SiteRefs : snapped.site[s].node # 0 => snapped.site[s].node \in SiteNodes
  BY DEF SnapsFit, DemandNodes, SiteNodes, Range
<1>5. \A n \in SiteNodes : \E s \in SiteRefs : snapped.site[s].node = n
  BY DEF SnapsFit, SiteNodes, Range
<1> QED BY <1>1, <1>2, <1>3, <1>4, <1>5

\* Every target is in one of the batches.
LEMMA BatchesCover ==
  ASSUME net \in AccessCases, SnapsFit
  PROVE /\ Len(TargetBatches) \in Nat /\ DOMAIN TargetBatches = 1..Len(TargetBatches)
        /\ \A k \in 1..Len(TargetBatches) : TargetBatches[k] \subseteq DemandNodes
        /\ \A n \in DemandNodes : \E k \in 1..Len(TargetBatches) : n \in TargetBatches[k]
<1> DEFINE b == net.batch
           C == Cardinality(DemandNodes)
           B == (C + b - 1) \div b
           F(k) == {n \in DemandNodes : CountBelow(DemandNodes, n) \div b = k - 1}
<1>1. b \in Nat \ {0}
  <2>1. AccessInput(net)
    BY AccessAssumption
  <2>2. {net.batch} \subseteq Nat /\ net.batch > 0
    BY <2>1 DEF AccessInput
  <2> QED BY <2>2
<1>2. C \in Nat /\ \A n \in DemandNodes : CountBelow(DemandNodes, n) \in 0..(C - 1) /\ CountBelow(DemandNodes, n) \in Nat
  <2>1. IsFiniteSet(DemandNodes) /\ DemandNodes \subseteq Int
    BY NodesAre
  <2> QED BY <2>1, CountBelowIs
<1>3. C + b - 1 \in Nat
  <2> HIDE DEF b, C
  <2> QED BY <1>1, <1>2
<1>4. B \in Nat /\ C + b - 1 < b * B + b
  <2> HIDE DEF b, C
  <2> QED BY <1>1, <1>3, DivIs
<1>5. TargetBatches = [k \in 1..B |-> F(k)]
  BY DEF TargetBatches
<1>6. TargetBatches \in Seq(SUBSET DemandNodes) /\ Len(TargetBatches) = B
  <2>1. TargetBatches \in [1..B -> SUBSET DemandNodes]
    BY <1>5
  <2> HIDE DEF B
  <2> QED BY <1>4, <2>1
<1>7. ASSUME NEW n \in DemandNodes PROVE \E k \in 1..B : n \in TargetBatches[k]
  <2> DEFINE c == CountBelow(DemandNodes, n)
             k == c \div b
  <2>1. c \in Nat /\ c < C
    <3>1. c \in 0..(C - 1) /\ c \in Nat
      BY <1>2
    <3> HIDE DEF c, C
    <3> QED BY <1>2, <3>1
  <2>2. k \in Nat /\ b * k <= c /\ b * k \in Nat
    <3> HIDE DEF b, c
    <3> QED BY <1>1, <2>1, DivIs
  <2>3. b * B \in Nat
    <3> HIDE DEF b, B
    <3> QED BY <1>1, <1>4
  <2>4. b * k < b * B
    <3> HIDE DEF b, c, k, B, C
    <3> QED BY <1>1, <1>2, <1>4, <2>1, <2>2, <2>3
  <2>5. k < B
    <3> HIDE DEF b, c, k, B, C
    <3>1. CASE B <= k
      <4>1. b * B <= b * k
        <5>1. B * b <= k * b
          BY <1>1, <1>4, <2>2, <3>1, TimesKeeps
        <5>2. B * b = b * B /\ k * b = b * k
          BY <1>1, <1>4, <2>2
        <5> QED BY <5>1, <5>2
      <4> QED BY <2>2, <2>3, <2>4, <4>1
    <3> QED BY <1>4, <2>2, <3>1
  <2>6. k + 1 \in 1..B /\ k + 1 - 1 = k
    <3> HIDE DEF k, B
    <3> QED BY <1>4, <2>2, <2>5
  <2>7. n \in F(k + 1)
    <3>1. k = CountBelow(DemandNodes, n) \div b
      OBVIOUS
    <3> HIDE DEF B, k
    <3> QED BY <2>6, <3>1
  <2> HIDE DEF F, B, k
  <2> QED BY <1>5, <2>6, <2>7
<1>8. \A k \in 1..B : TargetBatches[k] \subseteq DemandNodes
  BY <1>5
<1> HIDE DEF B
<1> QED BY <1>4, <1>6, <1>7, <1>8

Searches == [from : SUBSET NetNodes, to : SUBSET NetNodes, goal : {0} \cup NetNodes]
PathPlan ==
  <<[from |-> net.sources, to |-> {net.target}, goal |-> IF net.algorithm = "astar" THEN net.target ELSE 0]>>
Plan ==
  IF net.mode = "path" THEN PathPlan ELSE IF net.mode = "existing" THEN PlanExisting ELSE PlanCandidates

\* The searches are those that the subjects call for.
PlanFits ==
  /\ Plan \in Seq(Searches)
  /\ net.mode # "path" => \A i \in 1..Len(Plan) :
       Plan[i].from \subseteq SiteNodes /\ Plan[i].to \subseteq DemandNodes /\ Plan[i].goal = 0
  /\ net.mode = "existing" =>
       /\ Len(Plan) <= 1
       /\ DemandNodes # {} /\ SiteNodes # {} => Len(Plan) = 1 /\ Plan[1].from = SiteNodes /\ Plan[1].to = DemandNodes
  /\ net.mode = "candidates" =>
       /\ \A i \in 1..Len(Plan) : \A x, y \in Plan[i].from : x = y
       /\ \A s \in SiteNodes, t \in DemandNodes :
            \E i \in 1..Len(Plan) : s \in Plan[i].from /\ t \in Plan[i].to
  /\ net.mode = "path" =>
       Len(Plan) = 1 /\ Plan[1].from = net.sources /\ Plan[1].to = {net.target}

LEMMA CandidatesCover ==
  ASSUME net \in AccessCases, SnapsFit, net.mode = "candidates"
  PROVE PlanFits
<1> DEFINE B == Len(TargetBatches)
           S == Cardinality(SiteNodes)
           L == S * B
           From(j) == {n \in SiteNodes : CountBelow(SiteNodes, n) = (j - 1) \div B}
           To(j) == TargetBatches[((j - 1) % B) + 1]
           P == [j \in 1..L |-> [from |-> From(j), to |-> To(j), goal |-> 0]]
<1>1. /\ B \in Nat /\ \A k \in 1..B : TargetBatches[k] \subseteq DemandNodes
      /\ \A n \in DemandNodes : \E k \in 1..B : n \in TargetBatches[k]
  BY BatchesCover
<1>2. /\ S \in Nat
      /\ \A n \in SiteNodes : CountBelow(SiteNodes, n) \in 0..(S - 1) /\ CountBelow(SiteNodes, n) \in Nat
      /\ \A m, n \in SiteNodes : CountBelow(SiteNodes, m) = CountBelow(SiteNodes, n) => m = n
  <2>1. IsFiniteSet(SiteNodes) /\ SiteNodes \subseteq Int
    BY NodesAre
  <2> QED BY <2>1, CountBelowIs
<1>3. Plan = P
  BY DEF Plan, PlanCandidates
<1>4. L \in Nat
  <2> HIDE DEF S, B
  <2> QED BY <1>1, <1>2
<1>5. ASSUME NEW j \in 1..L
      PROVE /\ From(j) \subseteq SiteNodes /\ To(j) \subseteq DemandNodes
            /\ \A x, y \in From(j) : x = y
  <2>1. B # 0
    <3>1. ASSUME B = 0 PROVE FALSE
      <4>1. L = 0
        <5> HIDE DEF S, B
        <5> QED BY <1>2, <3>1
      <4> QED BY <4>1
    <3> QED BY <3>1
  <2>2. j - 1 \in Nat
    <3> HIDE DEF L
    <3> QED BY <1>4
  <2>3. ((j - 1) % B) + 1 \in 1..B
    <3> HIDE DEF B, L
    <3>1. (j - 1) % B \in Nat /\ (j - 1) % B < B
      BY <1>1, <2>1, <2>2, DivIs
    <3> QED BY <1>1, <3>1
  <2>4. To(j) \subseteq DemandNodes
    <3> HIDE DEF B, L
    <3> QED BY <1>1, <2>3
  <2>5. \A x, y \in From(j) : x = y
    <3> HIDE DEF B, L, S
    <3> QED BY <1>2
  <2> HIDE DEF To
  <2> QED BY <2>4, <2>5
<1>6. \A j \in 1..L : P[j] = [from |-> From(j), to |-> To(j), goal |-> 0] /\ P[j].from = From(j) /\ P[j].to = To(j) /\ P[j].goal = 0
  <2> HIDE DEF From, To, L
  <2> QED OBVIOUS
<1>7. DemandNodes \subseteq NetNodes /\ SiteNodes \subseteq NetNodes
  BY NodesAre
<1>8. P \in Seq(Searches) /\ Len(P) = L
  <2> HIDE DEF From, To, L
  <2>1. P = [j \in 1..L |-> P[j]]
    OBVIOUS
  <2> HIDE DEF P
  <2>2. \A j \in 1..L : P[j] \in Searches
    <3> TAKE j \in 1..L
    <3>1. P[j] = [from |-> From(j), to |-> To(j), goal |-> 0]
      BY <1>6
    <3>2. From(j) \in SUBSET NetNodes /\ To(j) \in SUBSET NetNodes
      BY <1>5, <1>7
    <3> QED BY <3>1, <3>2 DEF Searches
  <2>3. P \in [1..L -> Searches]
    BY <2>1, <2>2
  <2> QED BY <1>4, <2>3
<1>9. ASSUME NEW s \in SiteNodes, NEW t \in DemandNodes
      PROVE \E j \in 1..L : s \in From(j) /\ t \in To(j)
  <2> DEFINE u == CountBelow(SiteNodes, s)
  <2>1. PICK k \in 1..B : t \in TargetBatches[k]
    BY <1>1
  <2>2. u \in 0..(S - 1) /\ u \in Nat
    BY <1>2
  <2> DEFINE r == k - 1
             j == u * B + r + 1
  <2>3. B \in Nat \ {0} /\ r \in Nat /\ r < B /\ r + 1 = k
    <3> HIDE DEF B
    <3> QED BY <1>1
  <2>4. (u * B + r) \div B = u /\ (u * B + r) % B = r /\ u * B + r \in Nat
    <3> HIDE DEF u, B, r
    <3> QED BY <2>2, <2>3, DivOf
  <2>5. j \in 1..L /\ j - 1 = u * B + r
    <3> HIDE DEF u, B, r, S
    <3>1. u + 1 <= S /\ u + 1 \in Nat
      BY <1>2, <2>2
    <3>2. (u + 1) * B <= S * B
      BY <1>2, <2>3, <3>1, TimesKeeps
    <3>3. (u + 1) * B = u * B + B /\ u * B \in Nat
      BY <2>2, <2>3
    <3> DEFINE w == u * B
               z == S * B
    <3>4. w + B <= z /\ w \in Nat /\ z \in Nat
      BY <1>4, <3>2, <3>3
    <3> HIDE DEF w, z
    <3>5. w + r + 1 \in 1..z /\ w + r + 1 - 1 = w + r
      BY <2>3, <3>4
    <3>6. j = w + r + 1 /\ L = z
      BY DEF w, z
    <3> HIDE DEF j, L
    <3>7. j \in 1..L
      BY <3>5, <3>6
    <3>8. j - 1 = w + r
      BY <2>3, <3>4, <3>6
    <3>9. u * B + r = w + r
      BY DEF w
    <3> QED BY <3>7, <3>8, <3>9
  <2>6. s \in From(j) /\ t \in To(j)
    <3> HIDE DEF B, r, L, j
    <3>1. s \in From(j)
      BY <2>4, <2>5
    <3>2. t \in To(j)
      BY <2>1, <2>3, <2>4, <2>5
    <3> QED BY <3>1, <3>2
  <2> HIDE DEF From, To, L, j
  <2> QED BY <2>5, <2>6
<1> HIDE DEF From, To, L, P
<1>10. \A i \in 1..Len(Plan) : Plan[i].from \subseteq SiteNodes /\ Plan[i].to \subseteq DemandNodes /\ Plan[i].goal = 0
  BY <1>3, <1>5, <1>6, <1>8
<1>11. \A i \in 1..Len(Plan) : \A x, y \in Plan[i].from : x = y
  BY <1>3, <1>5, <1>6, <1>8
<1>12. \A s \in SiteNodes, t \in DemandNodes : \E i \in 1..Len(Plan) : s \in Plan[i].from /\ t \in Plan[i].to
  BY <1>3, <1>6, <1>8, <1>9
<1> QED BY <1>3, <1>8, <1>10, <1>11, <1>12 DEF PlanFits

LEMMA ExistingFits ==
  ASSUME net \in AccessCases, SnapsFit, net.mode = "existing"
  PROVE PlanFits
<1>1. Plan = PlanExisting
  BY DEF Plan
<1>2. DemandNodes \subseteq NetNodes /\ SiteNodes \subseteq NetNodes
  BY NodesAre
<1>3. CASE DemandNodes = {} \/ SiteNodes = {}
  <2>1. Plan = << >>
    BY <1>1, <1>3 DEF PlanExisting
  <2>2. Plan \in Seq(Searches) /\ Len(Plan) = 0
    BY <2>1
  <2> QED BY <1>3, <2>2 DEF PlanFits
<1>4. CASE ~(DemandNodes = {} \/ SiteNodes = {})
  <2> DEFINE a == [from |-> SiteNodes, to |-> DemandNodes, goal |-> 0]
  <2>1. Plan = <<a>>
    BY <1>1, <1>4 DEF PlanExisting
  <2>2. a \in Searches /\ a.from = SiteNodes /\ a.to = DemandNodes /\ a.goal = 0
    BY <1>2 DEF Searches
  <2> HIDE DEF a
  <2>3. Plan \in Seq(Searches) /\ Len(Plan) = 1 /\ Plan[1] = a
    BY <2>1, <2>2
  <2>4. \A i \in 1..Len(Plan) : Plan[i] = a
    BY <2>3
  <2> QED BY <2>2, <2>3, <2>4 DEF PlanFits
<1> QED BY <1>3, <1>4

LEMMA PathFitsPlan ==
  ASSUME net \in AccessCases, net.mode = "path", KnownNodes(net.sources \cup {net.target})
  PROVE PlanFits
<1> DEFINE a == [from |-> net.sources, to |-> {net.target},
                 goal |-> IF net.algorithm = "astar" THEN net.target ELSE 0]
<1>1. Plan = <<a>>
  BY DEF Plan, PathPlan
<1>2. a \in Searches /\ a.from = net.sources /\ a.to = {net.target}
  BY DEF Searches, KnownNodes, NetNodes
<1> HIDE DEF a
<1>3. Plan \in Seq(Searches) /\ Len(Plan) = 1 /\ Plan[1] = a
  BY <1>1, <1>2
<1> QED BY <1>2, <1>3 DEF PlanFits

-----------------------------------------------------------------------------
(* Accessibility: the invariant. *)

\* The searches that are left are the last ones of the plan.
Answered == Len(Plan) - Len(searches)
QueueInv ==
  /\ PlanFits /\ searches \in Seq(Searches) /\ Len(searches) <= Len(Plan)
  /\ \A i \in 1..Len(searches) : searches[i] = Plan[Answered + i]

\* An answer to a search: the nearest source, and the way from it.
AnswerIs(f, q) ==
  /\ f.to \in q.to /\ f.to \in NetNodes /\ f.from \in q.from /\ f.distance \in 0..net.reach
  /\ Metric[f.from][f.to] = f.distance
  /\ \A x \in q.from : /\ f.distance <= Metric[x][f.to]
                       /\ q.goal = 0 /\ x < f.from => f.distance < Metric[x][f.to]
  /\ IF net.mode = "path" THEN WayFits(f.nodes, f.from, f.to, f.distance)
     ELSE f = [from |-> f.from, to |-> f.to, distance |-> f.distance, nodes |-> << >>]
Unreached(q, t) == \A x \in q.from : Far <= Metric[x][t]
FoundInv ==
  /\ \A f \in found : \E i \in 1..Answered : AnswerIs(f, Plan[i])
  /\ \A i \in 1..Answered : \A t \in Plan[i].to :
       (\E f \in found : f.to = t /\ AnswerIs(f, Plan[i])) \/ Unreached(Plan[i], t)
  /\ net.mode = "path" => \A f, g \in found : f = g

AnswerInv(q) ==
  SettlingInv(q) /\ (AllSettled(q) \/ ((\E top : LastIs(q, top)) /\ q.to \subseteq DOMAIN settled))

SetUp == IF net.mode = "path" THEN KnownNodes(net.sources \cup {net.target}) ELSE SnapsFit
AccessInv ==
  /\ net \in AccessCases
  /\ access = "snap" => net.mode # "path" /\ searches = << >> /\ found = {}
  /\ access = "plan" => searches = << >> /\ found = {} /\ (net.mode # "path" => SnapsFit)
  /\ access \in {"search", "pop", "answer"} => SetUp /\ QueueInv /\ FoundInv
  /\ access \in {"pop", "answer"} => searches # << >>
  /\ access = "pop" => \A q : q = Head(searches) => PopInv(q)
  /\ access = "answer" => \A q : q = Head(searches) => AnswerInv(q)
  /\ AccessExact

LEMMA ModesAre == ASSUME net \in AccessCases PROVE net.mode \in {"existing", "candidates", "path"}
BY AccessAssumption DEF AccessInput

LEMMA CallsAreFit == ASSUME net \in AccessCases, SetUp PROVE PlanFits
<1>1. net.mode \in {"existing", "candidates", "path"}
  BY ModesAre
<1>2. CASE net.mode = "existing"
  BY <1>2, ExistingFits DEF SetUp
<1>3. CASE net.mode = "candidates"
  BY <1>3, CandidatesCover DEF SetUp
<1>4. CASE net.mode = "path"
  BY <1>4, PathFitsPlan DEF SetUp
<1> QED BY <1>1, <1>2, <1>3, <1>4

\* What was planned stays so while the snaps stay.
LEMMA PlanKept ==
  ASSUME net' = net, snapped' = snapped
  PROVE /\ Plan' = Plan /\ SetUp' = SetUp /\ SnapsFit' = SnapsFit /\ DemandNodes' = DemandNodes /\ SiteNodes' = SiteNodes
        /\ PlanFits' = PlanFits /\ Searches' = Searches
        /\ (\A f, q : AnswerIs(f, q)' = AnswerIs(f, q)) /\ (\A q, t : Unreached(q, t)' = Unreached(q, t))
        /\ (SnapRefused \/ SnapRepeats)' = (SnapRefused \/ SnapRepeats)
        /\ TooManyExisting' = TooManyExisting /\ TooManyCandidates' = TooManyCandidates
        /\ KnownNodes(net.sources \cup {net.target})' = KnownNodes(net.sources \cup {net.target})
<1>1. /\ NetNodes' = NetNodes /\ Far' = Far /\ Metric' = Metric /\ (\A n : Adjacent(n)' = Adjacent(n))
      /\ (\A m, n : Weight(m, n)' = Weight(m, n))
  BY NetKept
<1>2. DemandNodes' = DemandNodes /\ SiteNodes' = SiteNodes
  BY DEF DemandNodes, SiteNodes
<1>3. TargetBatches' = TargetBatches
  BY <1>2 DEF TargetBatches
<1>4. PlanCandidates' = PlanCandidates /\ PlanExisting' = PlanExisting
  BY <1>2, <1>3 DEF PlanCandidates, PlanExisting
<1>5. Plan' = Plan
  BY <1>4 DEF Plan, PathPlan
<1>6. SnapsFit' = SnapsFit
  BY <1>1 DEF SnapsFit, SnapIs, DemandRefs, SiteRefs
<1>7. KnownNodes(net.sources \cup {net.target})' = KnownNodes(net.sources \cup {net.target})
  BY DEF KnownNodes
<1>8. SetUp' = SetUp
  BY <1>6, <1>7 DEF SetUp
<1>9. Searches' = Searches
  BY <1>1 DEF Searches
<1>10. PlanFits' = PlanFits
  BY <1>2, <1>5, <1>9 DEF PlanFits
<1>11. \A p, m, n, d : WayFits(p, m, n, d)' = WayFits(p, m, n, d)
  BY <1>1 DEF WayFits
<1>12. \A f, q : AnswerIs(f, q)' = AnswerIs(f, q)
  BY <1>1, <1>11 DEF AnswerIs
<1>13. \A q, t : Unreached(q, t)' = Unreached(q, t)
  BY <1>1 DEF Unreached
<1>14. /\ (SnapRefused \/ SnapRepeats)' = (SnapRefused \/ SnapRepeats)
       /\ TooManyExisting' = TooManyExisting /\ TooManyCandidates' = TooManyCandidates
  BY <1>4 DEF SnapRefused, SnapRepeats, InputOrder, TooManyExisting, TooManyCandidates
<1> QED BY <1>2, <1>5, <1>6, <1>7, <1>8, <1>9, <1>10, <1>12, <1>13, <1>14

\* A refusal keeps the invariant when it is one of those that may be.
RefusedFits ==
  \/ net.mode = "path" /\ ~KnownNodes(net.sources \cup {net.target})
  \/ net.mode # "path" /\ (SnapRefused \/ SnapRepeats)
  \/ net.mode = "existing" /\ TooManyExisting
  \/ net.mode = "candidates" /\ TooManyCandidates
  \/ net.maxVisited < Len(net.at)

LEMMA RefusalIsFit == ASSUME AccessInv, Refused, RefusedFits PROVE AccessInv'
<1>1. net' = net /\ snapped' = snapped /\ access' = "refused"
  BY DEF Refused
<1>2. RefusedFits'
  BY <1>1, PlanKept DEF RefusedFits
<1>3. AccessExact'
  BY <1>1, <1>2 DEF AccessExact, RefusedFits
<1>4. net' \in AccessCases
  BY <1>1 DEF AccessInv
<1> QED BY <1>1, <1>3, <1>4 DEF AccessInv

LEMMA AccessStarts == AccessInit => AccessInv
<1> SUFFICES ASSUME AccessInit PROVE AccessInv
  OBVIOUS
<1>1. net \in AccessCases /\ searches = << >> /\ found = {} /\ access = IF net.mode = "path" THEN "plan" ELSE "snap"
  BY DEF AccessInit
<1>2. CASE net.mode = "path"
  BY <1>1, <1>2 DEF AccessInv, AccessExact
<1>3. CASE net.mode # "path"
  BY <1>1, <1>3 DEF AccessInv, AccessExact
<1> QED BY <1>2, <1>3

LEMMA SnapKeeps == ASSUME AccessInv, SnapBatch PROVE AccessInv'
<1>1. access = "snap" /\ net \in AccessCases /\ net.mode # "path" /\ searches = << >> /\ found = {}
  BY DEF AccessInv, SnapBatch
<1>2. CASE Refused /\ (SnapRefused \/ SnapRepeats)
  BY <1>1, <1>2, RefusalIsFit DEF RefusedFits
<1>3. CASE /\ access' = "plan" /\ UNCHANGED <<net, searches, searchVars, found, outcome>>
           /\ SnapsFit'
  BY <1>1, <1>3 DEF AccessInv, AccessExact
<1> QED BY <1>1, <1>2, <1>3, SnapBatchSnaps

\* Before the first answer.
LEMMA QueueStarts ==
  ASSUME net \in AccessCases, SetUp, searches = << >>, found = {}, net' = net, snapped' = snapped,
         searches' = Plan, found' = found, access' = "search"
  PROVE AccessInv'
<1>1. PlanFits /\ Plan \in Seq(Searches)
  <2>1. PlanFits
    BY CallsAreFit
  <2>2. Plan \in Seq(Searches)
    BY <2>1 DEF PlanFits
  <2> QED BY <2>1, <2>2
<1>2. Plan' = Plan /\ PlanFits' /\ Searches' = Searches /\ SetUp'
  BY <1>1, PlanKept
<1>3. Len(Plan) \in Nat
  BY <1>1
<1>4. Answered' = 0
  BY <1>2, <1>3 DEF Answered
<1>5. \A i \in 1..Len(searches') : searches'[i] = Plan'[Answered' + i]
  BY <1>2, <1>3, <1>4
<1>6. QueueInv'
  BY <1>1, <1>2, <1>3, <1>5 DEF QueueInv
<1>7. FoundInv'
  BY <1>4 DEF FoundInv
<1> QED BY <1>2, <1>6, <1>7 DEF AccessInv, AccessExact

LEMMA PlanSearchesKeeps == ASSUME AccessInv, PlanSearches PROVE AccessInv'
<1>1. access = "plan" /\ net \in AccessCases /\ net.mode # "path" /\ searches = << >> /\ found = {} /\ SnapsFit
  BY DEF AccessInv, PlanSearches
<1>2. SetUp /\ net.mode \in {"existing", "candidates"}
  BY <1>1, ModesAre DEF SetUp
<1>3. CASE IF net.mode = "existing" THEN TooManyExisting ELSE TooManyCandidates
  <2>1. Refused
    BY <1>3 DEF PlanSearches
  <2>2. RefusedFits
    BY <1>2, <1>3 DEF RefusedFits
  <2> QED BY <2>1, <2>2, RefusalIsFit
<1>4. CASE ~(IF net.mode = "existing" THEN TooManyExisting ELSE TooManyCandidates)
  <2>1. /\ access' = "search" /\ searches' = Plan
        /\ net' = net /\ snapped' = snapped /\ found' = found
    BY <1>1, <1>4 DEF PlanSearches, Plan
  <2> QED BY <1>1, <1>2, <2>1, QueueStarts
<1> QED BY <1>3, <1>4

LEMMA PlanPathKeeps == ASSUME AccessInv, PlanPath PROVE AccessInv'
<1>1. access = "plan" /\ net \in AccessCases /\ net.mode = "path" /\ searches = << >> /\ found = {}
  BY DEF AccessInv, PlanPath
<1>2. CASE ~KnownNodes(net.sources \cup {net.target})
  <2>1. Refused
    BY <1>2 DEF PlanPath
  <2> QED BY <1>1, <1>2, <2>1, RefusalIsFit DEF RefusedFits
<1>3. CASE KnownNodes(net.sources \cup {net.target})
  <2>1. /\ access' = "search" /\ searches' = Plan
        /\ net' = net /\ snapped' = snapped /\ found' = found
    BY <1>1, <1>3 DEF PlanPath, Plan, PathPlan
  <2>2. SetUp
    BY <1>1, <1>3 DEF SetUp
  <2> QED BY <1>1, <2>1, <2>2, QueueStarts
<1> QED BY <1>2, <1>3

-----------------------------------------------------------------------------
(* Accessibility: the steps of a search. *)

LEMMA HeadIs ==
  ASSUME QueueInv, searches # << >>, NEW q, q = Head(searches)
  PROVE /\ q \in Searches /\ q.from \subseteq NetNodes /\ q.to \subseteq NetNodes /\ q.goal \in {0} \cup NetNodes
        /\ Answered \in Nat /\ Answered + 1 \in 1..Len(Plan) /\ q = Plan[Answered + 1]
        /\ Len(searches) \in Nat \ {0} /\ Len(Plan) \in Nat
        /\ Tail(searches) \in Seq(Searches) /\ Len(Tail(searches)) = Len(searches) - 1
        /\ \A i \in 1..Len(Tail(searches)) : Tail(searches)[i] = Plan[Answered + 1 + i]
<1>1. searches \in Seq(Searches) /\ Len(searches) <= Len(Plan) /\ Plan \in Seq(Searches)
      /\ \A i \in 1..Len(searches) : searches[i] = Plan[Answered + i]
  BY DEF QueueInv, PlanFits
<1>2. Len(searches) \in Nat \ {0} /\ Len(Plan) \in Nat
  BY <1>1
<1>3. Answered \in Nat /\ Answered + 1 \in 1..Len(Plan)
  BY <1>1, <1>2 DEF Answered
<1>4. q = searches[1] /\ q \in Searches
  BY <1>1, <1>2
<1>5. q = Plan[Answered + 1]
  BY <1>1, <1>2, <1>4
<1>6. q.from \subseteq NetNodes /\ q.to \subseteq NetNodes /\ q.goal \in {0} \cup NetNodes
  BY <1>4 DEF Searches
<1>7. Tail(searches) \in Seq(Searches) /\ Len(Tail(searches)) = Len(searches) - 1
      /\ \A i \in 1..Len(Tail(searches)) : Tail(searches)[i] = searches[i + 1]
  BY <1>1, <1>2
<1>8. ASSUME NEW i \in 1..Len(Tail(searches)) PROVE Tail(searches)[i] = Plan[Answered + 1 + i]
  <2>1. i + 1 \in 1..Len(searches) /\ i \in Nat /\ Answered + (i + 1) = Answered + 1 + i
    BY <1>2, <1>3, <1>7
  <2> QED BY <1>1, <1>7, <2>1
<1> QED BY <1>2, <1>3, <1>4, <1>5, <1>6, <1>7, <1>8

\* While a search runs the queue and the answers stay.
LEMMA QueueKept ==
  ASSUME net' = net, snapped' = snapped, searches' = searches, found' = found,
         SetUp, QueueInv, FoundInv
  PROVE SetUp' /\ QueueInv' /\ FoundInv'
<1>1. /\ SetUp' /\ Plan' = Plan /\ PlanFits' = PlanFits /\ Searches' = Searches
      /\ (\A f, q : AnswerIs(f, q)' = AnswerIs(f, q)) /\ (\A q, t : Unreached(q, t)' = Unreached(q, t))
  BY PlanKept
<1>2. Answered' = Answered
  BY <1>1 DEF Answered
<1>3. QueueInv'
  BY <1>1, <1>2 DEF QueueInv
<1>4. FoundInv'
  BY <1>1, <1>2 DEF FoundInv
<1> QED BY <1>1, <1>3, <1>4

LEMMA BeginKeeps == ASSUME AccessInv, BeginSearch PROVE AccessInv'
<1>1. /\ net \in AccessCases /\ SetUp /\ QueueInv /\ FoundInv /\ searches # << >>
      /\ net' = net /\ snapped' = snapped /\ searches' = searches /\ found' = found /\ access' = "pop"
  BY DEF AccessInv, BeginSearch
<1>2. SetUp' /\ QueueInv' /\ FoundInv'
  BY <1>1, QueueKept
<1>3. ASSUME NEW q, q = Head(searches) PROVE PopInv(q)'
  <2>1. q.from \subseteq NetNodes /\ q.goal \in {0} \cup NetNodes
    BY <1>1, <1>3, HeadIs
  <2>2. /\ settled' = << >> /\ frontier' = {<<Priority(s, 0, q.goal), 0, s, s, 0>> : s \in q.from}
        /\ tentative' = [s \in q.from |-> <<0, s, 0>>]
    BY <1>3 DEF BeginSearch
  <2> QED BY <1>1, <2>1, <2>2, SearchStarts
<1>4. \A q : q = Head(searches') => PopInv(q)'
  BY <1>1, <1>3
<1>5. AccessExact'
  BY <1>1 DEF AccessExact
<1> QED BY <1>1, <1>2, <1>4, <1>5 DEF AccessInv

LEMMA PopStaleKeeps == ASSUME AccessInv, PopStale PROVE AccessInv'
<1>1. /\ net \in AccessCases /\ SetUp /\ QueueInv /\ FoundInv /\ searches # << >>
      /\ net' = net /\ snapped' = snapped /\ searches' = searches /\ found' = found /\ access' = "pop"
      /\ \A q : q = Head(searches) => PopInv(q)
  BY DEF AccessInv, PopStale
<1>2. SetUp' /\ QueueInv' /\ FoundInv'
  BY <1>1, QueueKept
<1>3. \A q : q = Head(searches') => PopInv(q)'
  BY <1>1, StaleKeeps
<1>4. AccessExact'
  BY <1>1 DEF AccessExact
<1> QED BY <1>1, <1>2, <1>3, <1>4 DEF AccessInv

LEMMA PopSettleKeeps == ASSUME AccessInv, PopSettle PROVE AccessInv'
<1>1. /\ net \in AccessCases /\ SetUp /\ QueueInv /\ FoundInv /\ searches # << >> /\ access = "pop"
      /\ \A q : q = Head(searches) => PopInv(q)
  BY DEF AccessInv, PopSettle
<1>2. PICK q : q = Head(searches)
  OBVIOUS
<1>3. CASE Refused
  <2>1. net.maxVisited < Len(net.at)
    <3>1. access' = "refused"
      BY <1>3 DEF Refused
    <3> QED BY <1>1, <1>2, <3>1, SettleSteps
  <2> QED BY <1>3, <2>1, RefusalIsFit DEF RefusedFits
<1>4. CASE ~Refused
  <2>1. /\ SettlingInv(q)' /\ searches' = searches
        /\ \/ access' = "answer" /\ (\E top : LastIs(q, top)') /\ q.to \subseteq DOMAIN settled'
           \/ access' = access /\ PopInv(q)'
    BY <1>1, <1>2, <1>4, SettleSteps
  <2>2. net' = net /\ snapped' = snapped /\ found' = found
    BY <1>4 DEF PopSettle, Refused
  <2>3. SetUp' /\ QueueInv' /\ FoundInv'
    BY <1>1, <2>1, <2>2, QueueKept
  <2>4. access' = "pop" => \A p : p = Head(searches') => PopInv(p)'
    BY <1>1, <1>2, <2>1
  <2>5. access' = "answer" => AnswerInv(q)'
    BY <1>1, <2>1 DEF AnswerInv
  <2>6. access' = "answer" => \A p : p = Head(searches') => AnswerInv(p)'
    BY <1>2, <2>1, <2>5
  <2>7. access' \in {"pop", "answer"}
    BY <1>1, <2>1
  <2>8. AccessExact'
    BY <2>7 DEF AccessExact
  <2> QED BY <1>1, <2>1, <2>2, <2>3, <2>4, <2>6, <2>7, <2>8 DEF AccessInv
<1> QED BY <1>3, <1>4

LEMMA ExhaustKeeps == ASSUME AccessInv, Exhaust PROVE AccessInv'
<1>1. /\ net \in AccessCases /\ SetUp /\ QueueInv /\ FoundInv /\ searches # << >> /\ frontier = {}
      /\ net' = net /\ snapped' = snapped /\ searches' = searches /\ found' = found /\ access' = "answer"
      /\ settled' = settled /\ tentative' = tentative
      /\ \A q : q = Head(searches) => PopInv(q)
  BY DEF AccessInv, Exhaust, searchVars
<1>2. SetUp' /\ QueueInv' /\ FoundInv'
  BY <1>1, QueueKept
<1>3. ASSUME NEW q, q = Head(searches) PROVE AnswerInv(q)'
  <2>1. PopInv(q) /\ AllSettled(q)
    BY <1>1, <1>3, ExhaustedAll
  <2>2. SettledFit(q)' /\ TentativeInv(q)' /\ AllSettled(q)'
    BY <1>1, <2>1, SearchKept DEF PopInv, SettlingInv
  <2> QED BY <2>2 DEF AnswerInv, SettlingInv
<1>4. AccessExact'
  BY <1>1 DEF AccessExact
<1>5. \A q : q = Head(searches') => AnswerInv(q)'
  BY <1>1, <1>3
<1> QED BY <1>1, <1>2, <1>4, <1>5 DEF AccessInv

LEMMA AnswersAre ==
  ASSUME net \in AccessCases, NEW q, q.to \subseteq NetNodes, AnswerInv(q)
  PROVE /\ \A t \in q.to \cap DOMAIN settled : AnswerIs(Answer(t), q) /\ Answer(t).to = t
        /\ \A t \in q.to \ DOMAIN settled : Unreached(q, t)
<1>1. SettledFit(q) /\ SettlingInv(q) /\ (AllSettled(q) \/ ((\E top : LastIs(q, top)) /\ q.to \subseteq DOMAIN settled))
  BY DEF AnswerInv, SettlingInv
<1>2. /\ \A k \in DOMAIN settled : NearestIs(q, k)
      /\ AllSettled(q) => \A x \in q.from : \A k \in NetNodes \ DOMAIN settled : Far <= Metric[x][k]
  BY <1>1, SettledAreNearest
<1>3. \A n \in DOMAIN settled : WayFits(ReconstructPath(n), settled[n].origin, n, settled[n].distance)
  BY <1>1, SettledIsTree, WaysLeadBack
<1>4. ASSUME NEW t \in q.to \cap DOMAIN settled PROVE AnswerIs(Answer(t), q) /\ Answer(t).to = t
  <2>1. NearestIs(q, t) /\ WayFits(ReconstructPath(t), settled[t].origin, t, settled[t].distance)
    BY <1>2, <1>3
  <2>2. /\ Answer(t).from = settled[t].origin /\ Answer(t).to = t /\ Answer(t).distance = settled[t].distance
        /\ net.mode = "path" => Answer(t).nodes = ReconstructPath(t)
        /\ net.mode # "path" =>
             Answer(t) = [from |-> settled[t].origin, to |-> t, distance |-> settled[t].distance, nodes |-> << >>]
    BY DEF Answer
  <2> QED BY <2>1, <2>2 DEF AnswerIs, NearestIs
<1>5. ASSUME NEW t \in q.to \ DOMAIN settled PROVE Unreached(q, t)
  <2>1. AllSettled(q) /\ t \in NetNodes \ DOMAIN settled
    BY <1>1
  <2> QED BY <1>2, <2>1 DEF Unreached
<1> QED BY <1>4, <1>5

LEMMA AnswerKeeps == ASSUME AccessInv, AnswerSearch PROVE AccessInv'
<1>1. /\ net \in AccessCases /\ SetUp /\ QueueInv /\ FoundInv /\ searches # << >>
      /\ net' = net /\ snapped' = snapped /\ searches' = Tail(searches) /\ access' = "search"
      /\ found' = found \cup {Answer(t) : t \in Head(searches).to \cap DOMAIN settled}
      /\ \A q : q = Head(searches) => AnswerInv(q)
  BY DEF AccessInv, AnswerSearch
<1>2. PICK q : q = Head(searches)
  OBVIOUS
<1>3. PICK a : a = Answered
  OBVIOUS
<1>4. /\ q.to \subseteq NetNodes /\ a \in Nat /\ a + 1 \in 1..Len(Plan) /\ q = Plan[a + 1]
      /\ Len(searches) \in Nat \ {0} /\ Len(Plan) \in Nat
      /\ Tail(searches) \in Seq(Searches) /\ Len(Tail(searches)) = Len(searches) - 1
      /\ \A i \in 1..Len(Tail(searches)) : Tail(searches)[i] = Plan[a + 1 + i]
  BY <1>1, <1>2, <1>3, HeadIs
<1>5. /\ SetUp' /\ Plan' = Plan /\ PlanFits' = PlanFits /\ Searches' = Searches
      /\ (\A f, p : AnswerIs(f, p)' = AnswerIs(f, p)) /\ (\A p, t : Unreached(p, t)' = Unreached(p, t))
  BY <1>1, PlanKept
<1>6. Answered' = a + 1
  <2>1. Answered = Len(Plan) - Len(searches) /\ Answered' = Len(Plan)' - Len(searches)'
    BY DEF Answered
  <2> QED BY <1>1, <1>3, <1>4, <1>5, <2>1
<1>7. QueueInv'
  <2>1. Len(searches') <= Len(Plan) /\ PlanFits
    BY <1>1, <1>4 DEF QueueInv
  <2> QED BY <1>1, <1>4, <1>5, <1>6, <2>1 DEF QueueInv
<1>8. /\ \A t \in q.to \cap DOMAIN settled : AnswerIs(Answer(t), q) /\ Answer(t).to = t
      /\ \A t \in q.to \ DOMAIN settled : Unreached(q, t)
  BY <1>1, <1>2, <1>4, AnswersAre
<1>9. ASSUME NEW f \in found' PROVE \E i \in 1..(a + 1) : AnswerIs(f, Plan[i])
  <2>1. CASE f \in found
    <3>1. PICK i \in 1..a : AnswerIs(f, Plan[i])
      BY <1>1, <1>3, <2>1 DEF FoundInv
    <3>2. i \in 1..(a + 1)
      BY <1>4
    <3> QED BY <3>1, <3>2
  <2>2. CASE f \notin found
    <3>1. AnswerIs(f, q)
      BY <1>1, <1>2, <1>8, <2>2
    <3>2. a + 1 \in 1..(a + 1)
      BY <1>4
    <3> QED BY <1>4, <3>1, <3>2
  <2> QED BY <2>1, <2>2
<1>10. ASSUME NEW i \in 1..(a + 1), NEW t \in Plan[i].to
       PROVE (\E f \in found' : f.to = t /\ AnswerIs(f, Plan[i])) \/ Unreached(Plan[i], t)
  <2>1. CASE i = a + 1
    <3>1. CASE t \in DOMAIN settled
      <4>1. Answer(t) \in found' /\ Answer(t).to = t /\ AnswerIs(Answer(t), q)
        BY <1>1, <1>2, <1>4, <1>8, <2>1, <3>1
      <4> QED BY <1>4, <2>1, <4>1
    <3>2. CASE t \notin DOMAIN settled
      BY <1>4, <1>8, <2>1, <3>2
    <3> QED BY <3>1, <3>2
  <2>2. CASE i # a + 1
    <3>1. i \in 1..a
      BY <1>4, <2>2
    <3>2. (\E f \in found : f.to = t /\ AnswerIs(f, Plan[i])) \/ Unreached(Plan[i], t)
      BY <1>1, <1>3, <3>1 DEF FoundInv
    <3> QED BY <1>1, <3>2
  <2> QED BY <2>1, <2>2
<1>11. ASSUME net.mode = "path", NEW f \in found', NEW g \in found' PROVE f = g
  <2>1. Len(Plan) = 1 /\ Plan[1].to = {net.target}
    BY <1>1, <1>11 DEF QueueInv, PlanFits
  <2>2. a = 0
    BY <1>4, <2>1
  <2>3. found = {}
    <3>1. \A h \in found : \E i \in 1..a : AnswerIs(h, Plan[i])
      BY <1>1, <1>3 DEF FoundInv
    <3> QED BY <2>2, <3>1
  <2>4. q.to = {net.target}
    BY <1>4, <2>1, <2>2
  <2> QED BY <1>1, <1>2, <2>3, <2>4
<1>12. FoundInv'
  BY <1>1, <1>5, <1>6, <1>9, <1>10, <1>11 DEF FoundInv
<1>13. AccessExact'
  BY <1>1 DEF AccessExact
<1> QED BY <1>1, <1>5, <1>7, <1>12, <1>13 DEF AccessInv

-----------------------------------------------------------------------------
(* Accessibility: the outcomes of a batch. *)

LEMMA ReasonsAreFinite == IsFiniteSet(UnavailableReasons) /\ "" \notin UnavailableReasons
<1>1. /\ IsFiniteSet({"demand_unsnapped"}) /\ IsFiniteSet({"facility_site_unsnapped"}) /\ IsFiniteSet({"both_unsnapped"})
      /\ IsFiniteSet({"no_path_within_max_distance"}) /\ IsFiniteSet({"no_snapped_facility_site"})
  BY FS_Singleton
<1>2. IsFiniteSet({"demand_unsnapped"} \cup {"facility_site_unsnapped"})
  BY <1>1, FS_Union
<1>3. IsFiniteSet(({"demand_unsnapped"} \cup {"facility_site_unsnapped"}) \cup {"both_unsnapped"})
  BY <1>1, <1>2, FS_Union
<1>4. IsFiniteSet((({"demand_unsnapped"} \cup {"facility_site_unsnapped"}) \cup {"both_unsnapped"})
                  \cup {"no_path_within_max_distance"})
  BY <1>1, <1>3, FS_Union
<1>5. IsFiniteSet(((({"demand_unsnapped"} \cup {"facility_site_unsnapped"}) \cup {"both_unsnapped"})
                  \cup {"no_path_within_max_distance"}) \cup {"no_snapped_facility_site"})
  BY <1>1, <1>4, FS_Union
<1>6. UnavailableReasons = ((({"demand_unsnapped"} \cup {"facility_site_unsnapped"}) \cup {"both_unsnapped"})
                  \cup {"no_path_within_max_distance"}) \cup {"no_snapped_facility_site"}
  BY DEF UnavailableReasons
<1>7. "" \notin UnavailableReasons
  BY DEF UnavailableReasons
<1> QED BY <1>5, <1>6, <1>7

\* Every subject is counted once when each has one of the reasons or none.
LEMMA CountsAgree ==
  ASSUME NEW outcomes, IsFiniteSet(DOMAIN outcomes),
         \A k \in DOMAIN outcomes : outcomes[k].reason \in {""} \cup UnavailableReasons
  PROVE AccessCountsAgree(AccessDiagnostics(outcomes))
<1> DEFINE D == DOMAIN outcomes
           K == UnavailableReasons
           F == [r \in K |-> {k \in D : outcomes[k].reason = r}]
           g == [r \in K |-> Cardinality({k \in D : outcomes[k].reason = r})]
           A == {k \in D : outcomes[k].reason = ""}
           B == D \ A
<1>1. /\ AccessDiagnostics(outcomes).subjects = Cardinality(D) /\ AccessDiagnostics(outcomes).reachable = Cardinality(A)
      /\ AccessDiagnostics(outcomes).unavailable = g
  BY DEF AccessDiagnostics
<1>2. IsFiniteSet(A) /\ IsFiniteSet(B)
  BY FS_Subset
<1>3. A \cap B = {} /\ A \cup B = D
  OBVIOUS
<1>4. Pieces(K, F, g, B)
  <2>1. IsFiniteSet(K) /\ "" \notin K
    BY ReasonsAreFinite
  <2>2. \A r \in K : IsFiniteSet(F[r]) /\ g[r] = Cardinality(F[r])
    <3> TAKE r \in K
    <3>1. F[r] = {k \in D : outcomes[k].reason = r} /\ g[r] = Cardinality({k \in D : outcomes[k].reason = r})
      OBVIOUS
    <3>2. IsFiniteSet({k \in D : outcomes[k].reason = r})
      BY FS_Subset
    <3> QED BY <3>1, <3>2
  <2>3. \A r \in K : F[r] = {k \in D : outcomes[k].reason = r}
    OBVIOUS
  <2>4. \A k \in D : outcomes[k].reason \in {""} \cup K
    OBVIOUS
  <2> HIDE DEF F, K, D, g
  <2>5. B = UNION {F[r] : r \in K}
    <3>1. ASSUME NEW k \in B PROVE k \in UNION {F[r] : r \in K}
      <4>1. k \in D /\ outcomes[k].reason \in K
        BY <2>4, <3>1
      <4>2. k \in F[outcomes[k].reason]
        BY <2>3, <4>1
      <4> QED BY <4>1, <4>2
    <3>2. ASSUME NEW k \in UNION {F[r] : r \in K} PROVE k \in B
      <4>1. PICK r \in K : k \in F[r]
        BY <3>2
      <4>2. k \in D /\ outcomes[k].reason = r
        BY <2>3, <4>1
      <4> QED BY <2>1, <4>1, <4>2
    <3> QED BY <3>1, <3>2
  <2>6. \A r, s \in K : r # s => F[r] \cap F[s] = {}
    BY <2>3
  <2> QED BY <2>1, <2>2, <2>5, <2>6 DEF Pieces
<1>5. SumFunctionOnSet(g, K) = Cardinality(B)
  <2> HIDE DEF g, K, F, B
  <2> QED BY <1>4, SizeOfParts
<1>6. SumFunction(g) = SumFunctionOnSet(g, K)
  <2>1. DOMAIN g = K
    OBVIOUS
  <2> HIDE DEF g, K
  <2> QED BY <2>1, WholeSum
<1>7. Cardinality(D) = Cardinality(A) + Cardinality(B)
  <2> HIDE DEF A, B, D
  <2> QED BY <1>2, <1>3, SizeOfBoth
<1> HIDE DEF A, B, D, g, K
<1> QED BY <1>1, <1>5, <1>6, <1>7 DEF AccessCountsAgree

\* When no search is left every target has its answer, or is out of reach.
AnswersHold ==
  /\ net \in AccessCases /\ SetUp /\ PlanFits
  /\ \A f \in found : \E i \in 1..Len(Plan) : AnswerIs(f, Plan[i])
  /\ \A i \in 1..Len(Plan) : \A t \in Plan[i].to :
       (\E f \in found : f.to = t /\ AnswerIs(f, Plan[i])) \/ Unreached(Plan[i], t)
  /\ net.mode = "path" => \A f, g \in found : f = g

LEMMA SearchesDone == ASSUME AccessInv, access = "search", searches = << >> PROVE AnswersHold
<1>1. net \in AccessCases /\ SetUp /\ QueueInv /\ FoundInv
  BY DEF AccessInv
<1>2. PlanFits /\ Len(Plan) \in Nat
  BY <1>1 DEF QueueInv, PlanFits
<1>3. Answered = Len(Plan)
  BY <1>2 DEF Answered
<1> QED BY <1>1, <1>2, <1>3 DEF AnswersHold, FoundInv

\* A distance in reach that an answer gives is that of the metric.
LEMMA FoundIs ==
  ASSUME AnswersHold, NEW f \in found
  PROVE /\ f.from \in NetNodes /\ f.to \in NetNodes /\ f.distance \in 0..net.reach /\ f.distance \in Nat
        /\ Metric[f.from][f.to] = f.distance
        /\ net.mode # "path" =>
             /\ f.from \in SiteNodes /\ f.to \in DemandNodes
             /\ f = [from |-> f.from, to |-> f.to, distance |-> f.distance, nodes |-> << >>]
<1>1. PICK i \in 1..Len(Plan) : AnswerIs(f, Plan[i])
  BY DEF AnswersHold
<1>2. net \in AccessCases /\ Plan \in Seq(Searches)
  BY DEF AnswersHold, PlanFits
<1>3. Plan[i] \in Searches
  BY <1>2
<1>4. Plan[i].from \subseteq NetNodes
  BY <1>3 DEF Searches
<1>5. net.mode # "path" => Plan[i].from \subseteq SiteNodes /\ Plan[i].to \subseteq DemandNodes
  BY DEF AnswersHold, PlanFits
<1>6. net.reach \in Nat
  BY <1>2, NetIs
<1> QED BY <1>1, <1>4, <1>5, <1>6 DEF AnswerIs

\* All facilities at once: the answer names the nearest of them, of equal ones the first.
LEMMA NearestFound ==
  ASSUME AnswersHold, net.mode = "existing", NEW f \in found
  PROVE \A x \in SiteNodes : /\ f.distance <= Metric[x][f.to]
                             /\ x < f.from => f.distance < Metric[x][f.to]
<1>1. PICK i \in 1..Len(Plan) : AnswerIs(f, Plan[i])
  BY DEF AnswersHold
<1>2. PlanFits /\ Len(Plan) \in Nat
  BY DEF AnswersHold, PlanFits
<1>3. Len(Plan) <= 1 /\ Plan[i].from \subseteq SiteNodes /\ Plan[i].to \subseteq DemandNodes /\ Plan[i].goal = 0
  BY <1>2 DEF PlanFits
<1>4. i = 1
  BY <1>2, <1>3
<1>5. DemandNodes # {} /\ SiteNodes # {}
  BY <1>1, <1>3 DEF AnswerIs
<1>6. Plan[i].from = SiteNodes
  BY <1>2, <1>4, <1>5 DEF PlanFits
<1> QED BY <1>1, <1>3, <1>6 DEF AnswerIs

\* A target that no answer names is out of reach of every facility.
LEMMA NoneFound ==
  ASSUME AnswersHold, net.mode = "existing", NEW t \in DemandNodes, ~\E f \in found : f.to = t
  PROVE \A x \in SiteNodes : Far <= Metric[x][t]
<1> SUFFICES ASSUME NEW x \in SiteNodes PROVE Far <= Metric[x][t]
  OBVIOUS
<1>1. Len(Plan) = 1 /\ Plan[1].from = SiteNodes /\ Plan[1].to = DemandNodes
  BY DEF AnswersHold, PlanFits
<1>2. Unreached(Plan[1], t)
  BY <1>1 DEF AnswersHold
<1> QED BY <1>1, <1>2 DEF Unreached

\* The same for a pair of a target and a node with candidates.
LEMMA NoPairFound ==
  ASSUME AnswersHold, net.mode = "candidates", NEW t \in DemandNodes, NEW s \in SiteNodes,
         ~\E f \in found : f.from = s /\ f.to = t
  PROVE Far <= Metric[s][t]
<1>1. PICK i \in 1..Len(Plan) : s \in Plan[i].from /\ t \in Plan[i].to
  BY DEF AnswersHold, PlanFits
<1>2. \A x, y \in Plan[i].from : x = y
  BY DEF AnswersHold, PlanFits
<1>3. ASSUME NEW f \in found, f.to = t, AnswerIs(f, Plan[i]) PROVE FALSE
  BY <1>1, <1>2, <1>3 DEF AnswerIs
<1>4. Unreached(Plan[i], t)
  BY <1>1, <1>3 DEF AnswersHold
<1> QED BY <1>1, <1>4 DEF Unreached

LEMMA AnswersDoFit ==
  ASSUME AnswersHold, net.mode # "path" PROVE AnswersFit(found)
<1>1. \A f \in found : f.from \in SiteNodes /\ f.to \in DemandNodes
  BY FoundIs
<1>2. ASSUME NEW f \in found, NEW g \in found, f.to = g.to, net.mode = "candidates" => f.from = g.from
      PROVE f = g
  <2>1. /\ f = [from |-> f.from, to |-> f.to, distance |-> f.distance, nodes |-> << >>]
        /\ g = [from |-> g.from, to |-> g.to, distance |-> g.distance, nodes |-> << >>]
        /\ Metric[f.from][f.to] = f.distance /\ Metric[g.from][g.to] = g.distance
        /\ f.from \in SiteNodes /\ g.from \in SiteNodes
    BY FoundIs
  <2>2. f.from = g.from
    <3>1. CASE net.mode = "candidates"
      BY <1>2, <3>1
    <3>2. CASE net.mode = "existing"
      <4>1. /\ f.distance <= Metric[g.from][f.to] /\ (g.from < f.from => f.distance < Metric[g.from][f.to])
            /\ g.distance <= Metric[f.from][g.to] /\ (f.from < g.from => g.distance < Metric[f.from][g.to])
        BY <2>1, <3>2, NearestFound
      <4>2. f.distance \in Nat /\ g.distance \in Nat /\ f.from \in NetNodes /\ g.from \in NetNodes
        BY FoundIs
      <4>3. NetNodes = 1..Len(net.at)
        BY NetIs DEF AnswersHold
      <4> QED BY <1>2, <2>1, <4>1, <4>2, <4>3
    <3> QED BY <3>1, <3>2, ModesAre DEF AnswersHold
  <2> QED BY <1>2, <2>1, <2>2
<1> QED BY <1>1, <1>2 DEF AnswersFit

\* The way from a site to a demand, and the sites that are near enough.
WayTo(d, s) ==
  IF snapped.demand[d].node = 0 \/ snapped.site[s].node = 0 THEN Far
  ELSE Metric[snapped.site[s].node][snapped.demand[d].node]
RankOf(d, s) == <<WayTo(d, s), snapped.site[s].node, s>>
Nearby(d) == {s \in DOMAIN snapped.site : WayTo(d, s) <= net.reach}

\* What the outcome of a demand, and that of a pair, ought to be.
DemandIs(d, o) ==
  IF Nearby(d) # {}
  THEN \E s \in Nearby(d) : /\ o = Reachable(s, WayTo(d, s))
                            /\ \A x \in Nearby(d) \ {s} : Precedes(RankOf(d, s), RankOf(d, x))
  ELSE o.site = 0 /\ o.reason =
         CASE snapped.demand[d].node = 0 -> "demand_unsnapped"
           [] SiteNodes = {} /\ snapped.demand[d].node # 0 -> "no_snapped_facility_site"
           [] OTHER -> "no_path_within_max_distance"
PairIs(d, s, o) ==
  IF WayTo(d, s) <= net.reach THEN o = Reachable(s, WayTo(d, s))
  ELSE o.reason # "" /\ o.demandWhy = snapped.demand[d].reason /\ o.siteWhy = snapped.site[s].reason
SubjectFits(o) ==
  /\ o.reason \in {""} \cup UnavailableReasons
  /\ IF o.reason = "" THEN ReachableFits(o) ELSE ReasonsFit(o)

LEMMA UnavailableIs ==
  ASSUME NEW r, NEW a, NEW b
  PROVE /\ Unavailable(r, a, b).site = 0 /\ Unavailable(r, a, b).reason = r
        /\ Unavailable(r, a, b).demandWhy = a /\ Unavailable(r, a, b).siteWhy = b
BY DEF Unavailable

LEMMA WayIs ==
  ASSUME AnswersHold, net.mode # "path", NEW d \in DemandRefs, NEW s \in SiteRefs
  PROVE /\ SnapIs(snapped.demand[d]) /\ SnapIs(snapped.site[s])
        /\ WayTo(d, s) \in Nat /\ net.reach \in Nat /\ Far = net.reach + 1
        /\ snapped.demand[d].node \in {0} \cup DemandNodes /\ snapped.site[s].node \in {0} \cup SiteNodes
        /\ snapped.demand[d].node \in Nat /\ snapped.site[s].node \in Nat /\ s \in Nat
        /\ DOMAIN snapped.site = SiteRefs /\ DOMAIN snapped.demand = DemandRefs
<1>1. net \in AccessCases /\ SnapsFit
  BY DEF AnswersHold, SetUp
<1>2. SnapIs(snapped.demand[d]) /\ SnapIs(snapped.site[s]) /\ DOMAIN snapped.site = SiteRefs
      /\ DOMAIN snapped.demand = DemandRefs /\ SiteRefs \subseteq Nat
  BY <1>1 DEF SnapsFit
<1>3. net.reach \in Nat /\ NetNodes = 1..Len(net.at) /\ Len(net.at) \in Nat
  BY <1>1, NetIs
<1>4. Far = net.reach + 1
  BY DEF Far
<1>5. snapped.demand[d].node \in {0} \cup DemandNodes /\ snapped.site[s].node \in {0} \cup SiteNodes
  BY <1>1, NodesAre
<1>6. snapped.demand[d].node \in {0} \cup NetNodes /\ snapped.site[s].node \in {0} \cup NetNodes
  BY <1>2 DEF SnapIs
<1>7. \A m, n \in NetNodes : Metric[m][n] \in Nat
  BY <1>1, MetricIs DEF MetricTo
<1>8. WayTo(d, s) \in Nat
  BY <1>3, <1>4, <1>6, <1>7 DEF WayTo
<1> QED BY <1>2, <1>3, <1>4, <1>5, <1>6, <1>8

LEMMA FacilityIs ==
  ASSUME AnswersHold, net.mode # "path", NEW n \in SiteNodes
  PROVE /\ FacilityAt(n) \in SiteRefs /\ snapped.site[FacilityAt(n)].node = n
        /\ \A s \in SiteRefs : snapped.site[s].node = n => FacilityAt(n) <= s
<1> DEFINE S == {s \in SiteRefs : snapped.site[s].node = n}
<1>1. net \in AccessCases /\ SnapsFit
  BY DEF AnswersHold, SetUp
<1>2. DOMAIN snapped.site = SiteRefs /\ IsFiniteSet(SiteRefs) /\ SiteRefs \subseteq Nat
  BY <1>1 DEF SnapsFit
<1>3. S # {}
  BY <1>1, NodesAre
<1>4. IsFiniteSet(S) /\ S \subseteq Int
  <2>1. S \in SUBSET SiteRefs
    OBVIOUS
  <2> HIDE DEF S
  <2>2. IsFiniteSet(S)
    BY <1>2, <2>1, FS_Subset
  <2> QED BY <1>2, <2>1, <2>2
<1>5. FacilityAt(n) = Min(S)
  BY <1>2 DEF FacilityAt, SnappedNode
<1>6. Min(S) \in S /\ \A x \in S : Min(S) <= x
  <2> HIDE DEF S
  <2> QED BY <1>3, <1>4, MinOf
<1> QED BY <1>5, <1>6

LEMMA DemandReached ==
  ASSUME AnswersHold, net.mode = "existing", NEW d \in DemandRefs, NEW f \in found, f.to = snapped.demand[d].node
  PROVE /\ FacilityAt(f.from) \in Nearby(d) /\ WayTo(d, FacilityAt(f.from)) = f.distance
        /\ \A x \in Nearby(d) \ {FacilityAt(f.from)} : Precedes(RankOf(d, FacilityAt(f.from)), RankOf(d, x))
        /\ SubjectFits(Reachable(FacilityAt(f.from), f.distance))
<1> DEFINE s == FacilityAt(f.from)
           t == snapped.demand[d].node
<1>1. /\ f.from \in SiteNodes /\ f.from \in NetNodes /\ t \in NetNodes /\ t \in DemandNodes
      /\ f.distance \in 0..net.reach /\ f.distance \in Nat
      /\ Metric[f.from][t] = f.distance
  BY FoundIs
<1>2. s \in SiteRefs /\ snapped.site[s].node = f.from
      /\ \A x \in SiteRefs : snapped.site[x].node = f.from => s <= x
  BY <1>1, FacilityIs
<1>3. net \in AccessCases /\ 0 \notin NetNodes
  BY NetIs DEF AnswersHold
<1>4. WayTo(d, s) = f.distance
  BY <1>1, <1>2, <1>3 DEF WayTo
<1>5. DOMAIN snapped.site = SiteRefs /\ s \in Nat /\ f.from \in Nat /\ net.reach \in Nat
  BY <1>2, WayIs
<1>6. s \in Nearby(d)
  BY <1>1, <1>2, <1>4, <1>5 DEF Nearby
<1>7. ASSUME NEW x \in Nearby(d) \ {s} PROVE Precedes(RankOf(d, s), RankOf(d, x))
  <2> DEFINE n == snapped.site[x].node
  <2>1. x \in SiteRefs /\ WayTo(d, x) <= net.reach
    BY <1>5 DEF Nearby
  <2>2. WayTo(d, x) \in Nat /\ Far = net.reach + 1 /\ n \in {0} \cup SiteNodes /\ n \in Nat /\ x \in Nat
    BY <2>1, WayIs
  <2>3. n # 0 /\ t # 0
    <3>1. n = 0 \/ t = 0 => WayTo(d, x) = net.reach + 1
      BY <2>2 DEF WayTo
    <3> HIDE DEF n, t
    <3> QED BY <1>5, <2>1, <2>2, <3>1
  <2>4. WayTo(d, x) = Metric[n][t] /\ n \in SiteNodes
    BY <2>2, <2>3 DEF WayTo
  <2>5. f.distance <= Metric[n][t] /\ (n < f.from => f.distance < Metric[n][t])
    BY <2>4, NearestFound
  <2>6. n = f.from => s <= x
    BY <1>2, <2>1
  <2>7. /\ RankOf(d, s) \in Triples /\ RankOf(d, x) \in Triples
        /\ RankOf(d, s)[1] = f.distance /\ RankOf(d, s)[2] = f.from /\ RankOf(d, s)[3] = s
        /\ RankOf(d, x)[1] = WayTo(d, x) /\ RankOf(d, x)[2] = n /\ RankOf(d, x)[3] = x
    <3>1. RankOf(d, s) = <<f.distance, f.from, s>> /\ RankOf(d, x) = <<WayTo(d, x), n, x>>
      BY <1>2, <1>4 DEF RankOf
    <3> HIDE DEF n, s
    <3> QED BY <1>1, <1>5, <2>2, <3>1 DEF Triples
  <2>8. \/ f.distance < WayTo(d, x)
        \/ f.distance = WayTo(d, x) /\ f.from < n
        \/ f.distance = WayTo(d, x) /\ f.from = n /\ s < x
    <3>1. x # s
      OBVIOUS
    <3> HIDE DEF n, s, t
    <3> QED BY <1>1, <1>5, <2>2, <2>4, <2>5, <2>6, <3>1
  <2> QED BY <2>7, <2>8, TripleOrder
<1>8. SubjectFits(Reachable(s, f.distance))
  BY <1>1, <1>2, <1>5 DEF SubjectFits, Reachable, ReachableFits
<1> QED BY <1>4, <1>6, <1>7, <1>8

LEMMA DemandUnreached ==
  ASSUME AnswersHold, net.mode = "existing", NEW d \in DemandRefs, ~\E f \in found : f.to = snapped.demand[d].node
  PROVE Nearby(d) = {}
<1> SUFFICES ASSUME NEW s \in Nearby(d) PROVE FALSE
  OBVIOUS
<1>1. net \in AccessCases /\ SnapsFit
  BY DEF AnswersHold, SetUp
<1>2. s \in SiteRefs /\ WayTo(d, s) <= net.reach
  BY <1>1 DEF Nearby, SnapsFit
<1>3. /\ WayTo(d, s) \in Nat /\ net.reach \in Nat /\ Far = net.reach + 1
      /\ snapped.demand[d].node \in {0} \cup DemandNodes /\ snapped.site[s].node \in {0} \cup SiteNodes
  BY <1>2, WayIs
<1>4. Far <= WayTo(d, s)
  <2>1. CASE snapped.demand[d].node = 0 \/ snapped.site[s].node = 0
    BY <1>3, <2>1 DEF WayTo
  <2>2. CASE snapped.demand[d].node # 0 /\ snapped.site[s].node # 0
    BY <1>3, <2>2, NoneFound DEF WayTo
  <2> QED BY <2>1, <2>2
<1> QED BY <1>2, <1>3, <1>4

LEMMA ExistingIs ==
  ASSUME AnswersHold, net.mode = "existing", NEW d \in DemandRefs
  PROVE DemandIs(d, ExistingOutcome(d)) /\ SubjectFits(ExistingOutcome(d))
<1> DEFINE demand == snapped.demand[d]
           answers == {f \in found : f.to = demand.node}
<1>1. CASE answers # {}
  <2>1. PICK f \in answers : ExistingOutcome(d) = Reachable(FacilityAt(f.from), f.distance)
    BY <1>1 DEF ExistingOutcome
  <2>2. f \in found /\ f.to = snapped.demand[d].node
    OBVIOUS
  <2>3. /\ FacilityAt(f.from) \in Nearby(d) /\ WayTo(d, FacilityAt(f.from)) = f.distance
        /\ \A x \in Nearby(d) \ {FacilityAt(f.from)} : Precedes(RankOf(d, FacilityAt(f.from)), RankOf(d, x))
        /\ SubjectFits(Reachable(FacilityAt(f.from), f.distance))
    BY <2>2, DemandReached
  <2> QED BY <2>1, <2>3 DEF DemandIs
<1>2. CASE answers = {}
  <2>1. Nearby(d) = {}
    BY <1>2, DemandUnreached
  <2>2. SnapIs(demand)
    <3>1. SnapsFit
      BY DEF AnswersHold, SetUp
    <3> QED BY <3>1 DEF SnapsFit
  <2>3. ExistingOutcome(d) =
          IF demand.node = 0 THEN Unavailable("demand_unsnapped", demand.reason, "")
          ELSE IF SiteNodes = {} THEN Unavailable("no_snapped_facility_site", "", "")
          ELSE Unavailable("no_path_within_max_distance", "", "")
    BY <1>2 DEF ExistingOutcome
  <2> HIDE DEF answers
  <2>4. PICK o : o = ExistingOutcome(d)
    OBVIOUS
  <2>5. CASE demand.node = 0
    <3>1. o = Unavailable("demand_unsnapped", demand.reason, "")
      BY <2>3, <2>4, <2>5
    <3>2. o.site = 0 /\ o.reason = "demand_unsnapped" /\ o.demandWhy = demand.reason /\ o.siteWhy = ""
      BY <3>1 DEF Unavailable
    <3>3. demand.reason # ""
      BY <2>2, <2>5 DEF SnapIs
    <3>4. DemandIs(d, o)
      BY <2>1, <2>5, <3>2 DEF DemandIs
    <3>5. SubjectFits(o)
      <4>1. o.reason \in {""} \cup UnavailableReasons /\ o.reason # ""
        BY <3>2 DEF UnavailableReasons
      <4>2. ReasonsFit(o)
        BY <3>2, <3>3 DEF ReasonsFit
      <4> QED BY <4>1, <4>2 DEF SubjectFits
    <3> QED BY <2>4, <3>4, <3>5
  <2>6. CASE demand.node # 0 /\ SiteNodes = {}
    <3>1. o = Unavailable("no_snapped_facility_site", "", "")
      BY <2>3, <2>4, <2>6
    <3>2. o.site = 0 /\ o.reason = "no_snapped_facility_site" /\ o.demandWhy = "" /\ o.siteWhy = ""
      BY <3>1 DEF Unavailable
    <3>3. DemandIs(d, o)
      BY <2>1, <2>6, <3>2 DEF DemandIs
    <3>4. SubjectFits(o)
      <4>1. o.reason \in {""} \cup UnavailableReasons /\ o.reason # ""
        BY <3>2 DEF UnavailableReasons
      <4>2. ReasonsFit(o)
        BY <3>2 DEF ReasonsFit
      <4> QED BY <4>1, <4>2 DEF SubjectFits
    <3> QED BY <2>4, <3>3, <3>4
  <2>7. CASE demand.node # 0 /\ SiteNodes # {}
    <3>1. o = Unavailable("no_path_within_max_distance", "", "")
      BY <2>3, <2>4, <2>7
    <3>2. o.site = 0 /\ o.reason = "no_path_within_max_distance" /\ o.demandWhy = "" /\ o.siteWhy = ""
      BY <3>1 DEF Unavailable
    <3>3. DemandIs(d, o)
      BY <2>1, <2>7, <3>2 DEF DemandIs
    <3>4. SubjectFits(o)
      <4>1. o.reason \in {""} \cup UnavailableReasons /\ o.reason # ""
        BY <3>2 DEF UnavailableReasons
      <4>2. ReasonsFit(o)
        BY <3>2 DEF ReasonsFit
      <4> QED BY <4>1, <4>2 DEF SubjectFits
    <3> QED BY <2>4, <3>3, <3>4
  <2> QED BY <2>5, <2>6, <2>7
<1> QED BY <1>1, <1>2

LEMMA PairOutcomeIs ==
  ASSUME AnswersHold, net.mode = "candidates", NEW d \in DemandRefs, NEW s \in SiteRefs, NEW o, o = PairOutcome(d, s)
  PROVE PairIs(d, s, o) /\ SubjectFits(o) /\ (o.reason = "" => o.site = s)
<1> DEFINE demand == snapped.demand[d]
           place == snapped.site[s]
           answers == {f \in found : f.from = place.node /\ f.to = demand.node}
<1>1. /\ SnapIs(demand) /\ SnapIs(place) /\ WayTo(d, s) \in Nat /\ net.reach \in Nat /\ Far = net.reach + 1
      /\ demand.node \in {0} \cup DemandNodes /\ place.node \in {0} \cup SiteNodes
      /\ DOMAIN snapped.site = SiteRefs
  BY WayIs
<1>2. net \in AccessCases /\ 0 \notin NetNodes
  BY NetIs DEF AnswersHold
<1>3. CASE answers # {}
  <2>1. PICK f \in answers : o = Reachable(s, f.distance)
    BY <1>3 DEF PairOutcome
  <2>2. /\ f.from = place.node /\ f.to = demand.node /\ f.from \in NetNodes /\ f.to \in NetNodes
        /\ f.distance \in 0..net.reach /\ f.distance \in Nat /\ Metric[f.from][f.to] = f.distance
    BY FoundIs
  <2>3. WayTo(d, s) = f.distance
    BY <1>2, <2>2 DEF WayTo
  <2>4. o.reason = "" /\ o.site = s /\ o.distance = f.distance
    <3>1. PICK w : w = f.distance
      OBVIOUS
    <3>2. o = [site |-> s, distance |-> w, reason |-> "", demandWhy |-> "", siteWhy |-> ""]
      BY <2>1, <3>1 DEF Reachable
    <3> QED BY ONLY <3>1, <3>2
  <2>5. PairIs(d, s, o)
    BY <1>1, <2>1, <2>2, <2>3 DEF PairIs
  <2>6. SubjectFits(o)
    BY <1>1, <2>2, <2>4 DEF SubjectFits, ReachableFits
  <2> QED BY <2>4, <2>5, <2>6
<1>4. CASE answers = {}
  <2> DEFINE why == IF demand.node = 0 /\ place.node = 0 THEN "both_unsnapped"
                    ELSE IF demand.node = 0 THEN "demand_unsnapped"
                    ELSE IF place.node = 0 THEN "facility_site_unsnapped"
                    ELSE "no_path_within_max_distance"
  <2>1. o = Unavailable(why, demand.reason, place.reason)
    BY <1>4 DEF PairOutcome
  <2>2. Far <= WayTo(d, s)
    <3>1. CASE demand.node = 0 \/ place.node = 0
      BY <1>1, <3>1 DEF WayTo
    <3>2. CASE demand.node # 0 /\ place.node # 0
      <4>1. demand.node \in DemandNodes /\ place.node \in SiteNodes
        BY <1>1, <3>2
      <4>2. ~\E f \in found : f.from = place.node /\ f.to = demand.node
        BY <1>4
      <4>3. Far <= Metric[place.node][demand.node]
        BY <4>1, <4>2, NoPairFound
      <4> QED BY <3>2, <4>3 DEF WayTo
    <3> QED BY <3>1, <3>2
  <2>3. ~(WayTo(d, s) <= net.reach)
    BY <1>1, <2>2
  <2>4. o.reason = why /\ o.demandWhy = demand.reason /\ o.siteWhy = place.reason
    BY <2>1 DEF Unavailable
  <2>5. why # "" /\ why \in UnavailableReasons
    BY DEF UnavailableReasons
  <2>6. ReasonsFit(o)
    <3>1. (demand.node = 0 <=> demand.reason # "") /\ (place.node = 0 <=> place.reason # "")
      BY <1>1 DEF SnapIs
    <3> QED BY <2>4, <3>1 DEF ReasonsFit
  <2> HIDE DEF why
  <2>7. PairIs(d, s, o)
    BY <2>3, <2>4, <2>5 DEF PairIs
  <2>8. SubjectFits(o)
    BY <2>4, <2>5, <2>6 DEF SubjectFits
  <2> QED BY <2>4, <2>5, <2>7, <2>8
<1> QED BY <1>3, <1>4

\* The checks of the result hold when each subject has an outcome that fits.
LEMMA BatchDoesFit ==
  ASSUME NEW outcomes, IsFiniteSet(DOMAIN outcomes), \A k \in DOMAIN outcomes : SubjectFits(outcomes[k]),
         net.mode = "candidates" => \A k \in DOMAIN outcomes : outcomes[k].reason = "" => outcomes[k].site = k[2]
  PROVE BatchFits(outcomes)
<1>1. AccessCountsAgree(AccessDiagnostics(outcomes))
  BY CountsAgree DEF SubjectFits
<1>2. \A k \in DOMAIN outcomes :
        IF outcomes[k].reason = "" THEN ReachableFits(outcomes[k]) ELSE ReasonsFit(outcomes[k])
  BY DEF SubjectFits
<1> QED BY <1>1, <1>2 DEF BatchFits

LEMMA WaysKept ==
  ASSUME net' = net, snapped' = snapped
  PROVE /\ DemandRefs' = DemandRefs /\ SiteRefs' = SiteRefs
        /\ \A d, o : DemandIs(d, o)' = DemandIs(d, o)
        /\ \A d, s, o : PairIs(d, s, o)' = PairIs(d, s, o)
<1>1. Metric' = Metric /\ Far' = Far /\ SiteNodes' = SiteNodes
  BY NetKept, PlanKept
<1>2. \A d, s : WayTo(d, s)' = WayTo(d, s)
  BY <1>1 DEF WayTo
<1>3. /\ \A d, s : RankOf(d, s)' = RankOf(d, s)
      /\ \A d : Nearby(d)' = Nearby(d)
  BY <1>2 DEF RankOf, Nearby
<1>4. \A d, o : DemandIs(d, o)' = DemandIs(d, o)
  BY <1>1, <1>2, <1>3 DEF DemandIs
<1>5. \A d, s, o : PairIs(d, s, o)' = PairIs(d, s, o)
  BY <1>2 DEF PairIs
<1> QED BY <1>4, <1>5 DEF DemandRefs, SiteRefs

\* The batch is exact when each outcome is.
LEMMA BatchIsExact ==
  ASSUME net' = net, snapped' = snapped,
         net.mode = "existing" => \A d \in DemandRefs : DemandIs(d, outcome'[d]),
         net.mode = "candidates" => \A d \in DemandRefs, s \in SiteRefs : PairIs(d, s, outcome'[<<d, s>>])
  PROVE BatchExact'
<1>1. /\ net'.mode = "existing" => \A d \in DemandRefs' : DemandIs(d, outcome[d])'
      /\ net'.mode = "candidates" => \A d \in DemandRefs', s \in SiteRefs' : PairIs(d, s, outcome[<<d, s>>])'
  BY WaysKept
<1> QED BY <1>1 DEF BatchExact, DemandIs, PairIs, RankOf, Nearby, WayTo

LEMMA ReportKeeps == ASSUME AccessInv, Report PROVE AccessInv'
<1>1. access = "search" /\ searches = << >> /\ net.mode # "path" /\ AnswersHold
  BY SearchesDone DEF Report
<1>2. net \in AccessCases /\ SnapsFit /\ AnswersFit(found)
  BY <1>1, AnswersDoFit DEF AnswersHold, SetUp
<1>3. IsFiniteSet(DemandRefs) /\ IsFiniteSet(SiteRefs)
  BY <1>2 DEF SnapsFit
<1>4. net.mode \in {"existing", "candidates"}
  BY <1>1, <1>2, ModesAre
<1>5. PICK outcomes : outcomes = IF net.mode = "existing" THEN [d \in DemandRefs |-> ExistingOutcome(d)]
                                 ELSE [p \in DemandRefs \X SiteRefs |-> PairOutcome(p[1], p[2])]
  OBVIOUS
<1>6. /\ BatchFits(outcomes)
      /\ net.mode = "existing" => \A d \in DemandRefs : DemandIs(d, outcomes[d])
      /\ net.mode = "candidates" => \A d \in DemandRefs, s \in SiteRefs : PairIs(d, s, outcomes[<<d, s>>])
  <2>1. CASE net.mode = "existing"
    <3>1. DOMAIN outcomes = DemandRefs /\ \A d \in DemandRefs : outcomes[d] = ExistingOutcome(d)
      BY <1>5, <2>1
    <3>2. \A d \in DemandRefs : DemandIs(d, outcomes[d]) /\ SubjectFits(outcomes[d])
      BY <1>1, <2>1, <3>1, ExistingIs
    <3>3. BatchFits(outcomes)
      BY <1>3, <2>1, <3>1, <3>2, BatchDoesFit
    <3> QED BY <2>1, <3>2, <3>3
  <2>2. CASE net.mode = "candidates"
    <3> DEFINE D == DemandRefs \X SiteRefs
    <3>1. DOMAIN outcomes = D /\ \A k \in D : outcomes[k] = PairOutcome(k[1], k[2])
      BY <1>5, <2>2
    <3>2. \A k \in D : /\ PairIs(k[1], k[2], outcomes[k]) /\ SubjectFits(outcomes[k])
                       /\ outcomes[k].reason = "" => outcomes[k].site = k[2]
      <4> TAKE k \in D
      <4>1. k[1] \in DemandRefs /\ k[2] \in SiteRefs
        OBVIOUS
      <4> QED BY <1>1, <2>2, <3>1, <4>1, PairOutcomeIs
    <3>3. IsFiniteSet(D)
      BY <1>3, FS_Product
    <3>4. \A d \in DemandRefs, s \in SiteRefs : <<d, s>> \in D /\ <<d, s>>[1] = d /\ <<d, s>>[2] = s
      OBVIOUS
    <3> HIDE DEF D
    <3>5. BatchFits(outcomes)
      BY <3>1, <3>2, <3>3, BatchDoesFit
    <3>6. \A d \in DemandRefs, s \in SiteRefs : PairIs(d, s, outcomes[<<d, s>>])
      BY <3>2, <3>4
    <3> QED BY <2>2, <3>5, <3>6
  <2> QED BY <1>4, <2>1, <2>2
<1>7. /\ access' = "done" /\ outcome' = outcomes /\ net' = net /\ snapped' = snapped
  BY <1>2, <1>5, <1>6 DEF Report
<1>8. BatchExact'
  BY <1>6, <1>7, BatchIsExact
<1> QED BY <1>1, <1>2, <1>7, <1>8 DEF AccessInv, AccessExact

-----------------------------------------------------------------------------
(* Accessibility: the path, and the theorem. *)

Ways == {Metric[s][net.target] : s \in net.sources}
PathIsRight(answers) ==
  IF Min(Ways) > net.reach THEN answers = {}
  ELSE \E f \in answers : /\ answers = {f} /\ f.distance = Min(Ways) /\ f.from \in net.sources
                          /\ WayFits(f.nodes, f.from, net.target, f.distance)

LEMMA WaysAre ==
  ASSUME AnswersHold, net.mode = "path"
  PROVE /\ Min(Ways) \in Ways /\ \A w \in Ways : Min(Ways) <= w
        /\ Ways \subseteq Nat /\ net.reach \in Nat /\ net.sources \subseteq NetNodes /\ net.target \in NetNodes
        /\ Len(Plan) = 1 /\ Plan[1].from = net.sources /\ Plan[1].to = {net.target}
<1>1. net \in AccessCases /\ net.sources \subseteq NetNodes /\ net.target \in NetNodes
  BY DEF AnswersHold, SetUp, KnownNodes, NetNodes
<1>2. net.sources # {}
  BY <1>1, AccessAssumption DEF AccessInput, PathCall
<1>3. \A m, n \in NetNodes : Metric[m][n] \in Nat
  BY <1>1, MetricIs DEF MetricTo
<1>4. net.reach \in Nat /\ IsFiniteSet(net.sources)
  BY <1>1, NetIs, FS_Subset
<1>5. Ways \subseteq Nat /\ Ways # {}
  BY <1>1, <1>2, <1>3 DEF Ways
<1>6. IsFiniteSet(Ways)
  <2> DEFINE to == [s \in net.sources |-> Metric[s][net.target]]
  <2>1. Ways = {to[s] : s \in net.sources}
    BY DEF Ways
  <2> HIDE DEF to
  <2> QED BY <1>4, <2>1, ImageFinite
<1>7. Min(Ways) \in Ways /\ \A w \in Ways : Min(Ways) <= w
  <2>1. Ways \subseteq Int
    BY <1>5
  <2> QED BY <1>5, <1>6, <2>1, MinOf
<1>8. Len(Plan) = 1 /\ Plan[1].from = net.sources /\ Plan[1].to = {net.target}
  BY DEF AnswersHold, PlanFits
<1> QED BY <1>1, <1>4, <1>5, <1>7, <1>8

LEMMA PathFound ==
  ASSUME AnswersHold, net.mode = "path", NEW f \in found
  PROVE /\ f.from \in net.sources /\ WayFits(f.nodes, f.from, net.target, f.distance)
        /\ f.distance = Min(Ways) /\ f.distance <= net.reach
<1>1. Len(Plan) = 1 /\ Plan[1].from = net.sources /\ Plan[1].to = {net.target}
  BY WaysAre
<1>2. PICK i \in 1..Len(Plan) : AnswerIs(f, Plan[i])
  BY DEF AnswersHold
<1>3. AnswerIs(f, Plan[1])
  BY <1>1, <1>2
<1>4. /\ f.from \in net.sources /\ f.to = net.target /\ f.distance \in 0..net.reach
      /\ Metric[f.from][net.target] = f.distance /\ WayFits(f.nodes, f.from, net.target, f.distance)
      /\ \A x \in net.sources : f.distance <= Metric[x][net.target]
  BY <1>1, <1>3 DEF AnswerIs
<1>5. f.distance \in Ways /\ \A w \in Ways : f.distance <= w
  BY <1>4 DEF Ways
<1>6. f.distance = Min(Ways) /\ f.distance <= net.reach
  BY <1>4, <1>5, WaysAre
<1> QED BY <1>4, <1>6

LEMMA PathDoesFit == ASSUME AnswersHold, net.mode = "path" PROVE PathIsRight(found)
<1>1. CASE Min(Ways) > net.reach
  <2>1. ASSUME NEW f \in found PROVE FALSE
    <3>1. f.distance = Min(Ways) /\ f.distance <= net.reach
      BY PathFound
    <3>2. Min(Ways) \in Nat /\ net.reach \in Nat
      BY WaysAre
    <3> QED BY <1>1, <3>1, <3>2
  <2> QED BY <1>1, <2>1 DEF PathIsRight
<1>2. CASE ~(Min(Ways) > net.reach)
  <2>1. PICK s \in net.sources : Metric[s][net.target] = Min(Ways)
    BY WaysAre DEF Ways
  <2>2. Min(Ways) \in Nat /\ net.reach \in Nat
    BY WaysAre
  <2>3. ~(Far <= Metric[s][net.target])
    BY <1>2, <2>1, <2>2 DEF Far
  <2>4. ~Unreached(Plan[1], net.target)
    BY <2>3, WaysAre DEF Unreached
  <2>5. PICK f \in found : f.to = net.target
    <3>1. Len(Plan) = 1 /\ Plan[1].to = {net.target}
      BY WaysAre
    <3>2. 1 \in 1..Len(Plan) /\ net.target \in Plan[1].to
      BY <3>1
    <3> QED BY <2>4, <3>2 DEF AnswersHold
  <2>6. found = {f}
    BY DEF AnswersHold
  <2>7. f.from \in net.sources /\ WayFits(f.nodes, f.from, net.target, f.distance) /\ f.distance = Min(Ways)
    BY PathFound
  <2> QED BY <1>2, <2>6, <2>7 DEF PathIsRight
<1> QED BY <1>1, <1>2

LEMMA PathIsExact == ASSUME net' = net, PathIsRight(outcome') PROVE PathExact'
<1>1. /\ Metric' = Metric /\ (\A n : Adjacent(n)' = Adjacent(n)) /\ (\A m, n : Weight(m, n)' = Weight(m, n))
  BY NetKept
<1>2. Ways = {Metric'[s][net'.target] : s \in net'.sources}
  BY <1>1 DEF Ways
<1>3. CASE Min(Ways) > net.reach
  BY <1>2, <1>3 DEF PathIsRight, PathExact
<1>4. CASE ~(Min(Ways) > net.reach)
  <2>1. PICK f \in outcome' : /\ outcome' = {f} /\ f.distance = Min(Ways) /\ f.from \in net.sources
                              /\ WayFits(f.nodes, f.from, net.target, f.distance)
    BY <1>4 DEF PathIsRight
  <2>2. PICK p : p = f.nodes
    OBVIOUS
  <2>3. /\ p[1] = f.from /\ p[Len(p)] = net.target /\ \A i \in 1..(Len(p) - 1) : p[i + 1] \in Adjacent(p[i])
        /\ SumFunction([i \in 1..(Len(p) - 1) |-> Weight(p[i], p[i + 1])]) = f.distance
    BY <2>1, <2>2 DEF WayFits
  <2>4. /\ \A i \in 1..(Len(p) - 1) : p[i + 1] \in Adjacent(p[i])'
        /\ SumFunction([i \in 1..(Len(p) - 1) |-> Weight(p[i], p[i + 1])']) = f.distance
    BY <1>1, <2>3
  <2> QED BY <1>2, <1>4, <2>1, <2>2, <2>3, <2>4 DEF PathExact
<1> QED BY <1>3, <1>4

LEMMA ReportPathKeeps == ASSUME AccessInv, ReportPath PROVE AccessInv'
<1>1. access = "search" /\ searches = << >> /\ net.mode = "path"
      /\ access' = "done" /\ outcome' = found /\ net' = net
  BY DEF ReportPath
<1>2. AnswersHold
  BY <1>1, SearchesDone
<1>3. PathExact'
  BY <1>1, <1>2, PathDoesFit, PathIsExact
<1>4. net' \in AccessCases
  BY <1>1, <1>2 DEF AnswersHold
<1> QED BY <1>1, <1>3, <1>4 DEF AccessInv, AccessExact

\* A step that changes nothing keeps what holds.
LEMMA AccessStands == ASSUME AccessInv, UNCHANGED accessVars PROVE AccessInv'
<1>1. /\ net' = net /\ snapped' = snapped /\ searches' = searches /\ found' = found /\ access' = access
      /\ outcome' = outcome /\ settled' = settled /\ tentative' = tentative /\ frontier' = frontier
  BY DEF accessVars, searchVars
<1>2. /\ Metric' = Metric /\ Far' = Far /\ (\A n : Adjacent(n)' = Adjacent(n)) /\ (\A m, n : Weight(m, n)' = Weight(m, n))
      /\ NetNodes' = NetNodes /\ SiteNodes' = SiteNodes
  BY <1>1, NetKept, PlanKept
<1>3. PathExact' = PathExact
  BY <1>1, <1>2 DEF PathExact
<1>4. BatchExact' = BatchExact
  BY <1>1, <1>2 DEF BatchExact, DemandRefs, SiteRefs
<1>5. AccessExact'
  <2>1. /\ (SnapRefused \/ SnapRepeats)' = (SnapRefused \/ SnapRepeats)
        /\ TooManyExisting' = TooManyExisting /\ TooManyCandidates' = TooManyCandidates
        /\ KnownNodes(net.sources \cup {net.target})' = KnownNodes(net.sources \cup {net.target})
    BY <1>1, PlanKept
  <2>2. AccessExact
    BY DEF AccessInv
  <2> QED BY <1>1, <1>3, <1>4, <2>1, <2>2 DEF AccessExact
<1>6. ASSUME NEW q
      PROVE /\ SettledFit(q)' = SettledFit(q) /\ TentativeInv(q)' = TentativeInv(q) /\ RoadsCovered' = RoadsCovered
            /\ AllSettled(q)' = AllSettled(q) /\ (\A top : LastIs(q, top)' = LastIs(q, top))
            /\ (\A e : EntryFits(q, e)' = EntryFits(q, e)) /\ (\A n : EntryOf(q, n)' = EntryOf(q, n))
            /\ (\A k, g : SettledPriority(k, g)' = SettledPriority(k, g))
  BY <1>1, SearchKept
<1>7. ASSUME NEW q PROVE PopInv(q)' = PopInv(q)
  <2>1. FrontierInv(q)' = FrontierInv(q)
    BY <1>1, <1>6 DEF FrontierInv
  <2>2. HeapIsLater(q)' = HeapIsLater(q)
    BY <1>1, <1>6 DEF HeapIsLater, NoLater
  <2> QED BY <1>6, <2>1, <2>2 DEF PopInv, SettlingInv
<1>8. ASSUME NEW q PROVE AnswerInv(q)' = AnswerInv(q)
  BY <1>1, <1>6 DEF AnswerInv, SettlingInv
<1>9. SetUp /\ QueueInv /\ FoundInv => SetUp' /\ QueueInv' /\ FoundInv'
  BY <1>1, QueueKept
<1>10. SnapsFit' = SnapsFit
  BY <1>1, PlanKept
<1> QED BY <1>1, <1>5, <1>7, <1>8, <1>9, <1>10 DEF AccessInv

LEMMA AccessStep == AccessInv /\ [AccessNext]_accessVars => AccessInv'
BY SnapKeeps, PlanSearchesKeeps, PlanPathKeeps, BeginKeeps, PopStaleKeeps, PopSettleKeeps, ExhaustKeeps,
   AnswerKeeps, ReportKeeps, ReportPathKeeps, AccessStands DEF AccessNext

\* However the searches go, with or without a heuristic, in whatever batches, every
\* subject gets the outcome that the metric of the network calls for, a path is a shortest
\* one, and nothing is refused but what breaks a limit or names what is not there.
THEOREM AccessesAreExact == AccessSpec => []AccessExact
<1>1. AccessInit => AccessInv
  BY AccessStarts
<1>2. AccessInv /\ [AccessNext]_accessVars => AccessInv'
  BY AccessStep
<1>3. AccessInv => AccessExact
  BY DEF AccessInv
<1> QED BY <1>1, <1>2, <1>3, PTL DEF AccessSpec

=============================================================================

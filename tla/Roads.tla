--------------------------------- MODULE Roads ---------------------------------
(***************************************************************************)
(* The road stage (stages/roads.py and roads/*.py): candidate anchors on   *)
(* the suitability raster, a minimum spanning baseline between them, the   *)
(* bounded growth of local and collector roads, and, in an expansion, the  *)
(* attachment of every generated component to the fixed network.           *)
(*                                                                         *)
(* Raster cells are numbered row by row, which is the order of the ids of  *)
(* the anchors on them. A route is what the least-cost search returns: a   *)
(* cell lies in a region of passable cells, a pair of one region is        *)
(* connected with some length at or above the direct distance, and any     *)
(* search may meet its limit. Lengths are whole numbers, so the tolerances *)
(* of the code do not show.                                                *)
(***************************************************************************)
EXTENDS Integers, FiniteSets, SequencesExt

CONSTANT RoadCases  \* the inputs: see RoadInput

VARIABLES
  road,       \* where the stage is: the call that is next, "error", or the level
  site,       \* raster, zoning, fixed network, mode and policies of the stage
  anchors,    \* cells of the candidate anchors
  spanning,   \* planned baseline pairs, in order
  routed,     \* their connections so far
  tried,      \* growth attempts
  preferred,  \* intent the growth tries first
  halt,       \* stop_reason of the growth
  attached    \* one attachment per generated component

roadVars == <<road, site, anchors, spanning, routed, tried, preferred, halt, attached>>

Other(intent) == IF intent = "COLLECTOR" THEN "LOCAL" ELSE "COLLECTOR"

\* RuleBasedRoadGrowthPolicy.
GrowthPolicy(c) == {c.maxIterations, c.maxPairs, c.budget} \subseteq Nat \ {0}

\* A raster whose score is -1 where it has no data, a zone (0: none) and a passable
\* region for every cell, metric distances, and fixed nodes with the cell they are on
\* (0: outside, or excluded).
RoadInput(c) ==
  LET cells == DOMAIN c.score IN
  /\ c.score \in Seq(Nat \cup {-1}) /\ c.sampled \subseteq cells
  /\ c.zone \in [cells -> 0..Len(c.class)] /\ c.region \in [cells -> Nat]
  /\ c.distance \in [kSubset(2, cells) -> Nat \ {0}]
  /\ \A a, b, d \in cells : Cardinality({a, b, d}) = 3 =>
       c.distance[{a, b}] <= c.distance[{a, d}] + c.distance[{d, b}]
  /\ c.detours \subseteq Nat /\ 0 \in c.detours
  /\ c.nodeCell \in [DOMAIN c.nodeCell -> cells \cup {0}]
  /\ c.reach \in [cells \X DOMAIN c.nodeCell -> Nat]
  /\ c.mode \in {"FROM_SCRATCH", "EXPANSION"}
  /\ GrowthPolicy(c) /\ {c.maxAnchors, c.maxAttachments} \subseteq Nat \ {0}

ASSUME RoadAssumption == \A c \in RoadCases : RoadInput(c)

RoadInit ==
  /\ road = "align" /\ site \in RoadCases
  /\ anchors = {} /\ spanning = << >> /\ routed = << >>
  /\ tried = << >> /\ preferred = "COLLECTOR" /\ halt = "" /\ attached = << >>

Class(a) == site.class[site.zone[a]]
Direct(p) == site.distance[p]
Lower(k, l) == \E i \in DOMAIN k : k[i] < l[i] /\ \A j \in 1..(i - 1) : k[j] = l[j]

-----------------------------------------------------------------------------
(* Alignment and anchors. *)

\* A run from scratch has no fixed roads; in an expansion the resolved roads are there
\* exactly when the snapshot has road refs, and then with a policy to attach to them.
Aligned ==
  LET fixed == DOMAIN site.nodeCell # {}
  IN  IF site.mode = "FROM_SCRATCH" THEN ~fixed
      ELSE site.refs = fixed /\ (fixed => site.policy)

Align ==
  /\ road = "align"
  /\ road' = IF Aligned THEN "sample" ELSE "error"
  /\ UNCHANGED <<site, anchors, spanning, routed, tried, preferred, halt, attached>>

Anchorable(c) ==
  /\ site.score[c] >= site.minimum
  /\ site.zone[c] # 0 /\ Class(c) \in site.allowed
Rank(c) == <<-site.score[c], Class(c), site.zone[c], c>>

\* CandidateRoadAnchorSampler: the best max_candidates of the eligible sampled cells.
SampleAnchors ==
  /\ road = "sample"
  /\ LET usable == {c \in site.sampled : Anchorable(c)}
     IN  anchors' = {c \in usable :
           Cardinality({d \in usable : Lower(Rank(d), Rank(c))}) < site.maxAnchors}
  /\ road' = "plan"
  /\ UNCHANGED <<site, spanning, routed, tried, preferred, halt, attached>>

-----------------------------------------------------------------------------
(* MSTBaselineConnector. *)

\* The pairs that leave the tree.
Crossing(tree) == tree \X (anchors \ tree)

EdgeKey(e) == <<Direct({e[1], e[2]}), e[1], e[2]>>

\* Prim's algorithm from the first anchor.
Prim ==
  LET n == Cardinality(anchors)
      pairs[k \in 0..n] ==
        IF k = 0 THEN << >>
        ELSE LET before == pairs[k - 1]
                 tree == {Min(anchors)} \cup {e[2] : e \in Range(before)}
                 open == Crossing(tree)
             IN  Append(before, CHOOSE e \in open :
                   \A f \in open \ {e} : Lower(EdgeKey(e), EdgeKey(f)))
  IN  IF n <= 1 THEN << >> ELSE pairs[n - 1]

PlanBaseline ==
  /\ road = "plan"
  /\ IF Cardinality(anchors) > site.maxBaseline
     THEN road' = "error" /\ UNCHANGED spanning
     ELSE road' = "baseline" /\ spanning' = Prim
  /\ UNCHANGED <<site, anchors, routed, tried, preferred, halt, attached>>

\* LeastCostConnector.connect: what a search between two cells may return.
Routes(a, b, d) ==
  {[status |-> "SEARCH_LIMIT_REACHED", length |-> 0]} \cup
  IF site.region[a] = site.region[b]
  THEN {[status |-> "CONNECTED", length |-> d + x] : x \in site.detours}
  ELSE {[status |-> "NO_PATH", length |-> 0]}

RouteBaseline ==
  /\ road = "baseline" /\ Len(routed) < Len(spanning)
  /\ LET e == spanning[Len(routed) + 1]
     IN  \E r \in Routes(e[1], e[2], Direct({e[1], e[2]})) : routed' = Append(routed, r)
  /\ UNCHANGED <<road, site, anchors, spanning, tried, preferred, halt, attached>>

BaselineDone ==
  /\ road = "baseline" /\ Len(routed) = Len(spanning)
  /\ LET n == Cardinality(anchors)
     IN  road' = IF (n * (n - 1)) \div 2 > site.maxPairs THEN "error" ELSE "grow"
  /\ UNCHANGED <<site, anchors, spanning, routed, tried, preferred, halt, attached>>

-----------------------------------------------------------------------------
(* RuleBasedRoadGrower. *)

Planned == {{e[1], e[2]} : e \in Range(spanning)}
Tried == {t.pair : t \in Range(tried)}
Intent(p) == IF \E a, b \in p : Class(a) # Class(b) THEN "COLLECTOR" ELSE "LOCAL"
Left == site.budget - SumFunction([i \in DOMAIN tried |-> tried[i].added])

\* Mutant: the candidates are taken in the order of their ids.
GrowthKeyById(p) == <<Min(p), Max(p)>>
GrowthKey(p) == <<Direct(p), Min(p), Max(p)>>

\* The first candidate of an intent that was not tried: a set of at most one pair.
Heads(intent) ==
  LET open == {p \in kSubset(2, anchors) \ (Planned \cup Tried) : Intent(p) = intent}
  IN  {p \in open : \A q \in open \ {p} : Lower(GrowthKey(p), GrowthKey(q))}
Fitting(intent) == {p \in Heads(intent) : Direct(p) <= Left}

CanGrow == Len(tried) < site.maxIterations /\ Left > 0

AttemptStatus(r) ==
  IF r.status # "CONNECTED" THEN r.status
  ELSE IF r.length <= Left THEN "ADDED" ELSE "LENGTH_BUDGET_REJECTED"

\* One attempt: the preferred intent when its candidate fits, else the other one.
Attempt ==
  /\ road = "grow" /\ CanGrow
  /\ \E intent \in {"LOCAL", "COLLECTOR"} :
       /\ intent = preferred \/ Fitting(preferred) = {}
       /\ preferred' = Other(intent)
       /\ \E p \in Fitting(intent) : \E r \in Routes(Min(p), Max(p), Direct(p)) :
            tried' = Append(tried, [pair |-> p, intent |-> intent, status |-> AttemptStatus(r),
                                    route |-> r.status,
                                    added |-> IF AttemptStatus(r) = "ADDED" THEN r.length ELSE 0])
  /\ UNCHANGED <<road, site, anchors, spanning, routed, halt, attached>>

GrowthStops ==
  /\ road = "grow"
  /\ ~CanGrow \/ Fitting("LOCAL") \cup Fitting("COLLECTOR") = {}
  /\ halt' = IF Len(tried) >= site.maxIterations THEN "ITERATION_LIMIT"
             ELSE IF Left > 0 /\ Heads("LOCAL") \cup Heads("COLLECTOR") = {}
             THEN "CANDIDATES_EXHAUSTED"
             ELSE "LENGTH_BUDGET"
  /\ road' = "attach"
  /\ UNCHANGED <<site, anchors, spanning, routed, tried, preferred, attached>>

\* RuleBasedRoadGrowthDiagnostics of the attempts, and what the constructors of an attempt,
\* of the diagnostics and of the result demand of them.
GrowthCounts ==
  LET ended(status) == Cardinality({i \in DOMAIN tried : tried[i].status = status})
      added(intent) == Cardinality({i \in DOMAIN tried :
                                      tried[i].status = "ADDED" /\ tried[i].intent = intent})
      pairs == kSubset(2, anchors)
  IN  [baseline |-> Cardinality(Planned), evaluated |-> Cardinality(pairs),
       eligible |-> Cardinality(pairs \ Planned), attempted |-> Len(tried),
       added |-> ended("ADDED"), local |-> added("LOCAL"), collector |-> added("COLLECTOR"),
       noPath |-> ended("NO_PATH"), limited |-> ended("SEARCH_LIMIT_REACHED"),
       rejected |-> ended("LENGTH_BUDGET_REJECTED")]
AttemptAccepted(t) ==
  /\ Min(t.pair) < Max(t.pair) /\ Direct(t.pair) > 0
  /\ t.route = IF t.status \in {"ADDED", "LENGTH_BUDGET_REJECTED"} THEN "CONNECTED" ELSE t.status
CountsAccepted(d) ==
  /\ d.baseline <= d.evaluated /\ d.eligible <= d.evaluated /\ d.attempted <= d.eligible
  /\ d.added + d.noPath + d.limited + d.rejected = d.attempted
  /\ d.local + d.collector = d.added
GrowthAccepted ==
  /\ \A t \in Range(tried) : AttemptAccepted(t) /\ t.pair \subseteq anchors
  /\ CountsAccepted(GrowthCounts) /\ GrowthCounts.attempted = Len(tried)

-----------------------------------------------------------------------------
(* FixedNetworkAttachmentConnector and the end of the stage. *)

Connected(k) == routed[k].status = "CONNECTED"
Grown == {t.pair : t \in {t \in Range(tried) : t.status = "ADDED"}}

\* Mutant: every planned baseline pair counts as a connection.
ConnectedPairsPlanned == Planned \cup Grown

ConnectedPairs ==
  {{spanning[k][1], spanning[k][2]} : k \in {k \in DOMAIN routed : Connected(k)}} \cup Grown

\* The anchors that pairs of a set connect to anchor a.
Component(pairs, a) ==
  LET reached[k \in 0..Cardinality(anchors)] ==
        LET before == reached[k - 1]
        IN  IF k = 0 THEN {a}
            ELSE before \cup {b \in anchors : \E q \in before : {q, b} \in pairs}
  IN  reached[Cardinality(anchors)]

Components ==
  LET pairs == ConnectedPairs
  IN  {Component(pairs, a) : a \in anchors}

\* The k-th of some components by their first anchor.
Nth(parts, k) ==
  CHOOSE s \in parts : Cardinality({t \in parts : Min(t) < Min(s)}) = k - 1

Nodes == {f \in DOMAIN site.nodeCell : site.nodeCell[f] # 0}
Reach(a, f) == site.reach[<<a, f>>]

\* The nearest fixed node of every anchor within reach, the nearest anchor of those.
Nearest(component) ==
  LET near == {e \in component \X Nodes : Reach(e[1], e[2]) <= site.maxReach}
      key(e) == <<Reach(e[1], e[2]), e[1], e[2]>>
  IN  {e \in near : \A f \in near \ {e} : Lower(key(e), key(f))}

\* The status of the attachment of a component at that pair.
Attachments(e) ==
  LET cell == site.nodeCell[e[2]]
  IN  IF cell = e[1]
      THEN {IF Reach(e[1], e[2]) = 0 THEN "ALREADY_CONNECTED" ELSE "CONNECTED"}
      ELSE {r.status : r \in Routes(e[1], cell, Direct({e[1], cell}))}

Attaches == site.mode = "EXPANSION" /\ DOMAIN site.nodeCell # {} /\ anchors # {}

Attach ==
  /\ road = "attach" /\ Attaches
  /\ LET parts == Components
         part == Nth(parts, Len(attached) + 1)
     IN  /\ Len(attached) < Cardinality(parts)
         /\ IF Cardinality(parts) > site.maxAttachments
            THEN road' = "error" /\ UNCHANGED attached
            ELSE /\ UNCHANGED road
                 /\ \/ /\ Nearest(part) = {}
                       /\ attached' = Append(attached, [part |-> part, at |-> Min(part),
                                                        status |-> "NO_FIXED_NODE_IN_RANGE"])
                    \/ \E e \in Nearest(part) : \E s \in Attachments(e) :
                         attached' = Append(attached, [part |-> part, at |-> e[1], status |-> s])
  /\ UNCHANGED <<site, anchors, spanning, routed, tried, preferred, halt>>

Complete ==
  \A k \in DOMAIN attached : attached[k].status \in {"CONNECTED", "ALREADY_CONNECTED"}

\* The graph is rebuilt, classified and validated: a finding of the validator, or a
\* component without attachment, makes the result a warning.
Validate ==
  /\ road = "attach"
  /\ Attaches => Len(attached) = Cardinality(Components)
  /\ \E passed \in BOOLEAN : road' = IF passed /\ Complete THEN "info" ELSE "warning"
  /\ UNCHANGED <<site, anchors, spanning, routed, tried, preferred, halt, attached>>

RoadNext ==
  \/ Align \/ SampleAnchors \/ PlanBaseline \/ RouteBaseline \/ BaselineDone
  \/ Attempt \/ GrowthStops \/ Attach \/ Validate

RoadSpec == RoadInit /\ [][RoadNext]_roadVars

-----------------------------------------------------------------------------
(* Properties. *)

Length(pairs) == SumFunctionOnSet(site.distance, pairs)

\* The planned baseline connects all anchors with the least total length, and growth
\* adds to it within its budget, never tries a pair twice, and gives up for want of
\* length only when no pair left fits what remains (docs/MST_BASELINE_CONNECTOR.md,
\* docs/RULE_BASED_ROAD_GROWTH.md); nor do the checks of its own result refuse it.
GrowthUsesBudget ==
  road = "attach" =>
    /\ \A tree \in kSubset(Len(spanning), kSubset(2, anchors)) :
         (\A a \in anchors : Component(tree, a) = anchors) => Length(Planned) <= Length(tree)
    /\ \A a \in anchors : Component(Planned, a) = anchors
    /\ GrowthAccepted
    /\ Left >= 0 /\ Cardinality(Tried) = Len(tried) /\ Tried \cap Planned = {}
    /\ halt = "LENGTH_BUDGET" =>
         \A p \in kSubset(2, anchors) \ (Planned \cup Tried) : Direct(p) > Left

\* When an expansion reports every component attached, roads that were built lead from
\* every anchor to the fixed network, although routes of the baseline failed and growth
\* bridged some of the gaps (docs/ROAD_FIXED_NETWORK_ATTACHMENT.md).
AnchorsReachNetwork ==
  (road = "info" /\ Attaches) =>
    LET built == Range([k \in DOMAIN routed |->
                   IF Connected(k) THEN {spanning[k][1], spanning[k][2]} ELSE {}]) \cup Grown
    IN  \A a \in anchors : \E k \in DOMAIN attached :
          /\ attached[k].status \in {"CONNECTED", "ALREADY_CONNECTED"}
          /\ attached[k].at \in Component(built, a)
=============================================================================

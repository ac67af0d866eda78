---------------------------- MODULE Accessibility ----------------------------
(***************************************************************************)
(* Accessibility on the road network (infrastructure/network_snap.py,      *)
(* infrastructure/accessibility.py, roads/networkx_backend.py): demands and *)
(* facility sites are snapped to nodes, Dijkstra's search with lazy deletion *)
(* settles the nodes within reach of the sources, and every demand, or every *)
(* pair of a demand and a candidate, gets an outcome: the distance, or the  *)
(* reason why there is none. The same search, guided by a heuristic or not, *)
(* answers the calls of the port that ask for a path.                       *)
(*                                                                         *)
(* Nodes, demands and sites are numbered in the order of their ids. Node 0  *)
(* stands for no node. Points lie on a line; roads are of any length.       *)
(***************************************************************************)
EXTENDS Integers, FiniteSets, SequencesExt, FiniteSetsExt

CONSTANT AccessCases  \* the inputs: see AccessInput

VARIABLES
  access,     \* the call that is next, "refused", or "done"
  net,        \* nodes, roads, demands, sites, policy and limits
  snapped,    \* node, distance or reason of each demand and of each site
  searches,   \* searches still to run: their sources, targets, and goal of the heuristic
  frontier,   \* the heap: entries of priority, distance, origin, node and parent
  tentative,  \* best entry of each node so far: distance, origin and parent
  settled,    \* distance, origin and parent of the settled nodes
  found,      \* answers of the searches: origin, target, distance, and the path asked for
  outcome     \* outcome of each subject of the batch, or the path

searchVars == <<frontier, tentative, settled>>
accessVars == <<access, net, snapped, searches, searchVars, found, outcome>>

\* A road graph with a position at each node and a length on each road.
GraphInput(c) ==
  /\ c.at \in Seq(Int)
  /\ c.roads \in Seq([ends : {{m, n} : m, n \in DOMAIN c.at}, length : Nat \ {0}])
\* A call for a path from the sources to the target.
PathCall(c) ==
  c.sources \subseteq Nat /\ c.sources # {} /\ c.target \in Nat /\ c.algorithm \in {"dijkstra", "astar"}

AccessInput(c) ==
  /\ GraphInput(c) /\ PathCall(c)
  /\ c.demandAt \in Seq(Int) /\ c.siteAt \in Seq(Int) /\ c.mode \in {"existing", "candidates", "path"}
  /\ {c.tolerance, c.reach, c.batch, c.maxBatch, c.maxSubjects, c.maxDemands, c.maxCandidates,
      c.maxResults, c.maxCalls, c.maxVisited} \subseteq Nat /\ c.batch > 0
  /\ c.distinct \in BOOLEAN   \* no subject is given twice
  /\ c.current \in BOOLEAN    \* points and snaps are of this snapshot and its system

ASSUME AccessAssumption == \A c \in AccessCases : AccessInput(c)

AccessInit ==
  /\ net \in AccessCases
  /\ access = IF net.mode = "path" THEN "plan" ELSE "snap"
  /\ snapped = << >> /\ searches = << >> /\ found = {} /\ outcome = << >>
  /\ frontier = {} /\ tentative = << >> /\ settled = << >>

Refused == access' = "refused" /\ UNCHANGED <<net, snapped, searches, searchVars, found, outcome>>

-----------------------------------------------------------------------------
(* Snapping. *)

Gap(x, y) == IF x < y THEN y - x ELSE x - y

\* The nearest node within the tolerance, and of equal ones the first.
SnapNode(x) ==
  LET near == {n \in DOMAIN net.at : Gap(net.at[n], x) <= net.tolerance}
      nearest == {n \in near : \A k \in near : Gap(net.at[n], x) <= Gap(net.at[k], x)}
  IN  IF near = {} THEN 0 ELSE Min(nearest)

Snap(x, n) == [node |-> n, distance |-> Gap(net.at[n], x), reason |-> ""]
Unsnapped(reason) == [node |-> 0, distance |-> 0, reason |-> reason]

SnapOutcome(x) ==
  IF net.at = << >> THEN Unsnapped("empty_network")
  ELSE IF SnapNode(x) = 0 THEN Unsnapped("no_node_within_max_distance")
  ELSE Snap(x, SnapNode(x))

\* The subjects of a batch, by the numbers of their ids.
DemandRefs == DOMAIN net.demandAt
SiteRefs == DOMAIN net.siteAt

\* Demands before sites, each kind by its ids.
InputOrder == net.demandAt \o net.siteAt

SnapRefused == Len(InputOrder) > net.maxBatch \/ ~net.current
SnapRepeats == ~net.distinct

\* What a batch result may hold: no snap beyond the tolerance, a reason for the rest,
\* and none but the reason of an empty network when it is empty.
SnapFits(o) ==
  IF o.reason = "" THEN o.node # 0 /\ o.distance <= net.tolerance ELSE o.node = 0

SnapDiagnostics(outcomes) ==
  [input |-> Len(outcomes),
   snapped |-> Cardinality({i \in DOMAIN outcomes : outcomes[i].node # 0}),
   empty |-> Cardinality({i \in DOMAIN outcomes : outcomes[i].reason = "empty_network"}),
   beyond |-> Cardinality({i \in DOMAIN outcomes :
                             outcomes[i].reason = "no_node_within_max_distance"})]
SnapCountsAgree(counts) == counts.snapped + counts.empty + counts.beyond = counts.input

SnapResultHolds(outcomes) ==
  /\ \A i \in DOMAIN outcomes : SnapFits(outcomes[i])
  /\ SnapCountsAgree(SnapDiagnostics(outcomes))

SnapBatch ==
  /\ access = "snap"
  /\ LET outcomes == [i \in DOMAIN InputOrder |-> SnapOutcome(InputOrder[i])]
         demands == Len(net.demandAt)
     IN  IF SnapRefused \/ SnapRepeats \/ ~SnapResultHolds(outcomes)
         THEN Refused
         ELSE /\ access' = "plan"
              /\ snapped' = [demand |-> SubSeq(outcomes, 1, demands),
                             site |-> SubSeq(outcomes, demands + 1, Len(outcomes))]
              /\ UNCHANGED <<net, searches, searchVars, found, outcome>>

-----------------------------------------------------------------------------
(* The searches of a batch. *)

SnappedNode(outcomes, i) == outcomes[i].node
DemandNodes == {o.node : o \in Range(snapped.demand)} \ {0}
SiteNodes == {o.node : o \in Range(snapped.site)} \ {0}

\* Nodes of a set before node n in the order of their ids.
CountBelow(nodes, n) == Cardinality({m \in nodes : m < n})

\* Targets in batches, in the order of their ids.
TargetBatches ==
  [k \in 1..((Cardinality(DemandNodes) + net.batch - 1) \div net.batch) |->
     {n \in DemandNodes : CountBelow(DemandNodes, n) \div net.batch = k - 1}]

\* All facilities are the sources of one search; each node with candidates is the
\* source of one search for each batch of targets.
PlanExisting ==
  IF DemandNodes = {} \/ SiteNodes = {} THEN << >>
  ELSE <<[from |-> SiteNodes, to |-> DemandNodes, goal |-> 0]>>
PlanCandidates ==
  LET batches == Len(TargetBatches) IN
  [j \in 1..(Cardinality(SiteNodes) * batches) |->
     [from |-> {n \in SiteNodes : CountBelow(SiteNodes, n) = (j - 1) \div batches},
      to |-> TargetBatches[((j - 1) % batches) + 1], goal |-> 0]]

TooManyExisting == Len(net.demandAt) + Len(net.siteAt) > net.maxSubjects
TooManyCandidates ==
  \/ Len(net.demandAt) > net.maxDemands \/ Len(net.siteAt) > net.maxCandidates
  \/ Len(net.demandAt) * Len(net.siteAt) > net.maxResults
  \/ Len(PlanCandidates) > net.maxCalls

PlanSearches ==
  /\ access = "plan" /\ net.mode # "path"
  /\ IF IF net.mode = "existing" THEN TooManyExisting ELSE TooManyCandidates
     THEN Refused
     ELSE /\ access' = "search"
          /\ searches' = IF net.mode = "existing" THEN PlanExisting ELSE PlanCandidates
          /\ UNCHANGED <<net, snapped, searchVars, found, outcome>>

\* shortest_path and multi_source_shortest_path: a path of nodes that are there.
KnownNodes(nodes) == nodes \subseteq DOMAIN net.at
PlanPath ==
  /\ access = "plan" /\ net.mode = "path"
  /\ IF ~KnownNodes(net.sources \cup {net.target})
     THEN Refused
     ELSE /\ access' = "search"
          /\ searches' = <<[from |-> net.sources, to |-> {net.target},
                            goal |-> IF net.algorithm = "astar" THEN net.target ELSE 0]>>
          /\ UNCHANGED <<net, snapped, searchVars, found, outcome>>

-----------------------------------------------------------------------------
(* NetworkXBackend._search, one iteration of its loop a step. *)

\* The order of tuples.
Precedes(a, b) == \E i \in DOMAIN a : a[i] < b[i] /\ \A j \in 1..(i - 1) : a[j] = b[j]

Adjacent(n) ==
  {m \in DOMAIN net.at \ {n} : \E r \in Range(net.roads) : r.ends = {m, n}}
Weight(m, n) == Min({r.length : r \in {x \in Range(net.roads) : x.ends = {m, n}}})

\* The least ratio of a road's length to its straight distance, one at most, as a pair.
Straight(r) == Gap(net.at[Min(r.ends)], net.at[Max(r.ends)])
HeuristicScale ==
  LET ratios == {<<1, 1>>} \cup {<<r.length, Straight(r)>> : r \in {x \in Range(net.roads) : Straight(x) > 0}}
  IN  CHOOSE p \in ratios : \A q \in ratios : p[1] * q[2] <= q[1] * p[2]

\* The priority of a node reached at a distance, times the second of the pair.
Heuristic(n, goal) == HeuristicScale[1] * Gap(net.at[n], net.at[goal])
Priority(n, distance, goal) ==
  IF goal = 0 THEN distance ELSE HeuristicScale[2] * distance + Heuristic(n, goal)

BeginSearch ==
  /\ access = "search" /\ searches # << >>
  /\ access' = "pop"
  /\ frontier' = {<<Priority(s, 0, Head(searches).goal), 0, s, s, 0>> : s \in Head(searches).from}
  /\ tentative' = [s \in Head(searches).from |-> <<0, s, 0>>]
  /\ settled' = << >>
  /\ UNCHANGED <<net, snapped, searches, found, outcome>>

PoppedEntry == CHOOSE e \in frontier : \A x \in frontier \ {e} : Precedes(e, x)
Stale(e) == e[4] \in DOMAIN settled \/ tentative[e[4]] # <<e[2], e[3], e[5]>>

PopStale ==
  /\ access = "pop" /\ frontier # {} /\ Stale(PoppedEntry)
  /\ frontier' = frontier \ {PoppedEntry}
  /\ UNCHANGED <<access, net, snapped, searches, tentative, settled, found, outcome>>

\* Mutant: a node that was reached once keeps its first entry.
ImprovesUnseen(n, entry) == n \notin DOMAIN tentative
Improves(n, entry) == n \notin DOMAIN tentative \/ Precedes(entry, tentative[n])

\* Entries of the neighbours that node n improves.
Relaxed(n, distance, origin) ==
  LET entry(m) == <<distance + Weight(n, m), origin, n>>
      improved == {m \in Adjacent(n) \ (DOMAIN settled \cup {n}) :
                     entry(m)[1] <= net.reach /\ Improves(m, entry(m))}
  IN  [m \in improved |-> entry(m)]

\* A node is settled; the search ends early when it was the last target.
PopSettle ==
  /\ access = "pop" /\ frontier # {} /\ ~Stale(PoppedEntry)
  /\ LET e == PoppedEntry
         n == e[4]
         after == DOMAIN settled \cup {n}
         better == Relaxed(n, e[2], e[3])
         goal == Head(searches).goal
     IN IF Cardinality(after) > net.maxVisited
        THEN Refused
        ELSE /\ settled' = [m \in after |->
                  IF m = n THEN [distance |-> e[2], origin |-> e[3], parent |-> e[5]] ELSE settled[m]]
             /\ IF n \in Head(searches).to /\ Head(searches).to \subseteq after
                THEN access' = "answer" /\ UNCHANGED <<frontier, tentative>>
                ELSE /\ frontier' = (frontier \ {e})
                          \cup {<<Priority(m, better[m][1], goal), better[m][1], better[m][2], m, n>> :
                                  m \in DOMAIN better}
                     /\ tentative' = [m \in DOMAIN better \cup DOMAIN tentative |->
                          IF m \in DOMAIN better THEN better[m] ELSE tentative[m]]
                     /\ UNCHANGED access
             /\ UNCHANGED <<net, snapped, searches, found, outcome>>

Exhaust ==
  /\ access = "pop" /\ frontier = {}
  /\ access' = "answer"
  /\ UNCHANGED <<net, snapped, searches, searchVars, found, outcome>>

\* From the target back to its source.
ReconstructPath(t) ==
  LET path[n \in DOMAIN settled] ==
        IF settled[n].parent = 0 THEN <<n>> ELSE Append(path[settled[n].parent], n)
  IN  path[t]

Answer(t) ==
  [from |-> settled[t].origin, to |-> t, distance |-> settled[t].distance,
   nodes |-> IF net.mode = "path" THEN ReconstructPath(t) ELSE << >>]

AnswerSearch ==
  /\ access = "answer"
  /\ access' = "search"
  /\ searches' = Tail(searches)
  /\ found' = found \cup {Answer(t) : t \in Head(searches).to \cap DOMAIN settled}
  /\ frontier' = {} /\ tentative' = << >> /\ settled' = << >>
  /\ UNCHANGED <<net, snapped, outcome>>

-----------------------------------------------------------------------------
(* Outcomes. *)

\* Answers to nothing but what was asked, each of them once.
AnswersFit(answers) ==
  /\ \A f \in answers : f.from \in SiteNodes /\ f.to \in DemandNodes
  /\ \A f, g \in answers :
       f.to = g.to /\ (net.mode = "candidates" => f.from = g.from) => f = g

Unavailable(reason, demandWhy, siteWhy) ==
  [site |-> 0, distance |-> -1, reason |-> reason, demandWhy |-> demandWhy, siteWhy |-> siteWhy]
Reachable(site, distance) ==
  [site |-> site, distance |-> distance, reason |-> "", demandWhy |-> "", siteWhy |-> ""]

\* The first facility of a node stands for all.
FacilityAt(n) == Min({s \in DOMAIN snapped.site : SnappedNode(snapped.site, s) = n})

ExistingOutcome(d) ==
  LET demand == snapped.demand[d]
      answers == {f \in found : f.to = demand.node}
  IN  IF answers # {}
      THEN LET f == CHOOSE f \in answers : TRUE IN Reachable(FacilityAt(f.from), f.distance)
      ELSE IF demand.node = 0 THEN Unavailable("demand_unsnapped", demand.reason, "")
      ELSE IF SiteNodes = {} THEN Unavailable("no_snapped_facility_site", "", "")
      ELSE Unavailable("no_path_within_max_distance", "", "")

PairOutcome(d, s) ==
  LET demand == snapped.demand[d]
      site == snapped.site[s]
      answers == {f \in found : f.from = site.node /\ f.to = demand.node}
  IN  IF answers # {} THEN LET f == CHOOSE f \in answers : TRUE IN Reachable(s, f.distance)
      ELSE Unavailable(
             IF demand.node = 0 /\ site.node = 0 THEN "both_unsnapped"
             ELSE IF demand.node = 0 THEN "demand_unsnapped"
             ELSE IF site.node = 0 THEN "facility_site_unsnapped"
             ELSE "no_path_within_max_distance", demand.reason, site.reason)

\* The reasons of snapping belong to the subjects that an outcome blames.
ReasonsFit(o) ==
  /\ o.demandWhy # "" <=> o.reason \in {"demand_unsnapped", "both_unsnapped"}
  /\ o.siteWhy # "" <=> o.reason \in {"facility_site_unsnapped", "both_unsnapped"}
ReachableFits(o) == o.distance \in 0..net.reach /\ o.site \in DOMAIN snapped.site

UnavailableReasons ==
  {"demand_unsnapped", "facility_site_unsnapped", "both_unsnapped",
   "no_path_within_max_distance", "no_snapped_facility_site"}
AccessDiagnostics(outcomes) ==
  [subjects |-> Cardinality(DOMAIN outcomes),
   reachable |-> Cardinality({k \in DOMAIN outcomes : outcomes[k].reason = ""}),
   unavailable |-> [reason \in UnavailableReasons |->
                      Cardinality({k \in DOMAIN outcomes : outcomes[k].reason = reason})]]
AccessCountsAgree(counts) ==
  counts.reachable + SumFunction(counts.unavailable) = counts.subjects

\* What a batch result may hold: reached subjects within reach, the reasons of the others,
\* and a candidate of its own for a pair.
BatchFits(outcomes) ==
  /\ \A k \in DOMAIN outcomes :
       IF outcomes[k].reason = "" THEN ReachableFits(outcomes[k]) ELSE ReasonsFit(outcomes[k])
  /\ net.mode = "candidates" =>
       \A k \in DOMAIN outcomes : outcomes[k].reason = "" => outcomes[k].site = k[2]
  /\ AccessCountsAgree(AccessDiagnostics(outcomes))

Report ==
  /\ access = "search" /\ searches = << >> /\ net.mode # "path"
  /\ LET outcomes ==
           IF net.mode = "existing"
           THEN [d \in DemandRefs |-> ExistingOutcome(d)]
           ELSE [p \in DemandRefs \X SiteRefs |-> PairOutcome(p[1], p[2])]
     IN  IF ~AnswersFit(found) \/ ~BatchFits(outcomes)
         THEN Refused
         ELSE /\ access' = "done" /\ outcome' = outcomes
              /\ UNCHANGED <<net, snapped, searches, searchVars, found>>

\* The path, or none within the distance asked for.
ReportPath ==
  /\ access = "search" /\ searches = << >> /\ net.mode = "path"
  /\ access' = "done" /\ outcome' = found
  /\ UNCHANGED <<net, snapped, searches, searchVars, found>>

AccessNext ==
  \/ SnapBatch \/ PlanSearches \/ PlanPath \/ BeginSearch \/ PopStale \/ PopSettle \/ Exhaust
  \/ AnswerSearch \/ Report \/ ReportPath

AccessSpec == AccessInit /\ [][AccessNext]_accessVars

-----------------------------------------------------------------------------
(* Reference: the metric of the whole network. *)

\* Longer than what counts.
Far == net.reach + 1

\* Metric[m][n]: the shortest way from m to n; upTo[k], over the nodes up to k.
Metric ==
  LET nodes == DOMAIN net.at
      direct == [p \in nodes |-> [q \in nodes |->
                   IF p = q THEN 0 ELSE IF q \in Adjacent(p) THEN Weight(p, q) ELSE Far]]
      upTo[k \in 0..Len(net.at)] ==
        IF k = 0 THEN direct
        ELSE [p \in nodes |-> [q \in nodes |->
                Min({upTo[k - 1][p][q], upTo[k - 1][p][k] + upTo[k - 1][k][q]})]]
  IN  upTo[Len(net.at)]

\* The outcomes that a batch ought to have.
BatchExact ==
  LET Way(d, s) == IF snapped.demand[d].node = 0 \/ snapped.site[s].node = 0 THEN Far
                   ELSE Metric[snapped.site[s].node][snapped.demand[d].node]
      Rank(d, s) == <<Way(d, s), snapped.site[s].node, s>>
      Near(d) == {s \in DOMAIN snapped.site : Way(d, s) <= net.reach}
  IN  /\ net.mode = "existing" =>
           \A d \in DemandRefs :
             IF Near(d) # {}
             THEN \E s \in Near(d) : /\ outcome[d] = Reachable(s, Way(d, s))
                                     /\ \A x \in Near(d) \ {s} : Precedes(Rank(d, s), Rank(d, x))
             ELSE outcome[d].site = 0 /\ outcome[d].reason =
                    CASE snapped.demand[d].node = 0 -> "demand_unsnapped"
                      [] SiteNodes = {} /\ snapped.demand[d].node # 0 -> "no_snapped_facility_site"
                      [] OTHER -> "no_path_within_max_distance"
      /\ net.mode = "candidates" =>
           \A d \in DemandRefs, s \in SiteRefs :
             LET o == outcome[<<d, s>>] IN
             IF Way(d, s) <= net.reach THEN o = Reachable(s, Way(d, s))
             ELSE /\ o.reason # "" /\ o.demandWhy = snapped.demand[d].reason
                  /\ o.siteWhy = snapped.site[s].reason

\* A path of roads from a source to the target, as long as the answer says, and the
\* shortest of all; no answer only where every path is too long.
PathExact ==
  LET ways == {Metric[s][net.target] : s \in net.sources} IN
  IF Min(ways) > net.reach THEN outcome = {}
  ELSE \E f \in outcome :
         LET path == f.nodes
             step(i) == Weight(path[i], path[i + 1])
         IN  /\ outcome = {f} /\ f.distance = Min(ways)
             /\ path[1] = f.from /\ f.from \in net.sources /\ path[Len(path)] = net.target
             /\ \A i \in 1..(Len(path) - 1) : path[i + 1] \in Adjacent(path[i])
             /\ SumFunction([i \in 1..(Len(path) - 1) |-> step(i)]) = f.distance

\* accessibility.py:702, :813 promise one explicit outcome for every subject of a
\* batch. Whatever the order in which the searches settle nodes, drop stale entries
\* and stop at their last target, a demand gets the nearest facility of the network, of
\* equally near ones the first node's first, and a pair its distance, when that is
\* within reach; otherwise it gets the reason that holds. Batches make no difference. A
\* path is a shortest one, whichever algorithm looks for it. Nothing is refused but
\* what breaks a limit or names what is not there: the checks of the results never fail.
AccessExact ==
  /\ access = "done" => IF net.mode = "path" THEN PathExact ELSE BatchExact
  /\ access = "refused" =>
       \/ net.mode = "path" /\ ~KnownNodes(net.sources \cup {net.target})
       \/ net.mode # "path" /\ (SnapRefused \/ SnapRepeats)
       \/ net.mode = "existing" /\ TooManyExisting
       \/ net.mode = "candidates" /\ TooManyCandidates
       \/ net.maxVisited < Len(net.at)
=============================================================================

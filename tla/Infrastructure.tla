---------------------------- MODULE Infrastructure ----------------------------
(***************************************************************************)
(* Supply of one infrastructure type (infrastructure/*.py): the facilities  *)
(* that exist, the candidate sites with their geometry and feasibility,     *)
(* unmet demand of the blocks, the candidates that reach it on the road     *)
(* network, the loop that accepts one site after another, and the metrics   *)
(* that replay what the accepted sites served. The calls are chained by     *)
(* their caller (benchmarks/infrastructure_reference.py and the acceptance  *)
(* tests, which also judge every candidate with the capacity of the type).  *)
(*                                                                         *)
(* Demands are numbered in the order of their keys, and so are candidates. *)
(* Amounts are whole numbers, so the tolerances of the code do not show,   *)
(* and a source is a strip with its anchor between two ends, so that a     *)
(* window around the anchor clips only its length.                         *)
(***************************************************************************)
EXTENDS Integers, FiniteSets, SequencesExt

CONSTANT SupplyCases  \* the inputs: see SupplyInput

VARIABLES
  supply,     \* the call that is next, how the loop stopped, or an error
  town,       \* records, sources, demand, network and policies
  facilities, \* existing facilities of the type, in the order of their records
  offered,    \* candidates in order, with the geometry and the reasons against them
  skipped,    \* how many sources the generator skipped
  covers,     \* demands each candidate reaches: the coverage cache
  remaining,  \* remaining demand
  accepted,   \* accepted candidates, in order, with the benefit they were selected for
  selection,  \* the selected candidate, its reachable demand and its benefit
  stopped,    \* status of the selection that ended the loop
  metrics     \* the raw metrics

supplyVars == <<supply, town, facilities, offered, skipped, covers, remaining, accepted,
                selection, stopped, metrics>>

None == [site |-> 0, reaches |-> 0, benefit |-> 0]
SourceRank == [block |-> 1, building |-> 2, parcel |-> 3]

\* A facility type: its capacity, where its sites may lie and how large they are.
TypeInput(c) ==
  /\ {c.rate, c.capacity, c.maxDistance, c.minimumArea, c.targetArea} \subseteq Nat \ {0}
  /\ c.targetArea >= c.minimumArea
  /\ c.enabled # {} /\ c.enabled \subseteq DOMAIN SourceRank
  /\ c.allowed # {} /\ c.signalKind \in {"population", "age_group", "jobs"}

\* Records of existing facilities and the rules for their uses (0: no capacity given).
RecordInput(c) ==
  /\ \A r \in Range(c.records) : r.capacity \in Nat /\ r.node \in Nat
  /\ \A u \in DOMAIN c.rules : c.rules[u].capacity \in Nat /\ c.rules[u].known \in BOOLEAN

\* Sources of candidates, zone "" where they have none, demands on network nodes (0: not
\* snapped), the metric distances of the nodes, and the demand that is served already.
SupplyInput(c) ==
  LET nodes == {n \in Range(c.blockNode) \cup {s.node : s \in Range(c.sources)}
                      \cup {r.node : r \in Range(c.records)} : n # 0}
  IN
  /\ TypeInput(c) /\ RecordInput(c)
  /\ \A s \in Range(c.sources) :
       /\ s.kind \in DOMAIN SourceRank /\ {s.left, s.right} \subseteq Nat \ {0}
       /\ s.kind = "building" => s.zone # ""
  /\ c.sources \in Seq(Range(c.sources)) /\ c.blockNode \in Seq(Nat)
  /\ c.signal \in [DOMAIN c.blockNode -> Nat]
  /\ c.served \in Seq([block : Nat, amount : Nat])
  /\ nodes \X nodes \subseteq DOMAIN c.distance
  /\ {c.batch, c.maxFacilities, c.maxIterations, c.rounds} \subseteq Nat \ {0}

ASSUME SupplyAssumption == \A c \in SupplyCases : SupplyInput(c)

SupplyInit ==
  /\ supply = "existing" /\ town \in SupplyCases
  /\ facilities = << >> /\ offered = << >> /\ skipped = [unzoned |-> 0, barred |-> 0]
  /\ covers = << >> /\ remaining = << >> /\ accepted = << >>
  /\ selection = None /\ stopped = "" /\ metrics = << >>

Demands == DOMAIN town.blockNode
Sites == DOMAIN offered
SiteNode(c) == town.sources[offered[c].source].node
Gross(d) == town.signal[d] * town.rate
Served(d) ==
  LET given == {i \in DOMAIN town.served : town.served[i].block = d}
  IN  IF given = {} THEN 0 ELSE town.served[Min(given)].amount
Unmet(d) == Gross(d) - Served(d)
Taken == {a.site : a \in Range(accepted)}
Sum(amount, s) == SumFunctionOnSet(amount, s)

-----------------------------------------------------------------------------
(* ExistingInfrastructureAdapter. *)

\* The capacity of a record, or else that of its rule, or else that of the type.
CapacityOf(r) ==
  IF r.capacity > 0 THEN r.capacity
  ELSE IF town.rules[r.use].capacity > 0 THEN town.rules[r.use].capacity ELSE town.capacity

Unmapped(r) == r.use \notin DOMAIN town.rules

AdaptExisting ==
  /\ supply = "existing"
  /\ IF \/ \E r \in Range(town.records) :
             IF Unmapped(r) THEN ~town.skipUnmapped ELSE ~town.rules[r.use].known
        \/ ~IsInjective([i \in DOMAIN town.records |-> town.records[i].id])
     THEN supply' = "refused" /\ UNCHANGED facilities
     ELSE /\ supply' = "sites"
          /\ LET mapped == SelectSeq(SortSeq(town.records, LAMBDA r, q : r.id < q.id),
                                     LAMBDA r : ~Unmapped(r))
             IN  facilities' = [i \in DOMAIN mapped |->
                    [id |-> mapped[i].id, node |-> mapped[i].node,
                     capacity |-> CapacityOf(mapped[i])]]
  /\ UNCHANGED <<town, offered, skipped, covers, remaining, accepted, selection, stopped,
                 metrics>>

-----------------------------------------------------------------------------
(* Candidate sites: sources, geometry, feasibility. *)

SourceBefore(i, j) ==
  LET s == town.sources[i]
      t == town.sources[j]
  IN  \/ SourceRank[s.kind] < SourceRank[t.kind]
      \/ s.kind = t.kind /\ s.id < t.id

GenerateSites ==
  /\ supply = "sites"
  /\ LET considered == {i \in DOMAIN town.sources : town.sources[i].kind \in town.enabled}
         unzoned == {i \in considered : town.sources[i].zone = ""}
         barred == {i \in considered \ unzoned : town.sources[i].zone \notin town.allowed}
         kept == considered \ (unzoned \cup barred)
         ordered == SetToSortSeq(kept, SourceBefore)
     IN  IF \/ Len(town.sources) > town.maxInputs
            \/ \E i, j \in considered : i # j /\ ~SourceBefore(i, j) /\ ~SourceBefore(j, i)
            \/ Cardinality(kept) > town.maxCandidates
         THEN supply' = "refused" /\ UNCHANGED <<offered, skipped>>
         ELSE /\ supply' = "shape"
              /\ offered' = [c \in 1..Cardinality(kept) |->
                   [source |-> ordered[c], form |-> "", area |-> 0, against |-> {}]]
              /\ skipped' = [unzoned |-> Cardinality(unzoned), barred |-> Cardinality(barred)]
  /\ UNCHANGED <<town, facilities, covers, remaining, accepted, selection, stopped, metrics>>

Area(s) == s.left + s.right
WindowArea(s, half) == Min({half, s.left}) + Min({half, s.right})
SiteTarget(s) == Min({town.targetArea, Area(s)})

\* The window around the anchor after the rounds of the search for the target area.
Searched(s) ==
  FoldLeft(LAMBDA w, k :
             LET half == (w.low + w.high) \div 2
             IN  IF WindowArea(s, half) < SiteTarget(s) THEN [w EXCEPT !.low = half]
                 ELSE [w EXCEPT !.high = half],
           [low |-> 0, high |-> Max({s.left, s.right})], [k \in 1..town.rounds |-> k]).high

Form(s) ==
  IF s.kind = "building" THEN "host" ELSE IF SiteTarget(s) = Area(s) THEN "full" ELSE "clipped"

\* A window that missed the target area is refused.
ShapeSites ==
  /\ supply = "shape"
  /\ LET source(c) == town.sources[offered[c].source]
         area(c) == CASE Form(source(c)) = "host" -> 0
                      [] Form(source(c)) = "full" -> Area(source(c))
                      [] OTHER -> WindowArea(source(c), Searched(source(c)))
     IN  IF \E c \in Sites : Form(source(c)) = "clipped" /\ area(c) # SiteTarget(source(c))
         THEN supply' = "refused" /\ UNCHANGED offered
         ELSE /\ supply' = "judge"
              /\ offered' = [c \in Sites |->
                   [offered[c] EXCEPT !.form = Form(source(c)), !.area = area(c)]]
  /\ UNCHANGED <<town, facilities, skipped, covers, remaining, accepted, selection, stopped,
                 metrics>>

\* Reasons against a candidate; town.hosts are the buildings whose geometry is given.
Against(c) ==
  LET o == offered[c] IN
  IF o.form # "host"
  THEN {r \in {"SITE_AREA_BELOW_MINIMUM"} : o.area < town.minimumArea}
  ELSE IF o.source \notin town.hosts THEN {"HOST_BUILDING_GEOMETRY_UNAVAILABLE"}
  ELSE {r \in {"HOST_BUILDING_AREA_BELOW_MINIMUM"} :
          Area(town.sources[o.source]) < town.minimumArea}

JudgeSites ==
  /\ supply = "judge"
  /\ supply' = "demand"
  /\ offered' = [c \in Sites |-> [offered[c] EXCEPT !.against = Against(c)]]
  /\ UNCHANGED <<town, facilities, skipped, covers, remaining, accepted, selection, stopped,
                 metrics>>

Feasible == {c \in Sites : offered[c].against = {}}

-----------------------------------------------------------------------------
(* UnmetDemandCalculator and the accessibility of the candidate sites. *)

\* Served demand is given once per demand, and no more than the gross demand.
CalculateDemand ==
  /\ supply = "demand"
  /\ IF \/ Cardinality(Demands) > town.maxItems
        \/ ~IsInjective([i \in DOMAIN town.served |-> town.served[i].block])
        \/ \E v \in Range(town.served) : v.block \notin Demands
        \/ \E d \in Demands : Served(d) > Gross(d)
     THEN supply' = "refused" /\ UNCHANGED remaining
     ELSE supply' = "route" /\ remaining' = [d \in Demands |-> Unmet(d)]
  /\ UNCHANGED <<town, facilities, offered, skipped, covers, accepted, selection, stopped,
                 metrics>>

Within(m, n) == m # 0 /\ n # 0 /\ town.distance[<<m, n>>] <= town.maxDistance

\* Routing calls: one per node with sites and per batch of nodes with demand.
RoutingCalls ==
  LET demandNodes == Range(town.blockNode) \ {0}
      siteNodes == {SiteNode(c) : c \in Sites} \ {0}
  IN  Cardinality(siteNodes)
      * ((Cardinality(demandNodes) + town.batch - 1) \div town.batch)

\* Every pair of a candidate and a demand has an outcome, and the reachable ones are
\* the coverage cache.
Route ==
  /\ supply = "route"
  /\ IF \/ Cardinality(Demands) * Cardinality(Sites) > town.maxResults
        \/ RoutingCalls > town.maxCalls
     THEN supply' = "refused" /\ UNCHANGED covers
     ELSE /\ supply' = "select"
          /\ covers' = [c \in Sites |->
               {d \in Demands : Within(SiteNode(c), town.blockNode[d])}]
  /\ UNCHANGED <<town, facilities, offered, skipped, remaining, accepted, selection, stopped,
                 metrics>>

-----------------------------------------------------------------------------
(* The greedy loop. *)

\* Mutant: benefits are those of the demand at the start.
BenefitInitial(c) ==
  LET reaches == Sum([d \in Demands |-> Unmet(d)], covers[c])
  IN  [site |-> c, reaches |-> reaches, benefit |-> Min({reaches, town.capacity})]

Benefit(c) ==
  LET reaches == Sum(remaining, covers[c])
  IN  [site |-> c, reaches |-> reaches, benefit |-> Min({reaches, town.capacity})]

Offers == {Benefit(c) : c \in (Sites \ Taken) \cap Feasible}

\* The largest benefit, and of equal ones that of the first candidate.
Best == CHOOSE b \in Offers : \A x \in Offers \ {b} :
          b.benefit > x.benefit \/ (b.benefit = x.benefit /\ b.site < x.site)

StopsBefore ==
  IF Len(accepted) >= town.maxFacilities THEN "FACILITY_LIMIT_REACHED"
  ELSE IF Len(accepted) >= town.maxIterations THEN "ITERATION_LIMIT_REACHED"
  ELSE IF Sites = Taken THEN "NO_CANDIDATES"
  ELSE IF Offers = {} THEN "NO_FEASIBLE_CANDIDATES"
  ELSE IF Best.benefit = 0 THEN "NO_POSITIVE_BENEFIT"
  ELSE "SELECTED"

Select ==
  /\ supply = "select"
  /\ IF StopsBefore = "SELECTED"
     THEN supply' = "apply" /\ selection' = Best /\ UNCHANGED stopped
     ELSE supply' = "measure" /\ stopped' = StopsBefore /\ UNCHANGED selection
  /\ UNCHANGED <<town, facilities, offered, skipped, covers, remaining, accepted, metrics>>

\* What each demand gets of a facility at site c, which serves the demands it reaches,
\* in their order, until its capacity is used.
ServedBy(demand, c) ==
  [d \in DOMAIN demand |->
     IF d \notin covers[c] THEN 0
     ELSE LET before == Sum(demand, {x \in covers[c] : x < d})
          IN  Min({demand[d], Max({town.capacity - before, 0})})]

AfterServing(demand, c) == [d \in DOMAIN demand |-> demand[d] - ServedBy(demand, c)[d]]

\* A selection that does not match the demand that remains is refused.
Apply ==
  /\ supply = "apply"
  /\ IF selection # Benefit(selection.site) \/ selection.site \in Taken
     THEN supply' = "stale" /\ UNCHANGED <<remaining, accepted, selection>>
     ELSE /\ remaining' = AfterServing(remaining, selection.site)
          /\ accepted' = Append(accepted, [site |-> selection.site, benefit |-> selection.benefit])
          /\ selection' = None /\ supply' = "select"
  /\ UNCHANGED <<town, facilities, offered, skipped, covers, stopped, metrics>>

-----------------------------------------------------------------------------
(* InfrastructureMetricsBuilder. *)

\* Samples of the demands in s, in their order: what each got, from how far.
ServiceSamples(s, got, far) ==
  LET order == SetToSortSeq({d \in s : got[d] > 0}, <)
  IN  [i \in DOMAIN order |-> [distance |-> far[order[i]], amount |-> got[order[i]]]]

\* The service of the accepted sites again: the demand each of them left, and its samples.
Replay ==
  LET left[k \in 0..Len(accepted)] ==
        IF k = 0 THEN [d \in Demands |-> Unmet(d)]
        ELSE AfterServing(left[k - 1], accepted[k].site)
  IN  left

SitesSamples ==
  FlattenSeq([k \in DOMAIN accepted |->
    LET c == accepted[k].site
    IN  ServiceSamples(covers[c], ServedBy(Replay[k - 1], c),
                       [d \in covers[c] |->
                          town.distance[<<SiteNode(c), town.blockNode[d]>>]])])

\* Distances of the existing facilities that reach a demand: the nearest one counts.
Existing(d) ==
  {town.distance[<<f.node, town.blockNode[d]>>] :
     f \in {x \in Range(facilities) : Within(x.node, town.blockNode[d])}}

ExistingSamples ==
  ServiceSamples(Demands, [d \in Demands |-> Served(d)],
          [d \in Demands |-> Min(Existing(d) \cup {town.maxDistance})])

Amounts(samples, s) == Sum([i \in DOMAIN samples |-> samples[i].amount], s)

\* The distance within which a share of q tenths of what was served was served.
Percentile(samples, q) ==
  LET nearer(x) == {i \in DOMAIN samples : samples[i].distance <= x}
  IN  Min({x \in {s.distance : s \in Range(samples)} :
             10 * Amounts(samples, nearer(x)) >= q * Amounts(samples, DOMAIN samples)})

ExistingCapacity == FoldLeft(LAMBDA sum, f : sum + f.capacity, 0, facilities)

\* Of the population a demand stands for, the covered part times the demand rate.
CoveredSignal(d, left) == IF Gross(d) = 0 THEN 0 ELSE Min({Gross(d) - left[d], Gross(d)})

Measured(left, samples) ==
  LET people == town.signalKind # "jobs"
      total(amount) == IF people THEN Sum(amount, Demands) ELSE 0
      covered == total([d \in Demands |-> CoveredSignal(d, left)])
  IN  [population |-> total(town.signal), covered |-> covered,
       ages |-> IF town.signalKind = "age_group" THEN << <<total(town.signal), covered>> >>
                ELSE << >>,
       p50 |-> IF samples = << >> THEN {} ELSE {Percentile(samples, 5)},
       p90 |-> IF samples = << >> THEN {} ELSE {Percentile(samples, 9)},
       unmet |-> Sum(left, Demands),
       used |-> Sum([d \in Demands |-> Gross(d) - left[d]], Demands),
       capacity |-> ExistingCapacity + Len(accepted) * town.capacity,
       sampled |-> Amounts(samples, DOMAIN samples)]

\* Demand that is already served needs an existing facility in reach, the accepted sites
\* must leave exactly the demand that remains, and no more than the capacity is used.
Measure ==
  /\ supply = "measure"
  /\ LET left == Replay[Len(accepted)]
         m == Measured(left, ExistingSamples \o SitesSamples)
     IN  IF left # remaining THEN supply' = "mismatch" /\ UNCHANGED metrics
         ELSE IF \/ Demands = {}
                 \/ \E d \in Demands : Served(d) > 0 /\ Existing(d) = {}
                 \/ m.used > m.capacity
         THEN supply' = "refused" /\ UNCHANGED metrics
         ELSE supply' = "measured" /\ metrics' = m
  /\ UNCHANGED <<town, facilities, offered, skipped, covers, remaining, accepted, selection,
                 stopped>>

SupplyNext ==
  AdaptExisting \/ GenerateSites \/ ShapeSites \/ JudgeSites \/ CalculateDemand \/ Route
  \/ Select \/ Apply \/ Measure

SupplySpec == SupplyInit /\ [][SupplyNext]_supplyVars

-----------------------------------------------------------------------------
(* What the results demand of themselves when they are built. *)

\* Whether a call has been made, and none was refused.
Calls == <<"existing", "sites", "shape", "judge", "demand", "route">>
InLoop == supply \in {"select", "apply", "measure", "measured"}
Past(call) ==
  InLoop \/ \E i, j \in DOMAIN Calls : Calls[i] = call /\ i < j /\ supply = Calls[j]

\* Facilities are listed once and in order, and every record was mapped or skipped.
ExistingAccepted ==
  Past("existing") =>
    /\ \A i, j \in DOMAIN facilities : i < j => facilities[i].id < facilities[j].id
    /\ \A f \in Range(facilities) : f.capacity > 0
    /\ Len(facilities) + Cardinality({i \in DOMAIN town.records : Unmapped(town.records[i])})
       = Len(town.records)

\* Candidates are listed once and in order, of zones that are allowed.
SitesAccepted ==
  /\ \A i, j \in Sites : i < j => SourceBefore(offered[i].source, offered[j].source)
  /\ \A o \in Range(offered) :
       town.sources[o.source].zone \in town.allowed /\ Area(town.sources[o.source]) > 0

\* A site has the target area within its source, and a building hosts without one.
ShapeAccepted(o) ==
  LET s == town.sources[o.source] IN
  IF o.form = "host" THEN s.kind = "building" /\ o.area = 0
  ELSE s.kind # "building" /\ o.area = SiteTarget(s) /\ o.area > 0

FormsCounted ==
  LET count == [f \in {"host", "full", "clipped"} |->
                  Cardinality({c \in Sites : offered[c].form = f})]
  IN  count["host"] + count["full"] + count["clipped"] = Len(offered)

\* Reasons are those of the kind of geometry.
VerdictAccepted(o) ==
  IF o.form = "host" THEN "SITE_AREA_BELOW_MINIMUM" \notin o.against
  ELSE o.against \subseteq {"SITE_AREA_BELOW_MINIMUM"}

\* No more demand remains than there was, and a benefit is capped by the capacity.
DemandAccepted == \A d \in DOMAIN remaining : remaining[d] \in 0..Unmet(d)
SelectionAccepted ==
  supply = "apply" =>
    selection.benefit > 0 /\ selection.benefit = Min({selection.reaches, town.capacity})

\* The cache has one entry per candidate with rows of its demands that are in reach.
CacheAccepted ==
  \A c \in DOMAIN covers : covers[c] \subseteq {d \in Demands : town.blockNode[d] # 0}

\* There is a cache entry per candidate, and a candidate is accepted once.
StateAccepted ==
  InLoop =>
    /\ DOMAIN covers = Sites /\ UNION Range(covers) \subseteq DOMAIN remaining
    /\ Cardinality(Taken) = Len(accepted) /\ Taken \subseteq Sites

\* What is not served of the gross demand is unmet, in all as for every demand.
DemandSummary ==
  [gross |-> Sum([d \in Demands |-> Gross(d)], Demands),
   served |-> Sum([d \in Demands |-> Served(d)], Demands),
   unmet |-> Sum([d \in Demands |-> Unmet(d)], Demands)]
SummaryBalances ==
  Past("demand") => DemandSummary.gross - DemandSummary.served = DemandSummary.unmet

\* Covered people are people, shares are shares, and the distance of nine tenths is not
\* below that of a half.
CoverageAccepted ==
  supply = "measured" =>
    /\ metrics.covered \in 0..metrics.population * town.rate /\ metrics.used <= metrics.capacity
    /\ \A x \in metrics.p50, y \in metrics.p90 : x <= y
    /\ \A a \in Range(metrics.ages) : a = <<metrics.population, metrics.covered>>

ResultsAccepted ==
  /\ ExistingAccepted /\ SitesAccepted
  /\ Past("judge") =>
       FormsCounted /\ \A o \in Range(offered) : ShapeAccepted(o) /\ VerdictAccepted(o)
  /\ SummaryBalances /\ DemandAccepted /\ CacheAccepted /\ SelectionAccepted
  /\ StateAccepted /\ CoverageAccepted

-----------------------------------------------------------------------------
(* Properties. *)

\* The greedy loop accounts for what it serves: no selection is stale, the metrics can
\* replay it, every accepted facility is feasible and served the benefit it was selected
\* for, later ones no more than earlier ones, one that has capacity left leaves no demand
\* in its reach, and unless a limit ended the loop no feasible site could serve any demand
\* that is left (docs/INFRASTRUCTURE_GREEDY_PLACEMENT.md).
LoopAccounts ==
  LET benefits == [i \in DOMAIN accepted |-> accepted[i].benefit]
  IN  /\ supply \notin {"stale", "mismatch"}
      /\ InLoop =>
           /\ Sum([d \in Demands |-> Unmet(d) - remaining[d]], Demands)
              = Sum(benefits, DOMAIN benefits)
           /\ \A i, j \in DOMAIN accepted : i < j => benefits[i] >= benefits[j]
           /\ Taken \subseteq Feasible
           /\ \A a \in Range(accepted) :
                a.benefit < town.capacity => \A d \in covers[a.site] : remaining[d] = 0
      /\ (supply = "measure" /\ stopped \notin {"FACILITY_LIMIT_REACHED", "ITERATION_LIMIT_REACHED"})
         => \A c \in Feasible \ Taken : \A d \in covers[c] : remaining[d] = 0

\* The loop keeps its account, the metrics weigh their distances by all that was served
\* and by nothing else, and no result breaks a rule of its own.
PlacementAccounts ==
  /\ LoopAccounts
  /\ supply = "measured" =>
       /\ metrics.sampled = metrics.used
       /\ metrics.used + metrics.unmet = DemandSummary.gross
       /\ \A x \in metrics.p90 : x <= town.maxDistance
  /\ ResultsAccepted
=============================================================================

------------------------------- MODULE Buildings -------------------------------
(***************************************************************************)
(* The building stage (stages/buildings.py and buildings/*.py): parcels or *)
(* blocks become sources. A source whose envelope is ready draws an        *)
(* archetype, takes candidates on a grid and along its frontages, and      *)
(* proposes the footprints that fit. A greedy loop accepts those that keep *)
(* their distance from every footprint already there until coverage and    *)
(* floor area are in the window of the zone; accepted buildings get an     *)
(* owner, floors and areas.                                                *)
(*                                                                         *)
(* Geometry is data of the case: what a mask and a setback leave of a      *)
(* source, the footprint at each candidate, its areas and the ways it lies *)
(* in its envelope, and the pairs of footprints too close. The draws of    *)
(* the seed are choices, and so is the order of the proposals of a source, *)
(* whose ids are hashes. Areas are whole numbers and ratios percentages.   *)
(***************************************************************************)
EXTENDS Integers, FiniteSets, SequencesExt

CONSTANT BuildingCases  \* the inputs: see BuildingInput

VARIABLES
  building,  \* where the stage is: the call that is next, "error", or the level
  estate,    \* blocks, parcels, archetypes, targets and limits
  sites,     \* the sources, in the order of their ids
  opened,    \* a result for each source so far
  open,      \* proposals of the current source that were not looked at
  looked,    \* iterations for the current source, and what was refused and why
  placed,    \* accepted footprints: footprint and position of the source
  base,      \* footprints the current source found: the index built once
  chunks,    \* indexes, a set each, of the footprints accepted for the current source
  ledger     \* owners, attributes and areas, when the stage has ended

buildingVars ==
  <<building, estate, sites, opened, open, looked, placed, base, chunks, ledger>>

FootprintStrategies == {"RECTANGULAR_POINT", "BAR", "PERIMETER", "COURTYARD"}
Rings == {"PERIMETER", "COURTYARD"}

\* Distances are compared with whole spacings; at least one sample is taken.
Samples(length, spacing) == Max({1, length \div spacing})

\* A frontage has a footprint at each sample: straight when it is one line, bent when that
\* line has more than two points, and on the edge of the envelope or not.
FrontInput(c, front) ==
  /\ front.prints \in Seq(DOMAIN c.area)
  /\ Len(front.prints) = Samples(front.length, c.spacing)
  /\ {front.straight, front.bent, front.edge} \subseteq BOOLEAN /\ front.angle \in 0..179

\* A parcel or a block: its area, what is left of it by the mask (masked, parts) and the
\* setback, the footprints at grid points and along frontages, the ring it could hold.
PlotInput(c, plot) ==
  /\ plot.size \in Nat \ {0} /\ {plot.masked, plot.inset, plot.parts} \subseteq Nat
  /\ plot.inset <= plot.masked /\ plot.masked <= plot.size
  /\ plot.failing \subseteq c.evaluators
  /\ plot.grid \cup {plot.middle, plot.ring.print} \subseteq DOMAIN c.area
  /\ IsFiniteSet(plot.grid) /\ plot.angle \in 0..179
  /\ Cardinality(plot.grid) <= Samples(plot.width, c.spacing) * Samples(plot.height, c.spacing)
  /\ IsFiniteSet(DOMAIN plot.fronts) /\ DOMAIN plot.fronts \subseteq Nat \ {0}
  /\ \A i \in DOMAIN plot.fronts : FrontInput(c, plot.fronts[i])

\* A footprint spec for each archetype, and how many areas of it count as floor area.
SpecInput(p) == p.spec \in FootprintStrategies /\ p.multiplier \in Nat \ {0}

ArchetypeInput(p) ==
  /\ p.scope \in {"PARCEL", "BLOCK", "PARCEL_OR_BLOCK"} /\ p.weight \in Nat \ {0}
  /\ p.strategy \in FootprintStrategies /\ p.zones # {}
  /\ SpecInput(p)

\* The window around the targets of a zone, cut at nothing and at the whole area.
TargetInput(t) ==
  t.high \in 0..100 /\ t.low \in 0..t.high /\ t.farHigh \in Nat /\ t.farLow \in 0..t.farHigh

RuleInput(rules) ==
  /\ \A r \in rules : r.min \in 1..r.max
  /\ \A r, s \in rules : r.zone = s.zone /\ r.name = s.name => r = s

\* What was there before: footprints, and areas of a source for the loop and for the totals.
ReserveInput(c) ==
  /\ c.existing \subseteq DOMAIN c.area
  /\ {c.baseAt, c.baseCover, c.baseFloor, c.priorFootprint, c.priorGfa} \subseteq Nat

EnvelopeLimits(c) == c.maxParts \in Nat \ {0} /\ {c.setback, c.minArea} \subseteq Nat
SampleLimits(c) == {c.maxScan, c.maxSamples, c.maxCandidates} \subseteq Nat \ {0}
SamplePolicy(c) ==
  c.spacing \in Nat \ {0} /\ {c.byGrid, c.byFrontage} \subseteq BOOLEAN /\ (c.byGrid \/ c.byFrontage)
LoopLimits(c) == {c.maxLooked, c.maxFootprints, c.maxBoxed} \subseteq Nat \ {0}
LimitInput(c) ==
  /\ EnvelopeLimits(c) /\ SampleLimits(c) /\ SamplePolicy(c) /\ LoopLimits(c)
  /\ c.maxSources \in Nat \ {0} /\ {c.apart, c.maxAxis} \subseteq Nat

\* Blocks and parcels are told apart by their ids.
LotInput(c) ==
  /\ IsFiniteSet(DOMAIN c.parcels) /\ DOMAIN c.parcels \subseteq Nat
  /\ c.zone \in [DOMAIN c.parcels -> Nat]
  /\ \A b \in DOMAIN c.parcels :
       /\ IsFiniteSet(c.parcels[b]) /\ PlotInput(c, c.plot[b])
       /\ \A p \in c.parcels[b] : p.part \in Nat /\ PlotInput(c, p.plot)
       /\ \A p, q \in c.parcels[b] : p.part = q.part => p = q

\* Archetypes are listed by name, each once.
ProfilesInput(c) ==
  LET listed == DOMAIN c.profiles IN
  /\ IsFiniteSet(listed) /\ listed \subseteq Nat
  /\ \A i \in listed : ArchetypeInput(c.profiles[i])
  /\ \A i, j \in listed : c.profiles[i].name = c.profiles[j].name => i = j

\* Areas of footprints and how each lies in its envelope, pairs too close, parcels of each
\* block (with the zone of the block, 0 for none), archetypes in their order with what the
\* stage is told about them, attribute rules, targets and limits.
BuildingInput(c) ==
  LET all == DOMAIN c.area IN
  /\ c.area \in [all -> Nat \ {0}]
  /\ c.near \subseteq c.boxed /\ c.boxed \subseteq kSubset(2, all)
  /\ c.fits \in [all -> SUBSET {"UPRIGHT", "TURNED", "ALONG", "ACROSS"}]
  /\ LotInput(c) /\ ProfilesInput(c)
  /\ \A z \in DOMAIN c.targets : TargetInput(c.targets[z])
  /\ RuleInput(c.rules) /\ ReserveInput(c) /\ LimitInput(c)

ASSUME BuildingAssumption == \A c \in BuildingCases : BuildingInput(c)

Over(values, s) == MapThenSumSet(LAMBDA x : values[x], s)
Untouched == [iterations |-> 0, spacing |-> 0, window |-> 0]

BuildingInit ==
  /\ building = "prepare" /\ estate \in BuildingCases /\ sites = << >>
  /\ opened = << >> /\ open = {} /\ looked = Untouched
  /\ placed = {} /\ base = {} /\ chunks = << >> /\ ledger = << >>

-----------------------------------------------------------------------------
(* Sources. *)

Allows(p, kind) == p.scope \in {kind, "PARCEL_OR_BLOCK"}
Profiles(zone, kind) ==
  {i \in DOMAIN estate.profiles :
     zone \in estate.profiles[i].zones /\ Allows(estate.profiles[i], kind)}

Source(kind, b, i, plot) ==
  [kind |-> kind, zone |-> estate.zone[b], block |-> b, part |-> i, plot |-> plot]

\* The parcels of a block with a zone when an archetype takes parcels, else the block.
Sources ==
  UNION {LET zone == estate.zone[b]
         IN  IF estate.parcels[b] # {} /\ Profiles(zone, "PARCEL") # {}
             THEN {Source("PARCEL", b, p.part, p.plot) : p \in estate.parcels[b]}
             ELSE IF Profiles(zone, "BLOCK") # {}
             THEN {Source("BLOCK", b, 0, estate.plot[b])}
             ELSE {}
         : b \in {b \in DOMAIN estate.parcels : estate.zone[b] # 0}}

\* By source id: "block:" sorts before "parcel:".
IdBefore(s, t) ==
  IF s.kind # t.kind THEN s.kind = "BLOCK"
  ELSE s.block < t.block \/ (s.block = t.block /\ s.part < t.part)
SourceOrder ==
  [k \in 1..Cardinality(Sources) |->
     CHOOSE s \in Sources : Cardinality({t \in Sources : IdBefore(t, s)}) = k - 1]

Rules(zone, name) == {r \in estate.rules : r.zone = zone /\ r.name = name}

\* A run from scratch has no fixed buildings; in an expansion the footprints of the
\* buildings of the snapshot are there. Every archetype has attributes in its zones.
Prepared ==
  /\ IF estate.mode = "FROM_SCRATCH"
     THEN ~estate.refs /\ estate.existing = {} /\ estate.baseAt = 0
     ELSE estate.refs => estate.existing # {}
  /\ \A i \in DOMAIN estate.profiles : \A z \in estate.profiles[i].zones :
       Rules(z, estate.profiles[i].name) # {}
  /\ Cardinality(Sources) <= estate.maxSources
  /\ estate.baseAt <= Cardinality(Sources)

Prepare ==
  /\ building = "prepare"
  /\ IF Prepared THEN building' = "sources" /\ sites' = SourceOrder
                 ELSE building' = "error" /\ UNCHANGED sites
  /\ UNCHANGED <<estate, opened, open, looked, placed, base, chunks, ledger>>

Turn == Len(opened)

-----------------------------------------------------------------------------
(* BuildableEnvelopeBuilder, and the archetype drawn for a source. *)

Remainder(plot) == IF estate.setback > 0 THEN plot.inset ELSE plot.masked

EnvelopeStatus(plot) ==
  IF plot.masked = 0 THEN "EMPTY_AFTER_MASK"
  ELSE IF Remainder(plot) = 0 THEN "EMPTY_AFTER_SETBACK"
  ELSE IF plot.parts > estate.maxParts THEN "error"
  ELSE IF Remainder(plot) < estate.minArea THEN "BELOW_MINIMUM_AREA"
  ELSE IF plot.failing # {} THEN "HARD_CONSTRAINT_FAILED"
  ELSE "READY"

\* The rules are evaluated on an envelope that is large enough.
Envelope(plot) ==
  LET status == EnvelopeStatus(plot)
  IN  [status |-> status, area |-> Remainder(plot),
       failed |-> IF status \in {"READY", "HARD_CONSTRAINT_FAILED"} THEN plot.failing ELSE {}]

\* The checks of BuildingEnvelopeResult.
EnvelopeAccepted(e) ==
  /\ e.status \in {"EMPTY_AFTER_MASK", "EMPTY_AFTER_SETBACK"} <=> e.area = 0
  /\ e.status = "HARD_CONSTRAINT_FAILED" <=> e.failed # {}

Weights(ps) == Over([i \in DOMAIN estate.profiles |-> estate.profiles[i].weight], ps)

\* The archetype whose share of the weights of those in ps holds the threshold t.
Drawn(ps, t) ==
  estate.profiles[Min({i \in ps : t < Weights({j \in ps : j <= i})})]

StrategyFits(p, kind) == p.strategy = p.spec /\ (p.strategy \in Rings => kind = "BLOCK")

-----------------------------------------------------------------------------
(* Candidates, orientation and footprints. *)

\* A grid without a point in the envelope falls back to a point inside it.
GridSpots(plot) == IF plot.grid = {} THEN {plot.middle} ELSE plot.grid
FrontSpots(plot) ==
  UNION {{[kind |-> "FRONTAGE", front |-> i, print |-> f] : f \in Range(plot.fronts[i].prints)}
         : i \in DOMAIN plot.fronts}
SiteCandidates(plot) ==
  (IF estate.byGrid THEN {[kind |-> "GRID", front |-> 0, print |-> f] : f \in GridSpots(plot)}
                    ELSE {})
  \cup (IF estate.byFrontage THEN FrontSpots(plot) ELSE {})

\* The checks of the candidates: a frontage candidate names a frontage, and the counts of
\* both kinds add up.
CandidatesAccepted(plot) ==
  LET ofKind(x) == {c \in SiteCandidates(plot) : c.kind = x}
  IN  /\ \A c \in SiteCandidates(plot) : c.kind = "FRONTAGE" <=> c.front \in DOMAIN plot.fronts
      /\ Cardinality(ofKind("GRID")) + Cardinality(ofKind("FRONTAGE"))
           = Cardinality(SiteCandidates(plot))

\* Frontages lie on the boundary of the envelope, sampled or not.
Sampled(plot) ==
  /\ \A i \in DOMAIN plot.fronts : plot.fronts[i].edge
  /\ estate.byGrid =>
       Samples(plot.width, estate.spacing) * Samples(plot.height, estate.spacing)
         <= estate.maxScan
  /\ estate.byFrontage =>
       MapThenSumSet(LAMBDA i : Len(plot.fronts[i].prints), DOMAIN plot.fronts)
         <= estate.maxSamples
  /\ Cardinality(SiteCandidates(plot)) <= estate.maxCandidates

\* The nearest of the given frontages to candidate c.
NearestAxis(c, axes) ==
  LET gap(i) == IF i = c.front THEN 0 ELSE estate.apart
      near == CHOOSE i \in axes : \A j \in axes : gap(i) < gap(j) \/ (gap(i) = gap(j) /\ i <= j)
  IN  [front |-> near, gap |-> gap(near)]

PrincipalAxis(plot) ==
  [source |-> "PRINCIPAL_AXIS", angle |-> plot.angle, gap |-> 0, bent |-> FALSE]

\* The nearest straight frontage of the road of a frontage candidate, else the principal
\* axis of the envelope: the stage passes no road axes.
Axis(plot, c) ==
  LET axes == {i \in DOMAIN plot.fronts :
                 plot.fronts[i].straight /\ plot.fronts[i].road = plot.fronts[c.front].road}
      near == NearestAxis(c, axes)
  IN  IF c.kind = "FRONTAGE" /\ axes # {} /\ near.gap <= estate.maxAxis
      THEN [source |-> "FRONTAGE", angle |-> plot.fronts[near.front].angle,
            gap |-> near.gap, bent |-> plot.fronts[near.front].bent]
      ELSE PrincipalAxis(plot)

\* A box lies in the envelope before it is turned, and after.
Boxed(axis, ways) == "UPRIGHT" \in ways /\ (axis.angle = 0 \/ "TURNED" \in ways)

\* A bar lies on one side of the frontage its candidate is on, else across the candidate.
Along(axis) == axis.source = "FRONTAGE" /\ axis.gap = 0
Barred(axis, ways) == (IF Along(axis) THEN "ALONG" ELSE "ACROSS") \in ways

\* The checks of an orientation.
AxisAccepted(axis) == axis.angle \in 0..179 /\ axis.gap >= 0

Fits(p, plot, c) ==
  IF p.strategy = "RECTANGULAR_POINT"
  THEN Boxed(Axis(plot, c), estate.fits[c.print])
  ELSE Barred(Axis(plot, c), estate.fits[c.print])

\* A bar takes an axis of two points only.
Straightened(p, plot) ==
  p.strategy = "BAR" =>
    \A c \in SiteCandidates(plot) : LET axis == Axis(plot, c) IN Along(axis) => ~axis.bent

\* The gate cut through a wing leaves one piece and no closed court.
Gated(ring) == ring.pieces = 1 /\ ring.courts = 0

\* A ring needs one part, a single outline after its setback, a single court and an
\* opening, or none, that leaves the ring in one piece.
RingStatus(strategy, plot) ==
  LET ring == plot.ring
  IN  IF plot.parts > 1 \/ ring.outer > 1 THEN "MULTIPART_UNSUPPORTED"
      ELSE IF ring.outer = 0 THEN "EMPTY_AFTER_SETBACK"
      ELSE IF ring.inner = 0 THEN "NO_COURT_SPACE"
      ELSE IF ring.inner > 1 \/ (strategy = "COURTYARD" /\ ring.holes # 1)
      THEN "MULTIPART_UNSUPPORTED"
      ELSE IF strategy = "PERIMETER" /\ ~Gated(ring) THEN "INVALID_OPENING"
      ELSE "READY"

\* Footprints proposed for a source with archetype p, and the candidates looked at.
Proposals(p, plot) ==
  IF p.strategy \in Rings
  THEN {f \in {plot.ring.print} : RingStatus(p.strategy, plot) = "READY"}
  ELSE {c.print : c \in {c \in SiteCandidates(plot) : Fits(p, plot, c)}}
CandidateCount(p, plot) == IF p.strategy \in Rings THEN 0 ELSE Cardinality(SiteCandidates(plot))

-----------------------------------------------------------------------------
(* BuildingPlacementConverger. *)

Footprints == {x.print : x \in placed}
Mine(k) == {x.print : x \in {x \in placed : x.turn = k}}
\* Areas of footprints s in the source at position k, with those it had before the run.
Cover(k, s) == (IF k = estate.baseAt THEN estate.baseCover ELSE 0) + Over(estate.area, s)
Multiplier(k) == IF k \in DOMAIN opened THEN opened[k].multiplier ELSE 1
Floor(k, s) ==
  (IF k = estate.baseAt THEN estate.baseFloor ELSE 0) + Multiplier(k) * Over(estate.area, s)

Window(k) == estate.targets[sites[k].zone]
Below(cover, floor, k) ==
  /\ 100 * cover <= Window(k).high * sites[k].plot.size
  /\ 100 * floor <= Window(k).farHigh * sites[k].plot.size
TargetsMet(k, s) ==
  /\ 100 * Cover(k, s) >= Window(k).low * sites[k].plot.size
  /\ 100 * Floor(k, s) >= Window(k).farLow * sites[k].plot.size
  /\ Below(Cover(k, s), Floor(k, s), k)

Placement(status, counts) == [status |-> status, counts |-> counts]
Unplaced(e) ==
  [envelope |-> e, archetype |-> 0, multiplier |-> 1, candidates |-> 0, proposals |-> {},
   placement |-> Placement("NONE", Untouched)]
Result(e, p, plot, status) ==
  [envelope |-> e, archetype |-> p.name, multiplier |-> p.multiplier,
   candidates |-> CandidateCount(p, plot), proposals |-> Proposals(p, plot), placement |-> Placement(status, Untouched)]
Ended(status, counts) == [opened EXCEPT ![Turn].placement = Placement(status, counts)]

\* Checks of BuildingPlacementConverger: the footprints there may be in the end, and the
\* area the source had before.
Placeable(k, found, proposals) ==
  /\ Cardinality(found) + Min({Cardinality(proposals), estate.maxLooked}) <= estate.maxFootprints
  /\ Cover(k, {}) <= sites[k].plot.size

\* The next source: without a target, or with an envelope, an archetype or candidates the
\* stage does not accept, it stops the stage; without a ready envelope it is passed over.
OpenSource ==
  /\ building = "sources" /\ Turn < Len(sites)
  /\ LET k == Turn + 1
         s == sites[k]
         e == Envelope(s.plot)
         found == estate.existing \cup Footprints
     IN  \/ /\ s.zone \notin DOMAIN estate.targets \/ e.status = "error"
            /\ building' = "error" /\ UNCHANGED <<opened, open, looked, base, chunks>>
         \/ /\ s.zone \in DOMAIN estate.targets /\ e.status \notin {"error", "READY"}
            /\ opened' = Append(opened, Unplaced(e))
            /\ UNCHANGED <<building, open, looked, base, chunks>>
         \/ /\ s.zone \in DOMAIN estate.targets /\ e.status = "READY"
            /\ LET eligible == Profiles(s.zone, s.kind) IN
               \E t \in 0..(Weights(eligible) - 1) :
                 LET p == Drawn(eligible, t)
                     proposals == Proposals(p, s.plot)
                     accepts == /\ StrategyFits(p, s.kind)
                                /\ p.strategy \notin Rings =>
                                     Sampled(s.plot) /\ Straightened(p, s.plot)
                                /\ Placeable(k, found, proposals)
                 IN  \/ /\ ~accepts
                        /\ building' = "error" /\ UNCHANGED <<opened, open, looked, base, chunks>>
                     \/ /\ accepts /\ TargetsMet(k, {})
                        /\ opened' = Append(opened, Result(e, p, s.plot, "CONVERGED"))
                        /\ UNCHANGED <<building, open, looked, base, chunks>>
                     \/ /\ accepts /\ ~TargetsMet(k, {})
                        /\ opened' = Append(opened, Result(e, p, s.plot, "OPEN"))
                        /\ building' = "place" /\ open' = proposals /\ looked' = Untouched
                        /\ base' = found /\ chunks' = << >>
  /\ UNCHANGED <<estate, sites, placed, ledger>>

Chunked == UNION Range(chunks)
Hits(f, index) == {g \in index : {f, g} \in estate.near}
Crowded(f, index) == Cardinality({g \in index : {f, g} \in estate.boxed}) > estate.maxBoxed

\* Mutant: the chunk that is merged is lost.
AddedAlone(f) ==
  LET last == Len(chunks)
  IN  IF last > 0 /\ Cardinality(chunks[last]) = 1
      THEN Append(SubSeq(chunks, 1, last - 1), {f})
      ELSE Append(chunks, {f})

\* The chunks after footprint f: from the last on, a chunk joins when it is as large as f
\* and what has joined it, like the digits of a binary counter.
Behind(k) == {i \in DOMAIN chunks : i > k}
Joined(k) == 1 + Over([i \in DOMAIN chunks |-> Cardinality(chunks[i])], Behind(k))
Unmerged == Max({0} \cup {k \in DOMAIN chunks : Cardinality(chunks[k]) # Joined(k)})
Added(f) ==
  Append(SubSeq(chunks, 1, Unmerged), {f} \cup UNION {chunks[i] : i \in Behind(Unmerged)})

Indexes == {base} \cup Range(chunks)

\* One iteration of the loop: a footprint too close to another, or beyond the window, is
\* refused.
Place ==
  /\ building = "place" /\ open # {} /\ looked.iterations < estate.maxLooked
  /\ \E f \in open :
       LET after == Mine(Turn) \cup {f}
           apart == \A index \in Indexes : Hits(f, index) = {}
           fits == Below(Cover(Turn, after), Floor(Turn, after), Turn)
           counts == [iterations |-> looked.iterations + 1,
                            spacing |-> looked.spacing + (IF apart THEN 0 ELSE 1),
                            window |-> looked.window + (IF apart /\ ~fits THEN 1 ELSE 0)]
       IN  \/ /\ \E index \in Indexes : Crowded(f, index)
              /\ building' = "error" /\ UNCHANGED <<opened, open, looked, placed, chunks>>
           \/ /\ \A index \in Indexes : ~Crowded(f, index)
              /\ ~(apart /\ fits)
              /\ open' = open \ {f} /\ looked' = counts
              /\ UNCHANGED <<building, opened, placed, chunks>>
           \/ /\ \A index \in Indexes : ~Crowded(f, index)
              /\ apart /\ fits
              /\ placed' = placed \cup {[print |-> f, turn |-> Turn]}
              /\ chunks' = Added(f)
              /\ open' = open \ {f} /\ looked' = counts
              /\ IF TargetsMet(Turn, after)
                 THEN opened' = Ended("CONVERGED", counts) /\ building' = "sources"
                 ELSE UNCHANGED <<opened, building>>
  /\ UNCHANGED <<estate, sites, base, ledger>>

Exhausted ==
  /\ building = "place" /\ (open = {} \/ looked.iterations = estate.maxLooked)
  /\ opened' = Ended(IF open = {} THEN "CANDIDATES_EXHAUSTED" ELSE "MAX_ITERATIONS", looked)
  /\ building' = "sources"
  /\ UNCHANGED <<estate, sites, open, looked, placed, base, chunks, ledger>>

\* The checks of the diagnostics and of the result of the loop.
PlacementAccepted(k) ==
  LET counts == opened[k].placement.counts
      taken == Cardinality(Mine(k))
  IN  /\ counts.iterations <= Cardinality(opened[k].proposals)
      /\ taken <= counts.iterations
      /\ counts.spacing + counts.window + taken = counts.iterations

-----------------------------------------------------------------------------
(* Owners, attributes and areas. *)

Owner(f) == LET x == CHOOSE x \in placed : x.print = f IN sites[x.turn]
Archetype(f) == LET x == CHOOSE x \in placed : x.print = f IN opened[x.turn].archetype
Rule(f) == CHOOSE r \in Rules(Owner(f).zone, Archetype(f)) : TRUE

Ownership == [f \in Footprints |-> [block |-> Owner(f).block, zone |-> Owner(f).zone]]
BlockRefs ==
  {[block |-> b, zone |-> estate.zone[b], area |-> estate.plot[b].size] :
     b \in {b \in DOMAIN estate.parcels : estate.zone[b] # 0}}

SiteArea == Over([k \in DOMAIN sites |-> sites[k].plot.size], DOMAIN sites)

\* Floors and the use of the rule for each building.
Assigned(floors) ==
  [f \in Footprints |-> [zone |-> Owner(f).zone, name |-> Archetype(f), floors |-> floors[f]]]

\* With the areas of what was there before, which are given beside those the loop counts.
AreaSummary(floors) ==
  [site |-> SiteArea, footprint |-> estate.priorFootprint + Over(estate.area, Footprints),
   gfa |-> estate.priorGfa
           + Over([f \in Footprints |-> estate.area[f] * floors[f]], Footprints)]

\* Some number of floors within the rule of its zone and archetype for each building; the
\* stage ends with a warning when a source was blocked or missed its target.
Finish ==
  /\ building = "sources" /\ Turn = Len(sites)
  /\ IF sites = << >> \/ estate.priorFootprint + Over(estate.area, Footprints) > SiteArea
     THEN building' = "error" /\ UNCHANGED ledger
     ELSE /\ building' =
               IF \A k \in 1..Turn : opened[k].envelope.status = "READY" /\ TargetsMet(k, Mine(k))
               THEN "info" ELSE "warning"
          /\ \E floors \in [Footprints -> UNION {r.min..r.max : r \in estate.rules}] :
               /\ \A f \in Footprints : floors[f] \in Rule(f).min..Rule(f).max
               /\ ledger' = [owners |-> Ownership, blocks |-> BlockRefs,
                             attributes |-> Assigned(floors), areas |-> AreaSummary(floors)]
  /\ UNCHANGED <<estate, sites, opened, open, looked, placed, base, chunks>>

BuildingNext == Prepare \/ OpenSource \/ Place \/ Exhausted \/ Finish

BuildingSpec == BuildingInit /\ [][BuildingNext]_buildingVars

-----------------------------------------------------------------------------
(* Properties. *)

\* The checks of the totals.
SummaryAccepted(s) == s.footprint <= s.site /\ s.gfa >= s.footprint - estate.priorFootprint

\* The checks of the attributes: a building has a rule of its own and floors within it.
AttributesAccepted(a) ==
  \A f \in DOMAIN a : \E r \in Rules(a[f].zone, a[f].name) : a[f].floors \in r.min..r.max

\* What the loop accepted in a window of the zone stays within the area of the source, so
\* all buildings stay within the site, and only what was there before can exceed it.
\* Every building has an owner the stage reports, in the zone of its source.
LedgerRight ==
  /\ Over(estate.area, Footprints) <= SiteArea
  /\ ledger # << >> =>
       /\ SummaryAccepted(ledger.areas)
       /\ DOMAIN ledger.attributes = Footprints /\ AttributesAccepted(ledger.attributes)
       /\ \A f \in Footprints : \E r \in ledger.blocks :
            r.block = ledger.owners[f].block /\ r.zone = ledger.owners[f].zone

\* No index of the loop hides a footprint, so no two buildings of the run, of one source
\* or of several, and no building and a fixed one are too close; no source is built
\* beyond its window; one that ran out of proposals could not have taken any it refused
\* earlier; the counts of the loop add up; only a stage that met every target says so;
\* and what is reported of owners and areas agrees with what was placed
\* (buildings/convergence.py, stages/buildings.py).
BuildingsFit ==
  LET there == estate.existing \cup Footprints
      fits(k, f) == /\ \A g \in there : {f, g} \notin estate.near
                    /\ Below(Cover(k, Mine(k) \cup {f}), Floor(k, Mine(k) \cup {f}), k)
      status(k) == opened[k].placement.status
  IN  /\ \A f \in Footprints : \A g \in there : {f, g} \notin estate.near
      /\ building = "place" => base \cup Chunked = there
      /\ \A k \in DOMAIN opened :
           /\ EnvelopeAccepted(opened[k].envelope)
           /\ opened[k].candidates > 0 =>
                /\ CandidatesAccepted(sites[k].plot)
                /\ \A c \in SiteCandidates(sites[k].plot) : AxisAccepted(Axis(sites[k].plot, c))
           /\ status(k) = "NONE" <=> opened[k].envelope.status # "READY"
           /\ status(k) # "OPEN" => PlacementAccepted(k)
           /\ Mine(k) # {} => Below(Cover(k, Mine(k)), Floor(k, Mine(k)), k)
           /\ status(k) = "CONVERGED" => TargetsMet(k, Mine(k))
           /\ status(k) = "CANDIDATES_EXHAUSTED" =>
                /\ ~TargetsMet(k, Mine(k))
                /\ \A f \in opened[k].proposals \ Mine(k) : ~fits(k, f)
      /\ building = "info" => \A k \in DOMAIN opened : status(k) = "CONVERGED"
      /\ LedgerRight
=============================================================================

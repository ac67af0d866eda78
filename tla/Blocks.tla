-------------------------------- MODULE Blocks --------------------------------
(***************************************************************************)
(* The blocks and parcels stage (stages/blocks.py and blocks/*.py): the    *)
(* faces of the road graph are clipped to developable land and checked for *)
(* frontage, oversized ones are split, slivers are merged into their       *)
(* neighbours or removed, and each resulting block is associated with a    *)
(* zone and, where it can be, divided into parcels.                        *)
(*                                                                         *)
(* Land is a set of pieces no operation cuts further, with their areas and *)
(* the lengths of the boundaries between them and with the outside, 0; a   *)
(* road edge runs along such a boundary, and a polygon is a connected set  *)
(* of pieces. Where an axis or a line falls is a choice of the model.      *)
(***************************************************************************)
EXTENDS Integers, FiniteSets, SequencesExt

CONSTANT BlockCases  \* the inputs: see BlockInput

VARIABLES
  parceling,   \* where the stage is: the call that is next, "error" or "done"
  tract,       \* land, constraints, zones and policies of the stage
  rings,       \* pieces of each face of the road graph, in order
  fronts,      \* access and frontage of each developable block
  clipped,     \* pieces of each developable block, in order
  pending,     \* stack of fragments of the block being split, with their split path
  drafts,      \* blocks after the split: input block, split path and pieces
  splits,      \* counts of the split: attempts, cuts by strategy, uncut, deepest path
  groups,      \* members of each group of the cleanup, by the id of the group
  links,       \* shared boundary of each pair of groups that may merge
  version,     \* version of each group
  heap,        \* slivers to look at: area, first member, version and id of a group
  unresolved,  \* slivers kept for want of a neighbour
  dropped,     \* pieces of removed slivers
  events,      \* decisions of the cleanup, in order
  associated,  \* relation of each cleaned block to the zones
  parcels      \* decision for each block: parcels, or the reason to skip it, and frontage

blockVars == <<parceling, tract, rings, fronts, clipped, pending, drafts, splits, groups, links, version,
               heap, unresolved, dropped, events, associated, parcels>>

\* The policies of the split, the cleanup and the subdivision.
SplitPolicy(c) == {c.maxArea, c.maxDepth} \subseteq Nat \ {0}
CleanupPolicy(c) ==
  /\ {c.minArea, c.maxOperations} \subseteq Nat \ {0}
  /\ c.within \in BOOLEAN /\ c.unmergeable \in {"KEEP", "DROP"}
ParcelPolicy(c) ==
  {c.minParcel, c.maxParcels, c.targetFrontage, c.minFrontage} \subseteq Nat \ {0}

BlockInput(c) ==
  LET land == DOMAIN c.size IN
  /\ c.size \in [land -> Nat \ {0}]
  /\ DOMAIN c.boundary \subseteq kSubset(2, land \cup {0})
  /\ Range(c.boundary) \subseteq Nat \ {0}
  /\ Range(c.edges) \subseteq DOMAIN c.boundary
  /\ c.near \subseteq land /\ c.minBlockFrontage \in Nat
  /\ c.developable \subseteq land /\ c.excluded \subseteq land
  /\ SplitPolicy(c) /\ CleanupPolicy(c) /\ ParcelPolicy(c)
  /\ \A z \in DOMAIN c.zoneLand : c.zoneLand[z] \subseteq land
  /\ c.residential \subseteq DOMAIN c.zoneLand

ASSUME BlockAssumption == \A c \in BlockCases : BlockInput(c)

BlockInit ==
  /\ parceling = "polygonize" /\ tract \in BlockCases
  /\ rings = << >> /\ fronts = << >> /\ clipped = << >> /\ pending = << >> /\ drafts = << >>
  /\ splits = [attempts |-> 0, road |-> 0, axis |-> 0, uncut |-> 0, depth |-> 0]
  /\ groups = << >> /\ links = << >> /\ version = << >> /\ heap = {}
  /\ unresolved = {} /\ dropped = {} /\ events = << >>
  /\ associated = << >> /\ parcels = << >>

Size(s) == SumFunctionOnSet(tract.size, s)
Touching(s, t) == \E e \in DOMAIN tract.boundary : e \cap s # {} /\ e \cap t # {}
Boundary(s, t) ==
  SumFunctionOnSet(tract.boundary, {e \in DOMAIN tract.boundary : e \cap s # {} /\ e \cap t # {}})

\* The polygon of a set of pieces that piece x belongs to.
Part(s, x) ==
  LET grown[k \in 0..Cardinality(s)] ==
        LET before == grown[k - 1]
        IN  IF k = 0 THEN {x}
            ELSE before \cup {y \in s : Touching({y}, before)}
  IN  grown[Cardinality(s)]
Parts(s) == {Part(s, x) : x \in s}
InOrder(parts) == SetToSortSeq(parts, LAMBDA s, t : Min(s) < Min(t))

-----------------------------------------------------------------------------
(* RoadNetworkBlockPolygonizer, DevelopableBlockClipper and BlockFrontageValidator. *)

\* The face piece x lies in: what can be reached without crossing a road, 0 for outside.
Face(x) ==
  LET crossable == DOMAIN tract.boundary \ Range(tract.edges)
      grown[k \in 0..Cardinality(DOMAIN tract.size)] ==
        LET before == grown[k - 1]
        IN  IF k = 0 THEN {x} ELSE before \cup UNION {e \in crossable : e \cap before # {}}
  IN  grown[Cardinality(DOMAIN tract.size)]

\* One candidate block per face; a road line with one face on both sides bounds none.
Polygonize ==
  /\ parceling = "polygonize" /\ parceling' = "clip"
  /\ rings' = InOrder({f \in {Face(x) : x \in DOMAIN tract.size} : 0 \notin f})
  /\ UNCHANGED <<tract, clipped, fronts, pending, drafts, splits, groups, links, version, heap,
                 unresolved, dropped, events, associated, parcels>>

\* What the polygonizer reports of its lines, once each: the repeated ones, those that
\* bound a block and the cuts and dangles that bound none.
LineReport ==
  LET lines == Range(tract.edges)
      bounding == {e \in lines : \E k \in DOMAIN rings : Cardinality(e \cap rings[k]) = 1}
  IN  [repeated |-> Len(tract.edges) - Cardinality(lines), bounding |-> bounding,
       loose |-> lines \ bounding]

Masked(k) == rings[k] \cap tract.developable
Remains(k) == Masked(k) \ tract.excluded

\* One block per polygon of what masks and hard constraints leave of a face.
Clip ==
  /\ parceling = "clip" /\ parceling' = "frontage"
  /\ clipped' = FoldLeft(LAMBDA sofar, k : sofar \o InOrder(Parts(Remains(k))),
                         << >>, [k \in DOMAIN rings |-> k])
  /\ UNCHANGED <<tract, rings, fronts, pending, drafts, splits, groups, links, version, heap,
                 unresolved, dropped, events, associated, parcels>>

\* The counts of the clipper.
ClipReport ==
  LET count(P) == Cardinality({k \in DOMAIN rings : P[k]})
  IN  [input |-> Len(rings), output |-> Len(clipped),
       maskRemoved |-> count([k \in DOMAIN rings |-> Masked(k) = {}]),
       maskClipped |-> count([k \in DOMAIN rings |-> Masked(k) \notin {{}, rings[k]}]),
       hit |-> count([k \in DOMAIN rings |-> Masked(k) \cap tract.excluded # {}]),
       removed |-> count([k \in DOMAIN rings |-> Masked(k) # {} /\ Remains(k) = {}]),
       divided |-> count([k \in DOMAIN rings |-> Cardinality(Parts(Remains(k))) > 1])]

\* The blocks that come from face k.
From(k) == {j \in DOMAIN clipped : clipped[j] \subseteq rings[k]}

\* What the two reports agree on with the blocks: roads run between any two faces, and
\* a face without a block was removed by the mask or by constraints.
FacesAccepted ==
  \A k, l \in DOMAIN rings : k < l =>
    /\ rings[k] \cap rings[l] = {}
    /\ \A p \in rings[k], q \in rings[l] :
         {p, q} \in DOMAIN tract.boundary => {p, q} \in LineReport.bounding \ LineReport.loose
ClipAccepted ==
  LET with == {k \in DOMAIN rings : From(k) # {}} IN
  /\ ClipReport.input = Cardinality(with) + ClipReport.maskRemoved + ClipReport.removed
  /\ ClipReport.output = SumFunctionOnSet([k \in with |-> Cardinality(From(k))], with)
  /\ ClipReport.divided = Cardinality({k \in with : Cardinality(From(k)) > 1})
  /\ ClipReport.removed <= ClipReport.hit

\* Area and perimeter of a block, and their totals.
Perimeter(land) ==
  SumFunctionOnSet(tract.boundary, {e \in DOMAIN tract.boundary : Cardinality(e \cap land) = 1})
MetricsReport ==
  [blocks |-> Len(clipped),
   area |-> FoldLeft(LAMBDA n, b : n + Size(b), 0, clipped),
   perimeter |-> FoldLeft(LAMBDA n, b : n + Perimeter(b), 0, clipped)]

\* The length of block boundary that road edges run along, each line once.
Frontage(land) ==
  SumFunctionOnSet(tract.boundary,
    {e \in Range(tract.edges) : Cardinality(e \cap land) = 1})
FrontageRoads(land) ==
  {k \in DOMAIN tract.edges : Cardinality(tract.edges[k] \cap land) = 1}

\* Access and frontage of a block; the validation is a report, no block is left out for it.
FrontOf(land) ==
  LET access == land \cap tract.near # {} \/ FrontageRoads(land) # {}
      long == Frontage(land) > 0 /\ Frontage(land) >= tract.minBlockFrontage
  IN  [length |-> Frontage(land), roads |-> FrontageRoads(land), access |-> access,
       long |-> long, valid |-> access /\ long]

ValidateFrontage ==
  /\ parceling = "frontage" /\ parceling' = "split"
  /\ fronts' = [k \in DOMAIN clipped |-> FrontOf(clipped[k])]
  /\ UNCHANGED <<tract, rings, clipped, pending, drafts, splits, groups, links, version, heap,
                 unresolved, dropped, events, associated, parcels>>

\* No land is measured twice, and no more frontage is found than there is perimeter.
MetricsAccepted ==
  /\ MetricsReport.area = Size(UNION Range(clipped)) /\ MetricsReport.blocks = ClipReport.output
  /\ FoldLeft(LAMBDA n, f : n + f.length, 0, fronts) <= MetricsReport.perimeter

\* What a validated block is checked for.
FrontAccepted(f) ==
  /\ (f.roads # {}) = (f.length > 0) /\ f.long => f.length > 0
  /\ f.valid = (f.access /\ f.long) /\ f.length > 0 => f.access

-----------------------------------------------------------------------------
(* OversizedBlockSplitter. *)

Inputs == {d.input : d \in Range(drafts)}
Fragment == pending[Len(pending)]
Rest == SubSeq(pending, 1, Len(pending) - 1)

\* The next block, when no fragment of an earlier one is pending.
SplitBlock ==
  /\ parceling = "split" /\ pending = << >>
  /\ \E k \in DOMAIN clipped \ Inputs :
       /\ 1..(k - 1) \subseteq Inputs
       /\ pending' = <<[input |-> k, pieces |-> clipped[k], path |-> << >>]>>
  /\ UNCHANGED <<parceling, tract, rings, fronts, clipped, drafts, splits, groups, links,
                 version, heap, unresolved, dropped, events, associated, parcels>>

Strategies == {"road", "axis"}  \* along the longest road frontage, or the principal axis

\* The fragment is a block.
Kept == Append(drafts, [input |-> Fragment.input, path |-> Fragment.path,
                        pieces |-> Fragment.pieces])

\* A fragment that is small, deep or cannot be cut is a block.
KeepFragment ==
  /\ parceling = "split" /\ pending # << >>
  /\ LET small == Size(Fragment.pieces) <= tract.maxArea
         deep == Len(Fragment.path) >= tract.maxDepth
     IN  /\ small \/ deep \/ Cardinality(Fragment.pieces) = 1
         /\ splits' = [splits EXCEPT
              !.depth = Max({@, Len(Fragment.path)}),
              !.uncut = @ + (IF small THEN 0 ELSE 1),
              !.attempts = @ + (IF small \/ deep THEN 0 ELSE 1)]
  /\ drafts' = Kept /\ pending' = Rest
  /\ UNCHANGED <<parceling, tract, rings, fronts, clipped, groups, links, version, heap,
                 unresolved, dropped, events, associated, parcels>>

\* A cut leaves two sides, of one polygon or more each; they are pushed in reverse.
CutFragment ==
  /\ parceling = "split" /\ pending # << >>
  /\ Size(Fragment.pieces) > tract.maxArea /\ Len(Fragment.path) < tract.maxDepth
  /\ \E side \in (SUBSET Fragment.pieces) \ {{}, Fragment.pieces} :
       LET children == InOrder(Parts(side) \cup Parts(Fragment.pieces \ side))
       IN  pending' = Rest \o Reverse([i \in DOMAIN children |->
             [input |-> Fragment.input, pieces |-> children[i],
              path |-> Append(Fragment.path, i)]])
  /\ \E s \in Strategies :
       splits' = [splits EXCEPT !.depth = Max({@, Len(Fragment.path)}),
                                !.attempts = @ + 1, ![s] = @ + 1]
  /\ UNCHANGED <<parceling, tract, rings, fronts, clipped, drafts, groups, links, version,
                 heap, unresolved, dropped, events, associated, parcels>>

\* What the counts and the paths of a split agree on: the blocks left above the limit
\* are the fragments that could not be cut, the deepest path is that of a block, and
\* blocks come out in the order of their input and path, which their ids are.
SplitAccepted ==
  /\ splits.road + splits.axis <= splits.attempts
  /\ splits.attempts - (splits.road + splits.axis) <= splits.uncut
  /\ splits.uncut = Cardinality({b \in DOMAIN drafts : Size(drafts[b].pieces) > tract.maxArea})
  /\ \A b \in DOMAIN drafts : Len(drafts[b].path) <= splits.depth
  /\ \E b \in DOMAIN drafts : Len(drafts[b].path) = splits.depth
  /\ \A b, d \in DOMAIN drafts : b < d =>
       \/ drafts[b].input < drafts[d].input
       \/ /\ drafts[b].input = drafts[d].input
          /\ LET common == {i \in DOMAIN drafts[b].path \cap DOMAIN drafts[d].path :
                              drafts[b].path[i] # drafts[d].path[i]}
             IN  common # {} /\ drafts[b].path[Min(common)] < drafts[d].path[Min(common)]

-----------------------------------------------------------------------------
(* BlockSliverCleaner. *)

Land(members) == UNION {drafts[b].pieces : b \in members}
Sliver(members) == Size(Land(members)) < tract.minArea
Entry(id, members, v) ==
  [area |-> Size(Land(members)), first |-> Min(members), version |-> v, id |-> id]

Linked(b, d) ==
  /\ Touching(drafts[b].pieces, drafts[d].pieces)
  /\ tract.within => drafts[b].input = drafts[d].input

BeginCleanup ==
  /\ parceling = "split" /\ pending = << >> /\ DOMAIN clipped \subseteq Inputs
  /\ LET ids == DOMAIN drafts
         pairs == {p \in kSubset(2, ids) : Linked(Min(p), Max(p))}
     IN  /\ groups' = [b \in ids |-> {b}]
         /\ version' = [b \in ids |-> 0]
         /\ links' = [p \in pairs |-> Boundary(drafts[Min(p)].pieces, drafts[Max(p)].pieces)]
         /\ heap' = {Entry(b, {b}, 0) : b \in {b \in ids : Sliver({b})}}
  /\ parceling' = "clean"
  /\ UNCHANGED <<tract, rings, fronts, clipped, pending, drafts, splits, unresolved,
                 dropped, events, associated, parcels>>

\* The least entry of the heap.
Popped ==
  CHOOSE e \in heap : \A f \in heap \ {e} :
    \/ e.area < f.area
    \/ e.area = f.area /\ e.first < f.first
    \/ e.area = f.area /\ e.first = f.first /\ e.version < f.version

Live(e) ==
  /\ e.id \in DOMAIN groups /\ version[e.id] = e.version
  /\ e.id \notin unresolved /\ Sliver(groups[e.id])

\* The entry of a group that merged, grew or was given up.
DropStale ==
  /\ parceling = "clean" /\ heap # {} /\ ~Live(Popped)
  /\ heap' = heap \ {Popped}
  /\ UNCHANGED <<parceling, tract, rings, fronts, clipped, pending, drafts, splits, groups,
                 links, version, unresolved, dropped, events, associated, parcels>>

Mergeable(s) == {t \in DOMAIN groups \ {s} : {s, t} \in DOMAIN links}

\* Along the longest boundary, then into the largest group, then the first.
Target(s) ==
  CHOOSE t \in Mergeable(s) : \A u \in Mergeable(s) \ {t} :
    LET area(x) == Size(Land(groups[x]))
    IN  \/ links[{s, t}] > links[{s, u}]
        \/ links[{s, t}] = links[{s, u}] /\ area(t) > area(u)
        \/ /\ links[{s, t}] = links[{s, u}] /\ area(t) = area(u)
           /\ Min(groups[t]) < Min(groups[u])

\* Mutant: the boundary of the source replaces the one the target had.
ContractOverwriting(s, t) ==
  LET kept == {p \in DOMAIN links : s \notin p}
      moved == {(p \ {s}) \cup {t} : p \in {p \in DOMAIN links : s \in p /\ t \notin p}}
  IN  [p \in kept \cup moved |->
         IF p \in moved THEN links[(p \ {t}) \cup {s}] ELSE links[p]]

\* The boundaries of group s go to group t, in addition to those it has.
Contract(s, t) ==
  LET kept == {p \in DOMAIN links : s \notin p}
      moved == {(p \ {s}) \cup {t} : p \in {p \in DOMAIN links : s \in p /\ t \notin p}}
  IN  [p \in kept \cup moved |->
         (IF p \in kept THEN links[p] ELSE 0)
         + (IF p \in moved THEN links[(p \ {t}) \cup {s}] ELSE 0)]

\* What a decision about group s records.
Event(action, s, target, shared) ==
  [action |-> action, source |-> groups[s], target |-> target,
   area |-> Size(Land(groups[s])), shared |-> shared]

CleanSliver ==
  /\ parceling = "clean" /\ heap # {} /\ Live(Popped)
  /\ Len(events) < tract.maxOperations
  /\ LET s == Popped.id
         others == DOMAIN groups \ {s}
     IN  \/ /\ Mergeable(s) # {}
            /\ LET t == Target(s)
                   members == groups[s] \cup groups[t]
               IN  /\ groups' = [g \in others |-> IF g = t THEN members ELSE groups[g]]
                   /\ version' = [g \in others |-> version[g] + (IF g = t THEN 1 ELSE 0)]
                   /\ links' = Contract(s, t)
                   /\ heap' = (heap \ {Popped}) \cup
                        (IF Sliver(members) THEN {Entry(t, members, version[t] + 1)} ELSE {})
                   /\ unresolved' = unresolved \ {t}
                   /\ events' = Append(events, Event("MERGED", s, groups[t], links[{s, t}]))
                   /\ UNCHANGED dropped
         \/ /\ Mergeable(s) = {} /\ tract.unmergeable = "DROP"
            /\ groups' = Restrict(groups, others) /\ version' = Restrict(version, others)
            /\ links' = Restrict(links, {p \in DOMAIN links : s \notin p})
            /\ heap' = heap \ {Popped}
            /\ dropped' = dropped \cup Land(groups[s])
            /\ events' = Append(events, Event("DROPPED", s, {}, 0))
            /\ UNCHANGED unresolved
         \/ /\ Mergeable(s) = {} /\ tract.unmergeable = "KEEP"
            /\ unresolved' = unresolved \cup {s} /\ heap' = heap \ {Popped}
            /\ events' = Append(events, Event("KEPT_UNRESOLVED", s, {}, 0))
            /\ UNCHANGED <<groups, links, version, dropped>>
  /\ UNCHANGED <<parceling, tract, rings, fronts, clipped, pending, drafts, splits,
                 associated, parcels>>

CleanupLimit ==
  /\ parceling = "clean" /\ heap # {} /\ Live(Popped)
  /\ Len(events) = tract.maxOperations
  /\ parceling' = "error"
  /\ UNCHANGED <<tract, rings, fronts, clipped, pending, drafts, splits, groups, links,
                 version, heap, unresolved, dropped, events, associated, parcels>>

\* What an event of the cleanup and a cleaned block are checked for.
EventAccepted(e) ==
  /\ e.source # {} /\ e.area > 0
  /\ IF e.action = "MERGED" THEN e.target # {} /\ e.shared > 0
     ELSE e.target = {} /\ e.shared = 0
MembersAccepted(members) == members # {} /\ members \subseteq DOMAIN drafts

\* The counts and areas the cleanup reports.
CleanupReport ==
  LET area(action) == FoldLeft(LAMBDA n, e : IF e.action = action THEN n + e.area ELSE n,
                               0, events)
      count(action) == Cardinality({k \in DOMAIN events : events[k].action = action})
  IN  [blocks |-> Len(drafts), slivers |-> Cardinality({b \in DOMAIN drafts : Sliver({b})}),
       output |-> Cardinality(DOMAIN groups), merged |-> count("MERGED"),
       dropped |-> count("DROPPED"), kept |-> count("KEPT_UNRESOLVED"),
       inputArea |-> Size(Land(DOMAIN drafts)),
       outputArea |-> MapThenSumSet(LAMBDA g : Size(Land(groups[g])), DOMAIN groups),
       droppedArea |-> area("DROPPED")]

\* What the report is checked for, and what its counts say of the groups: each merge
\* and each removal takes one group away, and the areas add up.
ReportAccepted(r) ==
  /\ r.slivers <= r.blocks /\ r.merged + r.dropped + r.kept = Len(events)
  /\ r.inputArea = r.outputArea + r.droppedArea
  /\ r.blocks = r.output + r.merged + r.dropped
  /\ r.kept >= Cardinality(unresolved)

-----------------------------------------------------------------------------
(* BlockZoneAssociator and SimplifiedParcelSubdivider. *)

\* Cleaned blocks in the order of their members.
Cleaned == InOrder(Range(groups))

\* The relation of a block to the zones: a zone only when it covers the block and no
\* other overlaps it.
Association(land) ==
  LET over == {z \in DOMAIN tract.zoneLand : land \cap tract.zoneLand[z] # {}}
      full == {z \in over : land \subseteq tract.zoneLand[z]}
      alone == full # {} /\ Cardinality(over) = 1
  IN  [status |-> CASE over = {} -> "NO_OVERLAP"
                    [] alone -> "ASSOCIATED"
                    [] full # {} /\ ~alone -> "AMBIGUOUS_FULL_COVERAGE"
                    [] over # {} /\ full = {} -> "PARTIAL_OVERLAP",
       zone |-> IF alone THEN CHOOSE z \in full : TRUE ELSE 0, over |-> over]

Associate ==
  /\ parceling = "clean" /\ heap = {}
  /\ associated' = [k \in DOMAIN Cleaned |-> Association(Land(Cleaned[k]))]
  /\ parceling' = "subdivide"
  /\ UNCHANGED <<tract, rings, fronts, clipped, pending, drafts, splits, groups, links,
                 version, heap, unresolved, dropped, events, parcels>>

\* What an association is checked for.
AssociationAccepted(a) ==
  /\ a.status = "ASSOCIATED" => a.over = {a.zone}
  /\ a.status # "ASSOCIATED" => a.zone = 0
  /\ (a.status = "NO_OVERLAP") = (a.over = {})

\* Lots on a block of this area along a frontage of this length.
ParcelCount(area, length) ==
  Min({Max({1, length \div tract.targetFrontage}), Max({1, length \div tract.minFrontage}),
       Max({1, area \div tract.minParcel}), tract.maxParcels})

Skip(reason, length) == [lots |-> 0, reason |-> reason, frontage |-> length]

\* Equal lots along the dominant frontage; the cut can fail the whole block, or leave a
\* lot that is too small or has no frontage, which fails the whole block too.
AlongFrontage(area, length) ==
  LET lots == ParcelCount(area, length)
      failures == IF lots > 1
                  THEN {"SUBDIVISION_FAILED", "FRAGMENT_TOO_SMALL", "FRAGMENT_WITHOUT_FRONTAGE"}
                  ELSE {}
  IN  CASE length = 0 -> {Skip("NO_FRONTAGE", 0)}
        [] length \in 1..(tract.minFrontage - 1) -> {Skip("INSUFFICIENT_FRONTAGE", length)}
        [] length >= tract.minFrontage ->
             {[lots |-> lots, reason |-> "", frontage |-> length]}
             \cup {Skip(r, length) : r \in failures \cup {"NONLINEAR_FRONTAGE"}}

\* The lengths the longest single frontage of a block can have.
Dominant(land) == IF Frontage(land) = 0 THEN {0} ELSE 1..Frontage(land)

\* The decisions block k can get; whether it has a hole is up to its geometry.
Decisions(k) ==
  LET area == Size(Land(Cleaned[k]))
  IN  CASE associated[k].status # "ASSOCIATED" -> {Skip("UNASSOCIATED_ZONE", 0)}
        [] associated[k].zone \notin tract.residential \cup {0} -> {Skip("NON_RESIDENTIAL", 0)}
        [] associated[k].zone \in tract.residential ->
             {Skip("HOLED_BLOCK", 0)} \cup
             (IF area < tract.minParcel THEN {Skip("BLOCK_TOO_SMALL", 0)}
              ELSE UNION {AlongFrontage(area, l) : l \in Dominant(Land(Cleaned[k]))})

Subdivide ==
  /\ parceling = "subdivide"
  /\ LET k == Len(parcels) + 1
     IN  IF k \in DOMAIN associated
         THEN /\ \E d \in Decisions(k) : parcels' = Append(parcels, d)
              /\ UNCHANGED parceling
         ELSE parceling' = "done" /\ UNCHANGED parcels
  /\ UNCHANGED <<tract, rings, fronts, clipped, pending, drafts, splits, groups, links,
                 version, heap, unresolved, dropped, events, associated>>

\* A decision gives lots with enough frontage for each, or a reason.
DecisionAccepted(d) ==
  IF d.reason = ""
  THEN d.lots > 0 /\ d.frontage > 0 /\ d.lots * tract.minFrontage <= d.frontage
  ELSE d.lots = 0

\* The ids of the parcels of block k: parcels are numbered by block and position.
ParcelIds(k) ==
  LET before == FoldLeft(LAMBDA n, d : n + d.lots, 0, SubSeq(parcels, 1, k - 1))
  IN  (before + 1)..(before + parcels[k].lots)

\* What the result of the subdivision is checked for.
ParcelsAccepted ==
  LET blocks == DOMAIN parcels
      parceled == {k \in blocks : parcels[k].reason = ""}
      skipped == {k \in blocks : parcels[k].reason # ""}
      single == {k \in blocks : Cardinality(ParcelIds(k)) = 1}
      many == {k \in blocks : Cardinality(ParcelIds(k)) > 1}
      zoned == {k \in blocks : associated[k].zone \in tract.residential}
      ids == UNION {ParcelIds(k) : k \in blocks}
  IN  /\ blocks = DOMAIN associated
      /\ Cardinality(parceled) + Cardinality(skipped) = Cardinality(blocks)
      /\ many \cup single = parceled /\ parceled \subseteq zoned
      /\ ids = 1..FoldLeft(LAMBDA n, d : n + d.lots, 0, parcels)
      /\ \A k \in parceled :
           parcels[k].lots * tract.minParcel <= Size(Land(Cleaned[k])) \/ k \in single
      /\ \A k \in blocks : DecisionAccepted(parcels[k])

BlockNext ==
  \/ Polygonize \/ Clip \/ ValidateFrontage \/ SplitBlock \/ KeepFragment \/ CutFragment \/ BeginCleanup
  \/ DropStale \/ CleanSliver \/ CleanupLimit \/ Associate \/ Subdivide

-----------------------------------------------------------------------------
(* Properties. *)

\* Through all merges the recorded boundaries are those of the merged polygons, no
\* developable land is lost or counted twice, and a sliver that is left when the
\* cleanup ends has no neighbour it was allowed to join: no stale entry of the heap
\* hides one (docs/BLOCK_SLIVER_CLEANUP.md). What the splitter, the cleaner and the
\* subdivider report passes the checks of their results, so none of them rejects its
\* own work.
SliversSettle ==
  parceling \in {"clean", "subdivide"} =>
    /\ \A g, h \in DOMAIN groups : g < h =>
         LET shared == Boundary(Land(groups[g]), Land(groups[h]))
             same == \A b \in groups[g], d \in groups[h] : drafts[b].input = drafts[d].input
         IN  IF {g, h} \in DOMAIN links THEN links[{g, h}] = shared
             ELSE shared = 0 \/ (tract.within /\ ~same)
    /\ LET land == UNION {Land(groups[g]) : g \in DOMAIN groups}
       IN  /\ land \cup dropped = UNION Range(clipped)
           /\ Size(land) = MapThenSumSet(LAMBDA g : Size(Land(groups[g])), DOMAIN groups)
           /\ Size(land) + Size(dropped) = Size(UNION Range(clipped))
    /\ FacesAccepted /\ ClipAccepted /\ MetricsAccepted
    /\ \A k \in DOMAIN fronts : FrontAccepted(fronts[k])
    /\ \A k \in DOMAIN associated : AssociationAccepted(associated[k])
    /\ SplitAccepted /\ ReportAccepted(CleanupReport)
    /\ \A k \in DOMAIN events : EventAccepted(events[k])
    /\ \A g \in DOMAIN groups : MembersAccepted(groups[g])
    /\ parceling = "subdivide" =>
         \A g \in DOMAIN groups : Sliver(groups[g]) => Mergeable(g) = {}
    /\ parceling = "subdivide" /\ Len(parcels) = Len(associated) => ParcelsAccepted
=============================================================================

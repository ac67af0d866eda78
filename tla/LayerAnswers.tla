---------------------------- MODULE LayerAnswers ----------------------------
(***************************************************************************)
(* What the read endpoints answer about the generated rows of a run. A     *)
(* viewport of the panels asks the database for one feature more than its  *)
(* limit, in the order of the ids, and says "truncated" when it gets it.   *)
(* The generic vector layers do the same page by page, each page from the  *)
(* last id of the page before. The rectangle asked for contains everything; *)
(* a smaller one only makes the sets smaller. Features are known by their   *)
(* ids, numbers here.                                                      *)
(***************************************************************************)
EXTENDS GeneratedEntities

CONSTANTS ExistingFacilities,  \* source facilities of the versions linked to the run
          MaxLimit             \* the largest limit asked for

ASSUME LayersAssumption ==
  /\ ZoneKeys \cup RoadKeys \cup BlockKeys \cup ParcelKeys \cup BuildingKeys \subseteq Nat \ {0}
  /\ FacilityTypes \cup CandidateIds \cup ExistingFacilities \subseteq Nat \ {0}
  /\ \A ids \in {ZoneKeys, RoadKeys, BlockKeys, ParcelKeys, BuildingKeys, FacilityTypes,
                  CandidateIds, ExistingFacilities} : IsFiniteSet(ids)
  /\ \A c \in CandidateIds : c < 10
  /\ MaxLimit \in Nat \ {0}

\* ORDER BY id LIMIT n
First(ids, n) == {x \in ids : Cardinality({y \in ids : y < x}) < n}

\* uuid5 of the type and the candidate.
FacilityId(f) == 10 * f[1] + f[2]
GeneratedFacilities == {FacilityId(f) : f \in DOMAIN facilities}
WithPayload(field) == {b \in DOMAIN blocks : blocks[b][field] # Null}

\* Mutant: as many are asked for as are shown.
AskedExactly(limit) == limit

\* One more than is shown, to know whether there are more.
Asked(limit) == limit + 1

Answer(found, limit, shown) == [features |-> shown, truncated |-> Cardinality(found) > limit]

-----------------------------------------------------------------------------
(* The viewports of the panels *)

ListZones(n) == First(DOMAIN zones, n)
ZonesView(limit) ==
  LET found == ListZones(Asked(limit)) IN Answer(found, limit, First(found, limit))

ListRoads(n) == First(roads, n)
RoadsView(limit) ==
  LET found == ListRoads(Asked(limit)) IN Answer(found, limit, First(found, limit))

ListBlocks(n) == First(DOMAIN blocks, n)
ListParcels(n) == First(DOMAIN parcels, n)
BlockParcelView(kind, limit) ==
  LET found == IF kind = "blocks" THEN ListBlocks(Asked(limit)) ELSE ListParcels(Asked(limit))
  IN  Answer(found, limit, First(found, limit))

ListBuildings(n) == First(DOMAIN buildings, n)
BuildingsView(limit) ==
  LET found == ListBuildings(Asked(limit)) IN Answer(found, limit, First(found, limit))

\* A run without totals is answered as not found.
DemographyPublished == metrics.demography # Null
ListDemography(n) == First(WithPayload("demography"), n)
DemographyView(limit) ==
  LET found == ListDemography(Asked(limit)) IN Answer(found, limit, First(found, limit))

\* The blocks are cut to the limit first, then those without a payload are dropped.
ReadModelExists == metrics.infrastructure # Null
ListDemand(n) == First(DOMAIN blocks, n) \cap WithPayload("infrastructure")
DemandView(limit) ==
  LET found == ListDemand(Asked(limit)) IN Answer(found, limit, First(found, limit))

\* Two statements, each cut to the limit; the existing facilities come first.
ListExisting(n) == First(ExistingFacilities, n)
ListGenerated(n) == First(GeneratedFacilities, n)
ListFacilities(n) ==
  LET existing == ListExisting(n)
      generated == ListGenerated(n)
  IN  [existing |-> existing, generated |-> First(generated, n - Cardinality(existing))]
FacilitiesView(limit) ==
  LET found == ListFacilities(Asked(limit))
      existing == First(found.existing, limit)
  IN  [existing |-> existing,
       generated |-> First(found.generated, limit - Cardinality(existing)),
       truncated |-> Cardinality(found.existing) + Cardinality(found.generated) > limit]

-----------------------------------------------------------------------------
(* The generic vector layers *)

VectorLayers == {"zones", "roads", "blocks", "parcels", "buildings", "demography",
                 "existing", "facilities", "demand"}

\* get_context: the two derived layers wait for their totals.
Published(layer) ==
  /\ layer = "demography" => DemographyPublished
  /\ layer = "demand" => ReadModelExists

\* The table of a layer, the payload tested in the query.
LayerRows(layer) ==
  CASE layer = "zones" -> DOMAIN zones
    [] layer = "roads" -> roads
    [] layer = "blocks" -> DOMAIN blocks
    [] layer = "parcels" -> DOMAIN parcels
    [] layer = "buildings" -> DOMAIN buildings
    [] layer = "demography" -> WithPayload("demography")
    [] layer = "existing" -> ExistingFacilities
    [] layer = "facilities" -> GeneratedFacilities
    [] layer = "demand" -> WithPayload("infrastructure")

ListFeatures(layer, after, n) == First({x \in LayerRows(layer) : x > after}, n)

VectorPage(layer, after, limit) ==
  LET found == ListFeatures(layer, after, Asked(limit))
  IN  Answer(found, limit, First(found, limit))

Greatest(ids) == CHOOSE x \in ids : \A y \in ids : y <= x

\* next_after of a truncated page leads to the next one; the pages in order.
Pages(layer, limit) ==
  LET following[after \in {0} \cup LayerRows(layer)] ==
        LET page == VectorPage(layer, after, limit)
        IN  <<page.features>> \o
            (IF page.truncated THEN following[Greatest(page.features)] ELSE << >>)
  IN  following[0]

-----------------------------------------------------------------------------
Whole(view, layer) == ~view.truncated => view.features = LayerRows(layer)

\* An answer that is not marked truncated holds every feature of its layer, also of
\* the demand, whose rows are dropped after the limit; and the pages of a layer hold
\* every feature of it once.
AnswersWhole ==
  /\ \A limit \in 1..MaxLimit :
       /\ Whole(ZonesView(limit), "zones") /\ Whole(RoadsView(limit), "roads")
       /\ Whole(BlockParcelView("blocks", limit), "blocks")
       /\ Whole(BlockParcelView("parcels", limit), "parcels")
       /\ Whole(BuildingsView(limit), "buildings")
       /\ DemographyPublished => Whole(DemographyView(limit), "demography")
       /\ ReadModelExists => Whole(DemandView(limit), "demand")
       /\ LET view == FacilitiesView(limit)
          IN  ~view.truncated => /\ view.existing = ExistingFacilities
                                 /\ view.generated = GeneratedFacilities
  /\ \A layer \in VectorLayers, limit \in 1..MaxLimit :
       Published(layer) =>
         LET pages == Pages(layer, limit)
         IN  \A x \in LayerRows(layer) :
               Cardinality({i \in DOMAIN pages : x \in pages[i]}) = 1
=============================================================================

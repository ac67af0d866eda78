-------------------------- MODULE GeneratedEntities --------------------------
(***************************************************************************)
(* The generated rows of one run and what is kept about them in its         *)
(* metrics: the seven writers, each one transaction that locks the run,     *)
(* refuses a succeeded one, compares the results it was given with the rows *)
(* that are there, and replaces what it wrote before. The foreign keys of   *)
(* the rows act when the rows they name are replaced.                       *)
(***************************************************************************)
EXTENDS FiniteSets, Naturals, Sequences, Functions

CONSTANTS ZoneKeys, ZoneClasses, RoadKeys, BlockKeys, ParcelKeys, BuildingKeys,
          CandidateIds, FacilityTypes,
          Results,  \* the results the demography and the read model are written from
          Null

ASSUME KeysAssumption ==
  /\ BlockKeys \cap ParcelKeys = {}
  /\ Null \notin ZoneKeys \cup ZoneClasses \cup ParcelKeys \cup BuildingKeys \cup Results

VARIABLES
  runStatus,   \* generation_runs.status: "succeeded", or "open" for every other one
  zones,       \* zone id -> class
  roads,       \* ids of the generated edges
  blocks,      \* block key -> zone, class and payloads
  parcels,     \* parcel key -> block and zone
  buildings,   \* building key -> block and parcel
  facilities,  \* <<type, candidate>> -> host building and accessibility
  metrics      \* metrics_json: whose totals it holds

entityVars == <<runStatus, zones, roads, blocks, parcels, buildings, facilities, metrics>>

BlockRow == [zone : ZoneKeys \cup {Null}, class : ZoneClasses \cup {Null},
             demography : Results \cup {Null}, infrastructure : Results \cup {Null}]
ParcelRow == [block : BlockKeys, zone : ZoneKeys \cup {Null}]
BuildingRow == [block : BlockKeys, parcel : ParcelKeys \cup {Null}]
FacilityRow == [host : BuildingKeys \cup {Null}, access : Results \cup {Null}]
FacilityKeys == FacilityTypes \X CandidateIds

Partial(S, T) == UNION {[D -> T] : D \in SUBSET S}

EntitiesTypeOK ==
  /\ runStatus \in {"open", "succeeded"}
  /\ zones \in Partial(ZoneKeys, ZoneClasses)
  /\ roads \subseteq RoadKeys
  /\ DOMAIN blocks \subseteq BlockKeys /\ \A b \in DOMAIN blocks : blocks[b] \in BlockRow
  /\ DOMAIN parcels \subseteq ParcelKeys /\ \A p \in DOMAIN parcels : parcels[p] \in ParcelRow
  /\ DOMAIN buildings \subseteq BuildingKeys
  /\ \A h \in DOMAIN buildings : buildings[h] \in BuildingRow
  /\ DOMAIN facilities \subseteq FacilityKeys
  /\ \A f \in DOMAIN facilities : facilities[f] \in FacilityRow
  /\ metrics \in [demography : Results \cup {Null}, infrastructure : Results \cup {Null}]

EntitiesInit ==
  /\ runStatus = "open"
  /\ zones = << >> /\ roads = {} /\ blocks = << >> /\ parcels = << >>
  /\ buildings = << >> /\ facilities = << >>
  /\ metrics = [demography |-> Null, infrastructure |-> Null]

\* Each writer, and the trigger guard_generated_entity_row behind it.
Writable == runStatus # "succeeded"

-----------------------------------------------------------------------------
(* Zones and roads *)

\* ON DELETE SET NULL of the zone columns: every zone is deleted.
Unzoned(table) == [k \in DOMAIN table |-> [table[k] EXCEPT !.zone = Null]]

WriteZones(partition) ==
  /\ Writable
  /\ zones' = partition
  /\ blocks' = Unzoned(blocks) /\ parcels' = Unzoned(parcels)
  /\ UNCHANGED <<runStatus, roads, buildings, facilities, metrics>>

\* Edges of the graph that are not of the source, each of a generated class.
WriteRoads(edges, classified) ==
  /\ Writable
  /\ edges \subseteq classified
  /\ roads' = edges
  /\ UNCHANGED <<runStatus, zones, blocks, parcels, buildings, facilities, metrics>>

-----------------------------------------------------------------------------
(* Blocks, parcels and buildings *)

\* A parcel keeps the zone of its block.
Aligned(association, subdivision) ==
  \A p \in DOMAIN subdivision :
    /\ subdivision[p].block \in DOMAIN association
    /\ subdivision[p].zone = association[subdivision[p].block].zone

\* Mutant: the class of the zone is not compared.
ZonesNamed(association) ==
  \A b \in DOMAIN association :
    association[b].zone # Null => association[b].zone \in DOMAIN zones

\* The zones the blocks were associated with are there, with the class they had.
ZonesPersisted(association) ==
  \A b \in DOMAIN association :
    association[b].zone # Null =>
      /\ association[b].zone \in DOMAIN zones
      /\ zones[association[b].zone] = association[b].class

\* ON DELETE RESTRICT: a building that hosts a facility cannot be deleted, nor
\* the block or parcel whose deletion would delete it.
NoneHosts == \A f \in DOMAIN facilities : facilities[f].host = Null

\* Every parcel and block is deleted, and by CASCADE every building.
WriteBlocks(association, subdivision) ==
  /\ Writable
  /\ Aligned(association, subdivision)
  /\ ZonesPersisted(association)
  /\ NoneHosts
  /\ blocks' = [b \in DOMAIN association |->
                 [zone |-> association[b].zone, class |-> association[b].class,
                  demography |-> Null, infrastructure |-> Null]]
  /\ parcels' = subdivision
  /\ buildings' = << >>
  /\ UNCHANGED <<runStatus, zones, roads, facilities, metrics>>

\* A building names its source, a parcel or a block, by key.
Resolved(source) ==
  IF source \in DOMAIN parcels
  THEN [block |-> parcels[source].block, parcel |-> source]
  ELSE [block |-> source, parcel |-> Null]

WriteBuildings(sourceOf) ==
  /\ Writable
  /\ Range(sourceOf) \subseteq DOMAIN parcels \cup DOMAIN blocks
  /\ NoneHosts
  /\ buildings' = [h \in DOMAIN sourceOf |-> Resolved(sourceOf[h])]
  /\ UNCHANGED <<runStatus, zones, roads, blocks, parcels, facilities, metrics>>

-----------------------------------------------------------------------------
(* Demography *)

\* Mutant: the aggregation may leave blocks out.
SameBlocksLoose(S) == S \subseteq DOMAIN blocks

\* The result is about the blocks that are there, all of them and no others.
SameBlocks(S) == S = DOMAIN blocks

\* A block without a zone, or whose zone is gone, is compared by what it has left.
DemographyFits(areas) ==
  \A b \in DOMAIN areas :
    /\ blocks[b].class # Null => blocks[b].class = areas[b].class
    /\ blocks[b].zone # Null => blocks[b].zone = areas[b].zone

WriteDemography(result, areas) ==
  /\ Writable
  /\ SameBlocks(DOMAIN areas)
  /\ DemographyFits(areas)
  /\ blocks' = [b \in DOMAIN blocks |->
                 IF b \in DOMAIN areas
                 THEN [blocks[b] EXCEPT !.demography = result] ELSE blocks[b]]
  /\ metrics' = [metrics EXCEPT !.demography = result]
  /\ UNCHANGED <<runStatus, zones, roads, parcels, buildings, facilities>>

-----------------------------------------------------------------------------
(* Infrastructure *)

\* The rows of one type; an accepted candidate has a site or a host building.
WriteFacilities(type, hostOf) ==
  /\ Writable
  /\ Range(hostOf) \subseteq DOMAIN buildings \cup {Null}
  /\ LET others == {f \in DOMAIN facilities : f[1] # type}
     IN  facilities' = [f \in others \cup ({type} \X DOMAIN hostOf) |->
                          IF f \in others THEN facilities[f]
                          ELSE [host |-> hostOf[f[2]], access |-> Null]]
  /\ UNCHANGED <<runStatus, zones, roads, blocks, parcels, buildings, metrics>>

WriteReadModel(result, demanding, accepted) ==
  /\ Writable
  /\ SameBlocks(demanding)
  /\ accepted = DOMAIN facilities
  /\ blocks' = [b \in DOMAIN blocks |->
                 IF b \in demanding
                 THEN [blocks[b] EXCEPT !.infrastructure = result] ELSE blocks[b]]
  /\ facilities' = [f \in DOMAIN facilities |-> [facilities[f] EXCEPT !.access = result]]
  /\ metrics' = [metrics EXCEPT !.infrastructure = result]
  /\ UNCHANGED <<runStatus, zones, roads, parcels, buildings>>

-----------------------------------------------------------------------------
\* The executor of the run, in GenerationLifecycle: the run succeeds.
FinishRun ==
  /\ runStatus = "open"
  /\ runStatus' = "succeeded"
  /\ UNCHANGED <<zones, roads, blocks, parcels, buildings, facilities, metrics>>

\* A block is associated with a zone and its class, or with neither.
Associations ==
  [zone : ZoneKeys, class : ZoneClasses] \cup {[zone |-> Null, class |-> Null]}

EntitiesNext ==
  \/ \E partition \in Partial(ZoneKeys, ZoneClasses) : WriteZones(partition)
  \/ \E edges, classified \in SUBSET RoadKeys : WriteRoads(edges, classified)
  \/ \E association \in Partial(BlockKeys, Associations),
        subdivision \in Partial(ParcelKeys, ParcelRow) :
       WriteBlocks(association, subdivision)
  \/ \E sourceOf \in Partial(BuildingKeys, BlockKeys \cup ParcelKeys) :
       WriteBuildings(sourceOf)
  \/ \E result \in Results,
        areas \in Partial(BlockKeys, [zone : ZoneKeys, class : ZoneClasses]) :
       WriteDemography(result, areas)
  \/ \E type \in FacilityTypes, hostOf \in Partial(CandidateIds, BuildingKeys \cup {Null}) :
       WriteFacilities(type, hostOf)
  \/ \E result \in Results, demanding \in SUBSET BlockKeys,
        accepted \in SUBSET FacilityKeys :
       WriteReadModel(result, demanding, accepted)
  \/ FinishRun

EntitiesSpec == EntitiesInit /\ [][EntitiesNext]_entityVars

-----------------------------------------------------------------------------
\* What a row says of another row is true, in whatever order the writers ran: a
\* block that has a zone has one of its class; a parcel has the zone of its block;
\* a building on a parcel is on the parcel's block; a host building is there.
ReferencesTrue ==
  /\ \A b \in DOMAIN blocks :
       blocks[b].zone # Null =>
         blocks[b].zone \in DOMAIN zones /\ zones[blocks[b].zone] = blocks[b].class
  /\ \A p \in DOMAIN parcels :
       /\ parcels[p].block \in DOMAIN blocks
       /\ parcels[p].zone = blocks[parcels[p].block].zone
  /\ \A h \in DOMAIN buildings :
       /\ buildings[h].block \in DOMAIN blocks
       /\ buildings[h].parcel # Null =>
            /\ buildings[h].parcel \in DOMAIN parcels
            /\ parcels[buildings[h].parcel].block = buildings[h].block
  /\ \A f \in DOMAIN facilities :
       facilities[f].host # Null => facilities[f].host \in DOMAIN buildings

\* The payloads of the blocks are of the result whose totals the run shows, and
\* all blocks have one or none has; a facility has the accessibility of that
\* result or none.
PayloadsAgree ==
  /\ \A field \in {"demography", "infrastructure"} :
       \/ \A b \in DOMAIN blocks : blocks[b][field] = metrics[field]
       \/ \A b \in DOMAIN blocks : blocks[b][field] = Null
  /\ \A f \in DOMAIN facilities : facilities[f].access \in {Null, metrics.infrastructure}
=============================================================================

---------------------------- MODULE ServingProofs ----------------------------
(***************************************************************************)
(* What a user reads and downloads is true: the runs panel that has        *)
(* stopped polling, the rows and payloads the seven writers leave, the     *)
(* answers made of them, the tiles served as immutable, the layers and     *)
(* comparisons of a workspace, and the file of an export, for every set of *)
(* keys, runs, reference systems, threads and attempts, over both stores.  *)
(***************************************************************************)
EXTENDS Workspace, RunPolling, LayerAnswers, PublishedTiles, ExportJob,
  WellFoundedInduction, FiniteSetTheorems, SequenceTheorems, TLAPS


-----------------------------------------------------------------------------
(* The runs panel. *)

Calm == request = Idle /\ ~actionError

PollTyped ==
  /\ failures \in Nat
  /\ request \in [kind : {"none", "create", "cancel", "retry"}, run : RunIds \cup {0},
                  done : BOOLEAN]

\* Why the quiet panel is right: an answer under way without an active run is already
\* what the rows are, since nobody but the panel itself can start them again.
PollInv ==
  /\ PollTyped
  /\ poll = "answer" /\ Active(snapshot) = {} /\ Calm => snapshot = rows
  /\ QuietMeansCurrent

LEMMA PollTypedStep == PollTyped /\ [PollNext]_pollVars => PollTyped'
<1> SUFFICES ASSUME PollTyped, [PollNext]_pollVars PROVE PollTyped'
  OBVIOUS
<1> USE DEF PollTyped, Idle
<1>1. CASE UNCHANGED <<failures, request>>
  BY <1>1
<1>2. CASE ListArrives \/ PollFails \/ RefreshList
  <2>1. request' = request
    BY <1>2 DEF ListArrives, PollFails, RefreshList
  <2>2. failures' \in {0, failures + 1}
    BY <1>2 DEF ListArrives, PollFails, RefreshList, RestartPoll
  <2> QED BY <2>1, <2>2
<1>3. ASSUME NEW kind \in {"create", "cancel", "retry"}, NEW run \in RunIds \cup {0},
             Send(kind, run)
      PROVE PollTyped'
  BY <1>3 DEF Send
<1>4. CASE ServeAction
  BY <1>4 DEF ServeAction, Handled
<1>5. CASE ActionSucceeds \/ ActionFails
  <2>1. request' = Idle /\ failures' \in {0, failures}
    BY <1>5 DEF ActionSucceeds, ActionFails, RestartPoll
  <2> QED BY <2>1
<1> QED
  BY <1>1, <1>2, <1>3, <1>4, <1>5
     DEF PollNext, pollVars, WorkerClaims, WorkerEnds, ServeList, Tick, SendCreate, SendCancel,
         SendRetry

LEMMA PollInvStep == PollInv /\ [PollNext]_pollVars => PollInv'
<1> SUFFICES ASSUME PollInv, [PollNext]_pollVars PROVE PollInv'
  OBVIOUS
<1>t. PollTyped'
  BY PollTypedStep DEF PollInv
<1> USE <1>t DEF PollInv, QuietMeansCurrent
<1>1. CASE UNCHANGED pollVars
  BY <1>1 DEF pollVars, Calm, Active
<1>2. ASSUME NEW r \in RunIds, NEW status,
             WorkerClaims(r) \/ WorkerEnds(r, status)
      PROVE PollInv'
  <2>1. r \in Active(rows)
    BY <1>2 DEF WorkerClaims, WorkerEnds, Active
  <2>2. UNCHANGED <<listed, poll, snapshot, failures, request, actionError>>
    BY <1>2 DEF WorkerClaims, WorkerEnds
  <2>3. ~(poll = "answer" /\ Active(snapshot) = {} /\ Calm)
    BY <2>1
  <2>4. ~(poll = "stopped" /\ failures = 0 /\ Calm)
    BY <2>1 DEF Calm
  <2> QED BY <2>2, <2>3, <2>4 DEF Calm, Active
<1>3. CASE ServeList
  BY <1>3 DEF ServeList, Calm, Active
<1>4. CASE ListArrives
  <2>1. /\ listed' = snapshot /\ UNCHANGED <<rows, request, actionError>>
        /\ poll' = "timer" \/ (poll' = "stopped" /\ Active(snapshot) = {})
    BY <1>4, RunPollingAssumption DEF ListArrives, PollsAgain, serverVars
  <2> QED BY <1>4, <2>1 DEF ListArrives, Calm, Active
<1>5. CASE PollFails
  <2>1. poll' \in {"timer", "stopped"} /\ failures' # 0
    BY <1>5 DEF PollFails, PollTyped
  <2> QED BY <2>1
<1>6. CASE Tick
  BY <1>6 DEF Tick
<1>7. CASE RefreshList \/ ActionSucceeds
  BY <1>7 DEF RefreshList, ActionSucceeds, RestartPoll
<1>8. ASSUME NEW kind \in {"create", "cancel", "retry"}, NEW run, Send(kind, run)
      PROVE PollInv'
  <2>1. ~Calm'
    BY <1>8 DEF Send, Calm, Idle
  <2> QED BY <2>1 DEF Calm
<1>9. CASE ServeAction
  <2>1. ~Calm'
    BY <1>9 DEF ServeAction, Handled, Calm, Idle, PollTyped
  <2> QED BY <2>1 DEF Calm
<1>10. CASE ActionFails
  <2>1. ~Calm'
    BY <1>10 DEF ActionFails, Calm
  <2> QED BY <2>1 DEF Calm
<1> QED
  BY <1>1, <1>2, <1>3, <1>4, <1>5, <1>6, <1>7, <1>8, <1>9, <1>10
     DEF PollNext, SendCreate, SendCancel, SendRetry

\* A runs panel that has stopped polling without an error shows every run of the project
\* as it is, and none of them can still change: useRunPolling never stops too early.
THEOREM QuietPanelIsCurrent == PollSpec => []QuietMeansCurrent
<1>1. PollInit => PollInv
  BY DEF PollInit, PollInv, PollTyped, QuietMeansCurrent, Idle
<1>2. PollInv => QuietMeansCurrent
  BY DEF PollInv
<1> QED BY <1>1, <1>2, PollInvStep, PTL DEF PollSpec

-----------------------------------------------------------------------------
(* The generated rows. *)

LEMMA PartialIs ==
  ASSUME NEW S, NEW T, NEW f
  PROVE f \in Partial(S, T) <=> DOMAIN f \subseteq S /\ f \in [DOMAIN f -> T]
BY DEF Partial

LEMMA NoKeys == DOMAIN << >> = {} /\ \A T : << >> \in [{} -> T]
OBVIOUS

EntitiesInv == EntitiesTypeOK /\ ReferencesTrue /\ PayloadsAgree

LEMMA EntitiesInvInit == EntitiesInit => EntitiesInv
<1> SUFFICES ASSUME EntitiesInit PROVE EntitiesInv
  OBVIOUS
<1>1. zones \in Partial(ZoneKeys, ZoneClasses)
  <2>1. DOMAIN << >> \subseteq ZoneKeys /\ << >> \in [DOMAIN << >> -> ZoneClasses]
    BY NoKeys
  <2> QED BY <2>1, PartialIs DEF EntitiesInit
<1>2. EntitiesTypeOK
  BY <1>1, NoKeys DEF EntitiesInit, EntitiesTypeOK
<1>3. ReferencesTrue /\ PayloadsAgree
  BY NoKeys DEF EntitiesInit, ReferencesTrue, PayloadsAgree
<1> QED BY <1>2, <1>3 DEF EntitiesInv

LEMMA ZonesKept ==
  ASSUME EntitiesInv, NEW partition \in Partial(ZoneKeys, ZoneClasses), WriteZones(partition)
  PROVE EntitiesInv'
<1>1. /\ zones' = partition
      /\ DOMAIN blocks' = DOMAIN blocks /\ DOMAIN parcels' = DOMAIN parcels
      /\ \A b \in DOMAIN blocks : blocks'[b] = [blocks[b] EXCEPT !.zone = Null]
      /\ \A p \in DOMAIN parcels : parcels'[p] = [parcels[p] EXCEPT !.zone = Null]
      /\ UNCHANGED <<runStatus, roads, buildings, facilities, metrics>>
  BY DEF WriteZones, Unzoned
<1>2. /\ \A b \in DOMAIN blocks : blocks[b] \in BlockRow
      /\ \A p \in DOMAIN parcels : parcels[p] \in ParcelRow
  BY DEF EntitiesInv, EntitiesTypeOK
<1>3. \A b \in DOMAIN blocks :
        /\ blocks'[b] \in BlockRow /\ blocks'[b].zone = Null
        /\ blocks'[b].demography = blocks[b].demography
        /\ blocks'[b].infrastructure = blocks[b].infrastructure
  BY <1>1, <1>2 DEF BlockRow
<1>4. \A p \in DOMAIN parcels :
        /\ parcels'[p] \in ParcelRow /\ parcels'[p].zone = Null
        /\ parcels'[p].block = parcels[p].block
  BY <1>1, <1>2 DEF ParcelRow
<1>5. EntitiesTypeOK'
  BY <1>1, <1>3, <1>4 DEF EntitiesInv, EntitiesTypeOK
<1>6. ReferencesTrue'
  BY <1>1, <1>3, <1>4 DEF EntitiesInv, ReferencesTrue
<1>7. PayloadsAgree'
  BY <1>1, <1>3 DEF EntitiesInv, PayloadsAgree
<1> QED BY <1>5, <1>6, <1>7 DEF EntitiesInv

LEMMA BlocksKept ==
  ASSUME EntitiesInv, NEW association \in Partial(BlockKeys, Associations),
         NEW subdivision \in Partial(ParcelKeys, ParcelRow),
         WriteBlocks(association, subdivision)
  PROVE EntitiesInv'
<1>1. /\ DOMAIN association \subseteq BlockKeys
      /\ \A b \in DOMAIN association : association[b] \in Associations
      /\ DOMAIN subdivision \subseteq ParcelKeys
      /\ \A p \in DOMAIN subdivision : subdivision[p] \in ParcelRow
  BY PartialIs
<1>2. /\ DOMAIN blocks' = DOMAIN association
      /\ \A b \in DOMAIN association :
           blocks'[b] = [zone |-> association[b].zone, class |-> association[b].class,
                         demography |-> Null, infrastructure |-> Null]
      /\ parcels' = subdivision
      /\ DOMAIN buildings' = {}
      /\ UNCHANGED <<runStatus, zones, roads, facilities, metrics>>
      /\ Aligned(association, subdivision) /\ ZonesPersisted(association) /\ NoneHosts
  BY NoKeys DEF WriteBlocks
<1>3. \A b \in DOMAIN association :
        /\ blocks'[b] \in BlockRow
        /\ blocks'[b].zone = association[b].zone /\ blocks'[b].class = association[b].class
        /\ blocks'[b].demography = Null /\ blocks'[b].infrastructure = Null
  BY <1>1, <1>2 DEF BlockRow, Associations
<1>4. EntitiesTypeOK'
  BY <1>1, <1>2, <1>3 DEF EntitiesInv, EntitiesTypeOK
<1>5. ReferencesTrue'
  BY <1>2, <1>3 DEF EntitiesInv, ReferencesTrue, Aligned, ZonesPersisted, NoneHosts
<1>6. PayloadsAgree'
  BY <1>2, <1>3 DEF EntitiesInv, PayloadsAgree
<1> QED BY <1>4, <1>5, <1>6 DEF EntitiesInv

LEMMA BuildingsKept ==
  ASSUME EntitiesInv, NEW sourceOf \in Partial(BuildingKeys, BlockKeys \cup ParcelKeys),
         WriteBuildings(sourceOf)
  PROVE EntitiesInv'
<1>1. /\ DOMAIN buildings' = DOMAIN sourceOf
      /\ DOMAIN sourceOf \subseteq BuildingKeys
      /\ \A h \in DOMAIN sourceOf :
           /\ buildings'[h] = Resolved(sourceOf[h])
           /\ sourceOf[h] \in DOMAIN parcels \cup DOMAIN blocks
      /\ NoneHosts
      /\ UNCHANGED <<runStatus, zones, roads, blocks, parcels, facilities, metrics>>
  BY PartialIs DEF WriteBuildings, Range
<1>2. /\ DOMAIN blocks \subseteq BlockKeys /\ DOMAIN parcels \subseteq ParcelKeys
      /\ \A p \in DOMAIN parcels : parcels[p] \in ParcelRow /\ parcels[p].block \in DOMAIN blocks
  BY DEF EntitiesInv, EntitiesTypeOK, ReferencesTrue
<1>3. ASSUME NEW s \in DOMAIN parcels \cup DOMAIN blocks
      PROVE /\ Resolved(s) \in BuildingRow
            /\ Resolved(s).block \in DOMAIN blocks
            /\ Resolved(s).parcel # Null =>
                 /\ Resolved(s).parcel \in DOMAIN parcels
                 /\ parcels[Resolved(s).parcel].block = Resolved(s).block
  <2>1. CASE s \in DOMAIN parcels
    BY <1>2, <2>1 DEF Resolved, BuildingRow
  <2>2. CASE s \notin DOMAIN parcels
    BY <1>2, <2>2 DEF Resolved, BuildingRow
  <2> QED BY <2>1, <2>2
<1>4. EntitiesTypeOK'
  BY <1>1, <1>3 DEF EntitiesInv, EntitiesTypeOK
<1>5. ReferencesTrue'
  BY <1>1, <1>3 DEF EntitiesInv, ReferencesTrue, NoneHosts
<1>6. PayloadsAgree'
  BY <1>1 DEF EntitiesInv, PayloadsAgree
<1> QED BY <1>4, <1>5, <1>6 DEF EntitiesInv

\* A payload is written for every block, of the result whose totals are kept with it.
LEMMA PayloadKept ==
  ASSUME EntitiesInv, NEW field \in {"demography", "infrastructure"}, NEW result \in Results,
         /\ DOMAIN blocks' = DOMAIN blocks
         /\ \A b \in DOMAIN blocks : blocks'[b] = [blocks[b] EXCEPT ![field] = result]
         /\ metrics' = [metrics EXCEPT ![field] = result]
  PROVE /\ \A b \in DOMAIN blocks : blocks'[b] \in BlockRow
        /\ metrics' \in [demography : Results \cup {Null}, infrastructure : Results \cup {Null}]
        /\ \A b \in DOMAIN blocks :
             blocks'[b].zone = blocks[b].zone /\ blocks'[b].class = blocks[b].class
        /\ \A other \in {"demography", "infrastructure"} :
             \/ \A b \in DOMAIN blocks' : blocks'[b][other] = metrics'[other]
             \/ \A b \in DOMAIN blocks' : blocks'[b][other] = Null
<1>1. /\ \A b \in DOMAIN blocks : blocks[b] \in BlockRow
      /\ metrics \in [demography : Results \cup {Null}, infrastructure : Results \cup {Null}]
  BY DEF EntitiesInv, EntitiesTypeOK
<1>2. CASE field = "demography"
  <2>1. \A b \in DOMAIN blocks :
          /\ blocks'[b] \in BlockRow
          /\ blocks'[b].zone = blocks[b].zone /\ blocks'[b].class = blocks[b].class
          /\ blocks'[b].demography = result
          /\ blocks'[b].infrastructure = blocks[b].infrastructure
    BY <1>1, <1>2 DEF BlockRow
  <2>2. /\ metrics' \in [demography : Results \cup {Null}, infrastructure : Results \cup {Null}]
        /\ metrics'.demography = result /\ metrics'.infrastructure = metrics.infrastructure
    BY <1>1, <1>2
  <2>3. \/ \A b \in DOMAIN blocks : blocks[b].infrastructure = metrics.infrastructure
        \/ \A b \in DOMAIN blocks : blocks[b].infrastructure = Null
    BY DEF EntitiesInv, PayloadsAgree
  <2> QED BY <2>1, <2>2, <2>3
<1>3. CASE field = "infrastructure"
  <2>1. \A b \in DOMAIN blocks :
          /\ blocks'[b] \in BlockRow
          /\ blocks'[b].zone = blocks[b].zone /\ blocks'[b].class = blocks[b].class
          /\ blocks'[b].infrastructure = result
          /\ blocks'[b].demography = blocks[b].demography
    BY <1>1, <1>3 DEF BlockRow
  <2>2. /\ metrics' \in [demography : Results \cup {Null}, infrastructure : Results \cup {Null}]
        /\ metrics'.infrastructure = result /\ metrics'.demography = metrics.demography
    BY <1>1, <1>3
  <2>3. \/ \A b \in DOMAIN blocks : blocks[b].demography = metrics.demography
        \/ \A b \in DOMAIN blocks : blocks[b].demography = Null
    BY DEF EntitiesInv, PayloadsAgree
  <2> QED BY <2>1, <2>2, <2>3
<1> QED BY <1>2, <1>3

LEMMA DemographyKept ==
  ASSUME EntitiesInv, NEW result \in Results, NEW areas, WriteDemography(result, areas)
  PROVE EntitiesInv'
<1>1. /\ DOMAIN blocks' = DOMAIN blocks
      /\ \A b \in DOMAIN blocks : blocks'[b] = [blocks[b] EXCEPT !["demography"] = result]
      /\ metrics' = [metrics EXCEPT !["demography"] = result]
      /\ UNCHANGED <<runStatus, zones, roads, parcels, buildings, facilities>>
  BY DEF WriteDemography, SameBlocks
<1>2. /\ metrics'.infrastructure = metrics.infrastructure
  BY <1>1 DEF EntitiesInv, EntitiesTypeOK
<1>3. EntitiesTypeOK'
  BY <1>1, PayloadKept DEF EntitiesInv, EntitiesTypeOK
<1>4. ReferencesTrue'
  BY <1>1, PayloadKept DEF EntitiesInv, ReferencesTrue
<1>5. PayloadsAgree'
  BY <1>1, <1>2, PayloadKept DEF EntitiesInv, PayloadsAgree
<1> QED BY <1>3, <1>4, <1>5 DEF EntitiesInv

LEMMA FacilitiesKept ==
  ASSUME EntitiesInv, NEW type \in FacilityTypes,
         NEW hostOf \in Partial(CandidateIds, BuildingKeys \cup {Null}),
         WriteFacilities(type, hostOf)
  PROVE EntitiesInv'
<1> DEFINE others == {f \in DOMAIN facilities : f[1] # type}
<1>1. /\ DOMAIN facilities' = others \cup ({type} \X DOMAIN hostOf)
      /\ \A f \in others : facilities'[f] = facilities[f]
      /\ \A f \in {type} \X DOMAIN hostOf :
           facilities'[f] = [host |-> hostOf[f[2]], access |-> Null]
      /\ UNCHANGED <<runStatus, zones, roads, blocks, parcels, buildings, metrics>>
  BY DEF WriteFacilities
<1>2. /\ DOMAIN hostOf \subseteq CandidateIds
      /\ \A c \in DOMAIN hostOf :
           /\ hostOf[c] \in BuildingKeys \cup {Null}
           /\ hostOf[c] \in DOMAIN buildings \cup {Null}
  BY PartialIs DEF WriteFacilities, Range
<1>3. \A f \in {type} \X DOMAIN hostOf :
        /\ f \in FacilityKeys /\ facilities'[f] \in FacilityRow
        /\ facilities'[f].host \in DOMAIN buildings \cup {Null}
        /\ facilities'[f].access = Null
  <2> TAKE f \in {type} \X DOMAIN hostOf
  <2>1. f = <<type, f[2]>> /\ f[2] \in DOMAIN hostOf
    OBVIOUS
  <2>2. f \in FacilityKeys
    BY <1>2, <2>1 DEF FacilityKeys
  <2>3. facilities'[f] = [host |-> hostOf[f[2]], access |-> Null]
    BY <1>1
  <2> QED BY <1>2, <2>1, <2>2, <2>3 DEF FacilityRow
<1>4. EntitiesTypeOK'
  BY <1>1, <1>3 DEF EntitiesInv, EntitiesTypeOK
<1>5. ReferencesTrue'
  BY <1>1, <1>3 DEF EntitiesInv, ReferencesTrue
<1>6. PayloadsAgree'
  BY <1>1, <1>3 DEF EntitiesInv, PayloadsAgree
<1> QED BY <1>4, <1>5, <1>6 DEF EntitiesInv

LEMMA ReadModelKept ==
  ASSUME EntitiesInv, NEW result \in Results, NEW demanding, NEW accepted,
         WriteReadModel(result, demanding, accepted)
  PROVE EntitiesInv'
<1>1. /\ DOMAIN blocks' = DOMAIN blocks
      /\ \A b \in DOMAIN blocks : blocks'[b] = [blocks[b] EXCEPT !["infrastructure"] = result]
      /\ metrics' = [metrics EXCEPT !["infrastructure"] = result]
      /\ DOMAIN facilities' = DOMAIN facilities
      /\ \A f \in DOMAIN facilities : facilities'[f] = [facilities[f] EXCEPT !.access = result]
      /\ UNCHANGED <<runStatus, zones, roads, parcels, buildings>>
  BY DEF WriteReadModel, SameBlocks
<1>2. metrics'.infrastructure = result
  BY <1>1 DEF EntitiesInv, EntitiesTypeOK
<1>3. \A f \in DOMAIN facilities : /\ facilities'[f] \in FacilityRow
                                   /\ facilities'[f].host = facilities[f].host
                                   /\ facilities'[f].access = result
  <2>1. \A f \in DOMAIN facilities : facilities[f] \in FacilityRow
    BY DEF EntitiesInv, EntitiesTypeOK
  <2> QED BY <1>1, <2>1 DEF FacilityRow
<1>4. EntitiesTypeOK'
  BY <1>1, <1>3, PayloadKept DEF EntitiesInv, EntitiesTypeOK
<1>5. ReferencesTrue'
  BY <1>1, <1>3, PayloadKept DEF EntitiesInv, ReferencesTrue
<1>6. PayloadsAgree'
  <2>1. \A field \in {"demography", "infrastructure"} :
          \/ \A b \in DOMAIN blocks' : blocks'[b][field] = metrics'[field]
          \/ \A b \in DOMAIN blocks' : blocks'[b][field] = Null
    BY <1>1, PayloadKept DEF EntitiesInv, PayloadsAgree
  <2>2. \A f \in DOMAIN facilities' : facilities'[f].access \in {Null, metrics'.infrastructure}
    BY <1>1, <1>2, <1>3
  <2> QED BY <2>1, <2>2 DEF PayloadsAgree
<1> QED BY <1>4, <1>5, <1>6 DEF EntitiesInv

LEMMA EntitiesInvStep == EntitiesInv /\ [EntitiesNext]_entityVars => EntitiesInv'
<1> SUFFICES ASSUME EntitiesInv, [EntitiesNext]_entityVars PROVE EntitiesInv'
  OBVIOUS
<1>1. CASE UNCHANGED <<zones, blocks, parcels, buildings, facilities, metrics>> /\
           roads' \in SUBSET RoadKeys /\ runStatus' \in {"open", "succeeded"}
  BY <1>1 DEF EntitiesInv, EntitiesTypeOK, ReferencesTrue, PayloadsAgree
<1>2. ASSUME NEW edges \in SUBSET RoadKeys, NEW classified, WriteRoads(edges, classified)
      PROVE EntitiesInv'
  BY <1>1, <1>2 DEF WriteRoads, EntitiesInv, EntitiesTypeOK
<1>3. ASSUME FinishRun
      PROVE EntitiesInv'
  BY <1>1, <1>3 DEF FinishRun, EntitiesInv, EntitiesTypeOK
<1>4. CASE UNCHANGED entityVars
  BY <1>1, <1>4 DEF entityVars, EntitiesInv, EntitiesTypeOK
<1> QED
  BY <1>2, <1>3, <1>4, ZonesKept, BlocksKept, BuildingsKept, DemographyKept, FacilitiesKept,
     ReadModelKept
     DEF EntitiesNext

\* What a row says of another row is true after any sequence of writers, for every set of
\* keys: a zone is of the class its blocks name, a parcel has the zone of its block, a
\* building lies on the block of its parcel, and a host building is there.
THEOREM ReferencesAreTrue == EntitiesSpec => []ReferencesTrue
<1>1. EntitiesInv => ReferencesTrue
  BY DEF EntitiesInv
<1> QED BY <1>1, EntitiesInvInit, EntitiesInvStep, PTL DEF EntitiesSpec

\* The payloads of the blocks and facilities are of the result whose totals the run shows,
\* and all blocks have one or none has, whatever writers ran in between.
THEOREM PayloadsAreOfOneResult == EntitiesSpec => []PayloadsAgree
<1>1. EntitiesInv => PayloadsAgree
  BY DEF EntitiesInv
<1> QED BY <1>1, EntitiesInvInit, EntitiesInvStep, PTL DEF EntitiesSpec

-----------------------------------------------------------------------------
(* The answers made of the rows. *)

\* Every set of natural numbers has a least element, and a finite one a greatest.
LEMMA SomeLeast ==
  ASSUME NEW S \in SUBSET Nat, S # {} PROVE \E x \in S : \A y \in S : x <= y
<1>1. PICK x \in S : \A y \in S : ~(<<y, x>> \in OpToRel(<, Nat))
  BY NatLessThanWellFounded, WFMin
<1>2. \A y \in S : ~(y < x)
  BY <1>1 DEF OpToRel
<1>3. \A y \in S : x <= y
  BY ONLY <1>2, x \in S, S \in SUBSET Nat
<1> QED BY <1>3

LEMMA SomeGreatest ==
  ASSUME NEW S \in SUBSET Nat, IsFiniteSet(S), S # {} PROVE \E x \in S : \A y \in S : y <= x
<1> DEFINE Lacking == {R \in SUBSET S : R # {} /\ \A x \in R : \E y \in R : ~(y <= x)}
<1>1. CASE Lacking = {}
  BY <1>1
<1>2. CASE Lacking # {}
  <2>1. IsWellFoundedOn(StrictSubsetOrdering(S), SUBSET S)
    BY FS_StrictSubsetOrderingWellFounded, FS_FiniteSubsetsOfFinite
  <2>2. PICK R \in Lacking : \A Q \in Lacking : ~(<<Q, R>> \in StrictSubsetOrdering(S))
    <3> Lacking \subseteq SUBSET S OBVIOUS
    <3> HIDE DEF Lacking
    <3> QED BY <1>2, <2>1, WFMin
  <2>3. \A Q \in SUBSET R : Q # R => Q \notin Lacking
    <3> SUFFICES ASSUME NEW Q \in SUBSET R, Q # R, Q \in Lacking PROVE FALSE
      OBVIOUS
    <3>1. <<Q, R>> \in StrictSubsetOrdering(S)
      BY DEF StrictSubsetOrdering
    <3> QED BY <2>2, <3>1
  <2>4. PICK y \in R : TRUE
    OBVIOUS
  <2>5. CASE R = {y}
    BY <2>5
  <2>6. CASE R # {y}
    <3>1. PICK m \in R \ {y} : \A x \in R \ {y} : x <= m
      BY <2>3, <2>6
    <3>2. \A x \in R : x \in Nat
      OBVIOUS
    <3>3. PICK x \in R : ~(x <= IF m <= y THEN y ELSE m)
      OBVIOUS
    <3> QED BY ONLY <3>1, <3>2, <3>3, y \in R
  <2> QED BY <2>5, <2>6
<1> QED BY <1>1, <1>2

LEMMA ClosedUnderSuccessor ==
  ASSUME NEW T, 0 \in T, \A n \in Nat : n \in T => n + 1 \in T
  PROVE \A n \in Nat : n \in T
<1> DEFINE U == Nat \ T
<1>1. SUFFICES ASSUME U # {} PROVE FALSE
  OBVIOUS
<1>2. PICK x \in U : \A y \in U : x <= y
  BY <1>1, SomeLeast
<1>3. x # 0 /\ x - 1 \in Nat /\ (x - 1) + 1 = x /\ ~(x <= x - 1)
  OBVIOUS
<1>4. x - 1 \in T
  BY <1>2, <1>3
<1> QED BY <1>3, <1>4

Below(S, x) == {y \in S : y < x}

LEMMA BelowIs ==
  ASSUME NEW S \in SUBSET Nat, NEW x \in Nat
  PROVE IsFiniteSet(Below(S, x)) /\ Cardinality(Below(S, x)) \in Nat
<1>1. Below(S, x) \in SUBSET Nat /\ \A y \in Below(S, x) : y <= x
  <2>1. \A y \in S : y \in Nat /\ (y < x => y <= x)
    OBVIOUS
  <2> QED BY <2>1 DEF Below
<1>2. IsFiniteSet(Below(S, x))
  <2> DEFINE B == Below(S, x)
  <2> HIDE DEF B
  <2>1. B \in SUBSET Nat /\ \A y \in B : y <= x
    BY <1>1 DEF B
  <2>2. IsFiniteSet(B)
    BY ONLY <2>1, x \in Nat, FS_BoundedSetOfNaturals
  <2> QED BY <2>2 DEF B
<1> QED BY <1>2, FS_CardinalityType

LEMMA FirstIs ==
  ASSUME NEW S, NEW n PROVE First(S, n) = {x \in S : Cardinality(Below(S, x)) < n}
BY DEF First, Below

\* The first n hold with a number every smaller one.
LEMMA FirstBelow ==
  ASSUME NEW S \in SUBSET Nat, NEW n \in Nat, NEW x \in First(S, n), NEW y \in S, y < x
  PROVE y \in First(S, n)
<1>1. x \in S /\ Cardinality(Below(S, x)) < n
  BY FirstIs
<1>2. Below(S, y) \in SUBSET Below(S, x)
  <2>1. \A z \in S : z \in Nat
    OBVIOUS
  <2>2. \A z \in S : z < y => z < x
    BY ONLY <1>1, <2>1, y \in S, y < x
  <2> QED BY <2>2 DEF Below
<1>3. Cardinality(Below(S, y)) <= Cardinality(Below(S, x))
  BY <1>1, <1>2, BelowIs, FS_Subset
<1>4. Cardinality(Below(S, y)) < n
  BY <1>1, <1>3, BelowIs
<1> QED BY <1>4, FirstIs

LEMMA FirstFinite ==
  ASSUME NEW S, IsFiniteSet(S), NEW n
  PROVE /\ First(S, n) \subseteq S /\ IsFiniteSet(First(S, n))
        /\ Cardinality(First(S, n)) \in Nat
<1>1. First(S, n) \subseteq S
  BY DEF First
<1> QED BY <1>1, FS_Subset, FS_CardinalityType

\* If they are fewer than n, they are all.
LEMMA FirstAll ==
  ASSUME NEW S \in SUBSET Nat, IsFiniteSet(S), NEW n \in Nat, Cardinality(First(S, n)) < n
  PROVE First(S, n) = S
<1> DEFINE F == First(S, n)
           U == S \ F
<1>1. F \subseteq S /\ IsFiniteSet(F) /\ Cardinality(F) \in Nat
  BY FirstFinite
<1>2. SUFFICES ASSUME U # {} PROVE FALSE
  BY <1>1
<1>3. PICK x \in U : \A y \in U : x <= y
  BY <1>2, SomeLeast
<1>4. Below(S, x) \in SUBSET F
  <2> SUFFICES ASSUME NEW y \in S, y < x, y \notin F PROVE FALSE
    BY DEF Below
  <2> QED BY ONLY <1>3, y \in S, y < x, y \notin F, x \in U, S \in SUBSET Nat
<1>5. Cardinality(Below(S, x)) <= Cardinality(F)
  BY <1>1, <1>4, FS_Subset
<1>6. Cardinality(Below(S, x)) < n
  <2> x \in Nat OBVIOUS
  <2> QED BY <1>1, <1>5, BelowIs
<1> QED BY <1>6, FirstIs

\* If there are no more than n, the first n are all.
LEMMA FirstWhole ==
  ASSUME NEW S \in SUBSET Nat, IsFiniteSet(S), NEW n \in Nat, Cardinality(S) <= n
  PROVE First(S, n) = S
<1> SUFFICES ASSUME NEW x \in S PROVE Cardinality(Below(S, x)) < n
  BY FirstIs
<1>1. Below(S, x) \in SUBSET (S \ {x})
  BY DEF Below
<1>2. /\ IsFiniteSet(S \ {x}) /\ Cardinality(S \ {x}) = Cardinality(S) - 1
      /\ Cardinality(S) \in Nat
  BY FS_RemoveElement, FS_CardinalityType
<1>3. Cardinality(Below(S, x)) <= Cardinality(S \ {x})
  BY <1>1, <1>2, FS_Subset
<1> QED BY <1>2, <1>3, BelowIs

\* Asking for one more than is shown tells whether that was all.
LEMMA AskingOneMore ==
  ASSUME NEW S \in SUBSET Nat, IsFiniteSet(S), NEW n \in Nat,
         ~(Cardinality(First(S, n + 1)) > n)
  PROVE First(S, n + 1) = S /\ First(S, n) = S /\ First(First(S, n + 1), n) = S
<1>1. Cardinality(First(S, n + 1)) \in Nat
  BY FirstFinite
<1>2. First(S, n + 1) = S
  BY <1>1, FirstAll
<1> QED BY <1>1, <1>2, FirstWhole

-----------------------------------------------------------------------------
(* Pages. *)

Rest(R, a) == {x \in R : x > a}
PageOf(R, a, n) == First(First(Rest(R, a), n + 1), n)
Goes(R, a, n) == Cardinality(First(Rest(R, a), n + 1)) > n

\* A page holds what is left up to its greatest id when more follow, and else all.
LEMMA PageIs ==
  ASSUME NEW R \in SUBSET Nat, IsFiniteSet(R), NEW a \in Nat, NEW n \in Nat \ {0}
  PROVE /\ PageOf(R, a, n) \subseteq Rest(R, a)
        /\ ~Goes(R, a, n) => PageOf(R, a, n) = Rest(R, a)
        /\ Goes(R, a, n) =>
             LET g == Greatest(PageOf(R, a, n))
             IN  g \in R /\ g > a /\ PageOf(R, a, n) = {x \in R : a < x /\ x <= g}
<1> DEFINE Q == Rest(R, a)
           F == First(Q, n + 1)
           P == First(F, n)
           g == Greatest(P)
<1>1. Q \in SUBSET Nat /\ Q \subseteq R /\ IsFiniteSet(Q)
  BY FS_Subset DEF Rest
<1>2. F \subseteq Q /\ IsFiniteSet(F) /\ Cardinality(F) \in Nat
  BY <1>1, FirstFinite
<1>3. P \subseteq F /\ IsFiniteSet(P) /\ Cardinality(P) \in Nat
  BY <1>2, FirstFinite
<1>4. ~Goes(R, a, n) => P = Q
  BY <1>1, AskingOneMore DEF Goes
<1>5. ASSUME Goes(R, a, n)
      PROVE g \in R /\ g > a /\ P = {x \in R : a < x /\ x <= g}
  <2>1. P # {}
    <3> SUFFICES ASSUME P = {} PROVE FALSE
      OBVIOUS
    <3>1. Cardinality(P) = 0
      BY FS_EmptySet
    <3>2. P = F
      BY <1>1, <1>2, <3>1, FirstAll
    <3> QED BY <1>5, <3>1, <3>2 DEF Goes
  <2>2. \E x \in P : \A y \in P : y <= x
    BY <1>1, <1>2, <1>3, <2>1, SomeGreatest
  <2>3. g \in P /\ \A y \in P : y <= g
    BY <2>2 DEF Greatest
  <2>4. g \in F /\ g \in Q /\ g \in R /\ g \in Nat /\ g > a
    BY <1>1, <1>2, <1>3, <2>3 DEF Rest
  <2>5. ASSUME NEW x \in P PROVE x \in R /\ a < x /\ x <= g
    BY <1>1, <1>2, <1>3, <2>3 DEF Rest
  <2>6. ASSUME NEW x \in R, a < x, x <= g PROVE x \in P
    <3>1. x \in Q
      BY <2>6 DEF Rest
    <3>2. CASE x = g
      BY <2>3, <3>2
    <3>3. CASE x < g
      <4>1. x \in F
        BY <1>1, <2>4, <3>1, <3>3, FirstBelow
      <4>2. F \in SUBSET Nat
        BY <1>1, <1>2
      <4> HIDE DEF F, g
      <4> QED BY <2>3, <3>3, <4>1, <4>2, FirstBelow
    <3> QED BY <2>4, <2>6, <3>2, <3>3
  <2> HIDE DEF P, g
  <2> QED BY <2>4, <2>5, <2>6
<1> QED BY <1>1, <1>2, <1>3, <1>4, <1>5 DEF PageOf

Follows(R, n, f, a) ==
  <<PageOf(R, a, n)>> \o (IF Goes(R, a, n) THEN f[Greatest(PageOf(R, a, n))] ELSE << >>)
Paged(R, n) == CHOOSE f : f = [a \in {0} \cup R |-> Follows(R, n, f, a)]

LEMMA PagesArePaged ==
  ASSUME NEW layer, NEW limit PROVE Pages(layer, limit) = Paged(LayerRows(layer), limit)[0]
BY Zenon DEF Pages, Paged, Follows, PageOf, Goes, Rest, VectorPage, ListFeatures, Asked, Answer

\* The pages from each id on, of those ids for which more than M - k is left.
Turned(R, n, f, M, k) ==
  /\ f = [a \in {0} \cup R |-> f[a]]
  /\ \A a \in {0} \cup R : a + k > M => f[a] = Follows(R, n, f, a)

LEMMA WithZero ==
  ASSUME NEW R \in SUBSET Nat, IsFiniteSet(R)
  PROVE {0} \cup R \in SUBSET Nat /\ IsFiniteSet({0} \cup R) /\ {0} \cup R # {}
<1>1. IsFiniteSet(R \cup {0})
  BY FS_AddElement
<1>2. R \cup {0} = {0} \cup R
  OBVIOUS
<1> QED BY <1>1, <1>2

\* A recursive function again: it exists, and is the one the model names.
LEMMA PagedIs ==
  ASSUME NEW R \in SUBSET Nat, IsFiniteSet(R), NEW n \in Nat \ {0}
  PROVE \A a \in {0} \cup R : Paged(R, n)[a] = Follows(R, n, Paged(R, n), a)
<1> DEFINE P == {0} \cup R
<1>1. P \in SUBSET Nat /\ IsFiniteSet(P) /\ P # {}
  BY WithZero
<1>2. PICK M \in P : \A a \in P : a <= M
  BY <1>1, SomeGreatest
<1>3. M \in Nat /\ \A a \in P : a \in Nat
  BY <1>1
<1> DEFINE Good == {k \in Nat : \E f : Turned(R, n, f, M, k)}
<1>4. 0 \in Good
  <2> DEFINE f == [a \in P |-> << >>]
  <2>1. f = [a \in P |-> f[a]]
    OBVIOUS
  <2>2. \A a \in P : ~(a + 0 > M)
    BY <1>2, <1>3
  <2> HIDE DEF f
  <2>3. Turned(R, n, f, M, 0)
    BY <2>1, <2>2 DEF Turned
  <2> QED BY <2>3
<1>5. ASSUME NEW k \in Nat, k \in Good PROVE k + 1 \in Good
  <2>1. PICK f : Turned(R, n, f, M, k)
    BY <1>5
  <2> DEFINE h == [a \in P |-> IF a + k = M THEN Follows(R, n, f, a) ELSE f[a]]
  <2>2. \A a \in P : a + k > M => h[a] = f[a]
    BY <1>3
  <2>3. \A a \in P : a + k = M => h[a] = Follows(R, n, f, a)
    OBVIOUS
  <2>4. h = [a \in P |-> h[a]]
    OBVIOUS
  <2> HIDE DEF h
  <2>5. ASSUME NEW a \in P, a + k >= M PROVE Follows(R, n, h, a) = Follows(R, n, f, a)
    <3>1. a \in Nat
      BY <1>3
    <3>2. Goes(R, a, n) => /\ Greatest(PageOf(R, a, n)) \in R
                           /\ Greatest(PageOf(R, a, n)) > a
      BY <3>1, PageIs
    <3>3. Goes(R, a, n) => h[Greatest(PageOf(R, a, n))] = f[Greatest(PageOf(R, a, n))]
      <4> SUFFICES ASSUME Goes(R, a, n)
                   PROVE h[Greatest(PageOf(R, a, n))] = f[Greatest(PageOf(R, a, n))]
        OBVIOUS
      <4> DEFINE g == Greatest(PageOf(R, a, n))
      <4>1. g \in P /\ g > a
        BY <3>2
      <4> HIDE DEF g
      <4>2. g + k > M
        BY ONLY <1>3, <2>5, <3>1, <4>1, k \in Nat
      <4>3. h[g] = f[g]
        BY <2>2, <4>1, <4>2
      <4> QED BY <4>3 DEF g
    <3> QED BY <3>3 DEF Follows
  <2>6. ASSUME NEW a \in P, a + (k + 1) > M PROVE h[a] = Follows(R, n, h, a)
    <3>1. a \in Nat /\ (a + k = M \/ a + k > M)
      BY <1>3, <2>6
    <3>2. a + k >= M
      BY <1>3, <3>1
    <3>3. CASE a + k = M
      BY <2>3, <2>5, <3>2, <3>3
    <3>4. CASE a + k > M
      <4>1. f[a] = Follows(R, n, f, a)
        BY <2>1, <3>4 DEF Turned
      <4> QED BY <2>2, <2>5, <3>2, <3>4, <4>1
    <3> QED BY <3>1, <3>3, <3>4
  <2>7. Turned(R, n, h, M, k + 1)
    BY <2>4, <2>6 DEF Turned
  <2> QED BY <2>7
<1>6. M + 1 \in Good
  <2> HIDE DEF Good
  <2> QED BY <1>3, <1>4, <1>5, ClosedUnderSuccessor
<1>7. PICK f : Turned(R, n, f, M, M + 1)
  BY <1>6
<1>8. \A a \in P : f[a] = Follows(R, n, f, a)
  <2>1. \A a \in P : a + (M + 1) > M
    BY <1>3
  <2> QED BY <1>7, <2>1 DEF Turned
<1>9. f = [a \in P |-> Follows(R, n, f, a)]
  BY <1>7, <1>8 DEF Turned
<1> DEFINE q == Paged(R, n)
<1>10. q = [a \in P |-> Follows(R, n, q, a)]
  BY <1>9 DEF Paged
<1> HIDE DEF q
<1>11. \A a \in P : q[a] = Follows(R, n, q, a)
  BY <1>10
<1> QED BY <1>11 DEF q

-----------------------------------------------------------------------------
(* Every feature is on one page. *)

\* In the pages after an id every greater id of the rows is once, and no other.
OnePage(R, s, a) ==
  /\ s \in Seq(SUBSET R)
  /\ \A x \in R : x <= a => \A i \in DOMAIN s : x \notin s[i]
  /\ \A x \in R : x > a => \E i \in DOMAIN s : \A j \in DOMAIN s : x \in s[j] <=> j = i

LEMMA Prefixed ==
  ASSUME NEW S, NEW p \in S, NEW s \in Seq(S)
  PROVE /\ <<p>> \o s \in Seq(S)
        /\ DOMAIN (<<p>> \o s) = 1..(Len(s) + 1)
        /\ (<<p>> \o s)[1] = p
        /\ \A i \in DOMAIN s : i + 1 \in DOMAIN (<<p>> \o s) /\ (<<p>> \o s)[i + 1] = s[i]
OBVIOUS

LEMMA PageInFront ==
  ASSUME NEW R \in SUBSET Nat, NEW a \in Nat, NEW g \in Nat, a < g,
         NEW s, OnePage(R, s, g)
  PROVE OnePage(R, <<{x \in R : a < x /\ x <= g}>> \o s, a)
<1> DEFINE p == {x \in R : a < x /\ x <= g}
           t == <<p>> \o s
<1>1. p \in SUBSET R /\ \A x \in R : x \in p <=> (a < x /\ x <= g)
  OBVIOUS
<1>2. s \in Seq(SUBSET R) /\ DOMAIN s = 1..Len(s) /\ Len(s) \in Nat
  BY DEF OnePage
<1> HIDE DEF p
<1>3. /\ t \in Seq(SUBSET R) /\ DOMAIN t = 1..(Len(s) + 1) /\ t[1] = p
      /\ \A i \in DOMAIN s : t[i + 1] = s[i]
  BY <1>1, <1>2, Prefixed
<1> HIDE DEF t
<1>4. \A j \in DOMAIN t : j = 1 \/ (j - 1 \in DOMAIN s /\ t[j] = s[j - 1])
  <2> SUFFICES ASSUME NEW j \in DOMAIN t, j # 1
               PROVE j - 1 \in DOMAIN s /\ t[j] = s[j - 1]
    OBVIOUS
  <2>1. j - 1 \in 1..Len(s) /\ (j - 1) + 1 = j
    BY <1>2, <1>3
  <2> QED BY <1>2, <1>3, <2>1
<1>5. ASSUME NEW x \in R, x <= a PROVE \A j \in DOMAIN t : x \notin t[j]
  <2>1. x \notin p /\ x <= g
    BY <1>1, <1>5
  <2> QED BY <1>3, <1>4, <2>1 DEF OnePage
<1>6. ASSUME NEW x \in R, x > a
      PROVE \E i \in DOMAIN t : \A j \in DOMAIN t : x \in t[j] <=> j = i
  <2>1. CASE x <= g
    <3>1. x \in p /\ 1 \in DOMAIN t
      BY <1>1, <1>2, <1>3, <1>6, <2>1
    <3>2. \A i \in DOMAIN s : x \notin s[i]
      BY <2>1 DEF OnePage
    <3>3. \A j \in DOMAIN t : x \in t[j] <=> j = 1
      BY <1>3, <1>4, <3>1, <3>2
    <3> QED BY <3>1, <3>3
  <2>2. CASE ~(x <= g)
    <3>1. x \notin p /\ x > g
      BY <1>1, <2>2
    <3>2. PICK i \in DOMAIN s : \A j \in DOMAIN s : x \in s[j] <=> j = i
      BY <3>1 DEF OnePage
    <3>3. i + 1 \in DOMAIN t /\ i \in Nat /\ i + 1 # 1
      BY <1>2, <1>3
    <3>4. \A j \in DOMAIN t : x \in t[j] <=> j = i + 1
      <4> SUFFICES ASSUME NEW j \in DOMAIN t PROVE x \in t[j] <=> j = i + 1
        OBVIOUS
      <4>1. CASE j = 1
        BY <1>3, <3>1, <3>3, <4>1
      <4>2. CASE j # 1
        <5>1. j - 1 \in DOMAIN s /\ t[j] = s[j - 1] /\ j \in Nat
          BY <1>3, <1>4, <4>2
        <5>2. x \in t[j] <=> j - 1 = i
          BY <3>2, <5>1
        <5> QED BY ONLY <3>3, <5>1, <5>2
      <4> QED BY <4>1, <4>2
    <3> QED BY <3>3, <3>4
  <2> QED BY <2>1, <2>2
<1>7. OnePage(R, t, a)
  BY <1>3, <1>5, <1>6 DEF OnePage
<1> QED BY <1>7 DEF t, p

LEMMA LastPage ==
  ASSUME NEW R \in SUBSET Nat, NEW a \in Nat
  PROVE OnePage(R, <<Rest(R, a)>> \o << >>, a)
<1> DEFINE p == Rest(R, a)
           t == <<p>> \o << >>
<1>1. p \in SUBSET R /\ \A x \in R : x \in p <=> x > a
  BY DEF Rest
<1> HIDE DEF p
<1>2. t \in Seq(SUBSET R) /\ DOMAIN t = {1} /\ t[1] = p
  BY <1>1
<1> HIDE DEF t
<1>3. \A x \in R : x <= a => ~(x > a)
  OBVIOUS
<1>4. OnePage(R, t, a)
  BY <1>1, <1>2, <1>3 DEF OnePage
<1> QED BY <1>4 DEF t, p

LEMMA PagesAreExact ==
  ASSUME NEW R \in SUBSET Nat, IsFiniteSet(R), NEW n \in Nat \ {0}
  PROVE OnePage(R, Paged(R, n)[0], 0)
<1> DEFINE P == {0} \cup R
           q == Paged(R, n)
           Bad == {a \in P : ~OnePage(R, q[a], a)}
<1>1. \A a \in P : q[a] = Follows(R, n, q, a)
  BY PagedIs
<1>2. SUFFICES ASSUME Bad # {} PROVE FALSE
  OBVIOUS
<1>3. Bad \in SUBSET Nat /\ IsFiniteSet(Bad)
  <2>1. IsFiniteSet(P) /\ P \in SUBSET Nat
    BY WithZero
  <2>2. Bad \in SUBSET P
    OBVIOUS
  <2> HIDE DEF Bad, P
  <2> QED BY <2>1, <2>2, FS_Subset
<1>4. PICK a \in Bad : \A b \in Bad : b <= a
  BY <1>2, <1>3, SomeGreatest
<1>5. a \in P /\ a \in Nat
  OBVIOUS
<1> HIDE DEF q
<1>6. CASE Goes(R, a, n)
  <2> DEFINE g == Greatest(PageOf(R, a, n))
  <2>1. g \in R /\ g > a /\ PageOf(R, a, n) = {x \in R : a < x /\ x <= g}
    BY <1>5, <1>6, PageIs
  <2>2. q[a] = <<PageOf(R, a, n)>> \o q[g]
    BY <1>1, <1>5, <1>6 DEF Follows
  <2> HIDE DEF g
  <2>3. g \in Nat /\ a < g /\ g \in P
    BY <1>5, <2>1
  <2>4. OnePage(R, q[g], g)
    <3>1. ~(g <= a)
      BY <1>5, <2>3
    <3> QED BY <1>4, <2>3, <3>1
  <2>5. OnePage(R, q[a], a)
    BY <1>5, <2>1, <2>2, <2>3, <2>4, PageInFront
  <2> QED BY <2>5
<1>7. CASE ~Goes(R, a, n)
  <2>1. q[a] = <<Rest(R, a)>> \o << >>
    BY <1>1, <1>5, <1>7, PageIs DEF Follows
  <2>2. OnePage(R, q[a], a)
    BY <1>5, <2>1, LastPage
  <2> QED BY <2>2
<1> QED BY <1>6, <1>7

-----------------------------------------------------------------------------
LEMMA WithPayloadIn == ASSUME NEW field PROVE WithPayload(field) \in SUBSET DOMAIN blocks
BY DEF WithPayload

\* The tables hold finitely many rows, of ids that are numbers.
LEMMA RowsAre ==
  ASSUME EntitiesInv
  PROVE \A layer \in VectorLayers :
          LayerRows(layer) \in SUBSET (Nat \ {0}) /\ IsFiniteSet(LayerRows(layer))
<1> DEFINE Fine(S) == S \in SUBSET (Nat \ {0}) /\ IsFiniteSet(S)
<1>1. ASSUME NEW S, Fine(S), NEW T \in SUBSET S PROVE Fine(T)
  BY <1>1, FS_Subset
<1>2. /\ Fine(ZoneKeys) /\ Fine(RoadKeys) /\ Fine(BlockKeys) /\ Fine(ParcelKeys)
      /\ Fine(BuildingKeys) /\ Fine(ExistingFacilities) /\ Fine(FacilityTypes) /\ Fine(CandidateIds)
  <2>1. /\ ZoneKeys \subseteq Nat \ {0} /\ RoadKeys \subseteq Nat \ {0}
        /\ BlockKeys \subseteq Nat \ {0} /\ ParcelKeys \subseteq Nat \ {0}
        /\ BuildingKeys \subseteq Nat \ {0} /\ ExistingFacilities \subseteq Nat \ {0}
        /\ FacilityTypes \subseteq Nat \ {0} /\ CandidateIds \subseteq Nat \ {0}
    BY Zenon, LayersAssumption
  <2>2. /\ IsFiniteSet(ZoneKeys) /\ IsFiniteSet(RoadKeys)
        /\ IsFiniteSet(BlockKeys) /\ IsFiniteSet(ParcelKeys)
        /\ IsFiniteSet(BuildingKeys) /\ IsFiniteSet(ExistingFacilities)
        /\ IsFiniteSet(FacilityTypes) /\ IsFiniteSet(CandidateIds)
    BY LayersAssumption
  <2> QED BY ONLY <2>1, <2>2
<1>3. /\ DOMAIN zones \in SUBSET ZoneKeys /\ roads \in SUBSET RoadKeys
      /\ DOMAIN blocks \in SUBSET BlockKeys /\ DOMAIN parcels \in SUBSET ParcelKeys
      /\ DOMAIN buildings \in SUBSET BuildingKeys
      /\ DOMAIN facilities \in SUBSET (FacilityTypes \X CandidateIds)
  <2>1. DOMAIN zones \in SUBSET ZoneKeys
    <3>1. zones \in Partial(ZoneKeys, ZoneClasses)
      BY DEF EntitiesInv, EntitiesTypeOK
    <3> QED BY <3>1, PartialIs
  <2> QED BY <2>1 DEF EntitiesInv, EntitiesTypeOK, FacilityKeys
<1>4. Fine(GeneratedFacilities)
  <2> DEFINE D == DOMAIN facilities
             id == [f \in D |-> FacilityId(f)]
  <2>1. IsFiniteSet(FacilityTypes \X CandidateIds)
    BY <1>2, FS_Product
  <2>2. IsFiniteSet(D)
    BY <1>3, <2>1, FS_Subset
  <2>3. id \in Surjection(D, GeneratedFacilities)
    BY DEF Surjection, GeneratedFacilities
  <2>4. IsFiniteSet(GeneratedFacilities)
    <3> HIDE DEF id, D
    <3> QED BY <2>2, <2>3, FS_Surjection
  <2>5. ASSUME NEW f \in D PROVE FacilityId(f) \in Nat \ {0}
    <3>1. f[1] \in FacilityTypes /\ f[2] \in CandidateIds
      BY <1>3
    <3>2. f[1] \in Nat \ {0} /\ f[2] \in Nat \ {0}
      BY <1>2, <3>1
    <3> QED BY <3>2 DEF FacilityId
  <2> QED BY <2>4, <2>5 DEF GeneratedFacilities
<1>5. /\ Fine(DOMAIN zones) /\ Fine(roads) /\ Fine(DOMAIN blocks) /\ Fine(DOMAIN parcels)
      /\ Fine(DOMAIN buildings)
  <2> HIDE DEF Fine
  <2> QED BY <1>1, <1>2, <1>3
<1>6. Fine(WithPayload("demography")) /\ Fine(WithPayload("infrastructure"))
  <2>1. Fine(DOMAIN blocks)
    BY <1>5
  <2> HIDE DEF Fine
  <2> QED BY <1>1, <2>1, WithPayloadIn
<1> SUFFICES ASSUME NEW layer \in VectorLayers PROVE Fine(LayerRows(layer))
  OBVIOUS
<1> HIDE DEF Fine
<1> QED BY <1>2, <1>4, <1>5, <1>6 DEF VectorLayers, LayerRows

LEMMA WholeWhenAll ==
  ASSUME NEW S \in SUBSET Nat, IsFiniteSet(S), NEW n \in Nat,
         LET found == First(S, Asked(n)) IN ~Answer(found, n, First(found, n)).truncated
  PROVE LET found == First(S, Asked(n)) IN Answer(found, n, First(found, n)).features = S
BY AskingOneMore DEF Asked, Answer

\* What the demand shows: all blocks have a payload, or none has.
LEMMA DemandRows ==
  ASSUME EntitiesInv, ReadModelExists
  PROVE WithPayload("infrastructure") \in {DOMAIN blocks, {}}
<1>1. \/ \A b \in DOMAIN blocks : blocks[b]["infrastructure"] = metrics["infrastructure"]
      \/ \A b \in DOMAIN blocks : blocks[b]["infrastructure"] = Null
  BY DEF EntitiesInv, PayloadsAgree
<1>2. metrics["infrastructure"] # Null
  BY DEF ReadModelExists
<1> QED BY <1>1, <1>2 DEF WithPayload

LEMMA AnswersFollow == EntitiesInv => AnswersWhole
<1> SUFFICES ASSUME EntitiesInv PROVE AnswersWhole
  OBVIOUS
<1>1. \A layer \in VectorLayers :
        LayerRows(layer) \in SUBSET Nat /\ IsFiniteSet(LayerRows(layer))
  BY RowsAre
<1>2. ASSUME NEW limit \in 1..MaxLimit
      PROVE /\ Whole(ZonesView(limit), "zones") /\ Whole(RoadsView(limit), "roads")
            /\ Whole(BlockParcelView("blocks", limit), "blocks")
            /\ Whole(BlockParcelView("parcels", limit), "parcels")
            /\ Whole(BuildingsView(limit), "buildings")
            /\ DemographyPublished => Whole(DemographyView(limit), "demography")
            /\ ReadModelExists => Whole(DemandView(limit), "demand")
            /\ LET view == FacilitiesView(limit)
               IN  ~view.truncated => /\ view.existing = ExistingFacilities
                                      /\ view.generated = GeneratedFacilities
  <2>0. limit \in Nat
    OBVIOUS
  <2>1. Whole(ZonesView(limit), "zones")
    BY <1>1, <2>0, WholeWhenAll DEF Whole, ZonesView, ListZones, LayerRows, VectorLayers
  <2>2. Whole(RoadsView(limit), "roads")
    BY <1>1, <2>0, WholeWhenAll DEF Whole, RoadsView, ListRoads, LayerRows, VectorLayers
  <2>3. Whole(BlockParcelView("blocks", limit), "blocks")
    BY <1>1, <2>0, WholeWhenAll
       DEF Whole, BlockParcelView, ListBlocks, LayerRows, VectorLayers
  <2>4. Whole(BlockParcelView("parcels", limit), "parcels")
    BY <1>1, <2>0, WholeWhenAll
       DEF Whole, BlockParcelView, ListParcels, LayerRows, VectorLayers
  <2>5. Whole(BuildingsView(limit), "buildings")
    BY <1>1, <2>0, WholeWhenAll DEF Whole, BuildingsView, ListBuildings, LayerRows, VectorLayers
  <2>6. Whole(DemographyView(limit), "demography")
    BY <1>1, <2>0, WholeWhenAll DEF Whole, DemographyView, ListDemography, LayerRows, VectorLayers
  <2>7. ASSUME ReadModelExists PROVE Whole(DemandView(limit), "demand")
    <3> DEFINE B == DOMAIN blocks
               W == WithPayload("infrastructure")
    <3>1. B \in SUBSET Nat /\ IsFiniteSet(B) /\ LayerRows("demand") = W
      BY <1>1 DEF LayerRows, VectorLayers
    <3>2. DemandView(limit) = LET found == First(B, limit + 1) \cap W
                              IN  Answer(found, limit, First(found, limit))
      BY DEF DemandView, ListDemand, Asked
    <3>3. CASE W = B
      <4>1. First(B, limit + 1) \cap W = First(B, limit + 1)
        BY <3>3 DEF First
      <4>2. ~DemandView(limit).truncated => DemandView(limit).features = B
        BY <2>0, <3>1, <3>2, <4>1, WholeWhenAll DEF Asked
      <4> QED BY <3>1, <3>3, <4>2 DEF Whole
    <3>4. CASE W = {}
      <4>1. First(B, limit + 1) \cap W = {} /\ First({}, limit) = {}
        BY <3>4 DEF First
      <4>2. DemandView(limit).features = {}
        BY <3>2, <4>1 DEF Answer
      <4> QED BY <3>1, <3>4, <4>2 DEF Whole
    <3> HIDE DEF B, W
    <3> QED BY <2>7, <3>3, <3>4, DemandRows DEF B, W
  <2>8. LET view == FacilitiesView(limit)
        IN  ~view.truncated => /\ view.existing = ExistingFacilities
                               /\ view.generated = GeneratedFacilities
    <3> DEFINE E == ExistingFacilities
               G == GeneratedFacilities
               e == First(E, limit + 1)
               m == (limit + 1) - Cardinality(e)
               h == First(G, limit + 1)
               g == First(h, m)
    <3>1. /\ E \in SUBSET Nat /\ IsFiniteSet(E) /\ G \in SUBSET Nat /\ IsFiniteSet(G)
      BY <1>1 DEF LayerRows, VectorLayers
    <3>0. ListFacilities(limit + 1) = [existing |-> e, generated |-> g]
      BY Zenon DEF ListFacilities, ListExisting, ListGenerated
    <3> HIDE DEF e, g
    <3>2. FacilitiesView(limit) =
            [existing |-> First(e, limit),
             generated |-> First(g, limit - Cardinality(First(e, limit))),
             truncated |-> Cardinality(e) + Cardinality(g) > limit]
      BY <3>0 DEF FacilitiesView, Asked
    <3> USE DEF e, g
    <3>3. SUFFICES ASSUME ~(Cardinality(e) + Cardinality(g) > limit)
                   PROVE /\ First(e, limit) = E
                         /\ First(g, limit - Cardinality(First(e, limit))) = G
      <4> DEFINE v == FacilitiesView(limit)
      <4>1. ~v.truncated => ~(Cardinality(e) + Cardinality(g) > limit)
        <5> DEFINE big == Cardinality(e) + Cardinality(g) > limit
        <5>1. v.truncated = big
          <6> HIDE DEF e, g
          <6> DEFINE x == First(e, limit)
                     y == First(g, limit - Cardinality(First(e, limit)))
          <6>1. v = [existing |-> x, generated |-> y, truncated |-> big]
            BY <3>2
          <6> HIDE DEF v, x, y, big
          <6> QED BY <6>1
        <5> HIDE DEF v, big
        <5>2. ~v.truncated => ~big
          BY Zenon, <5>1
        <5> QED BY <5>2 DEF big
      <4>2. /\ v.existing = First(e, limit)
            /\ v.generated = First(g, limit - Cardinality(First(e, limit)))
        <5> HIDE DEF e, g
        <5> QED BY <3>2
      <4> HIDE DEF v, e, g
      <4>3. ~v.truncated => v.existing = E /\ v.generated = G
        BY <4>1, <4>2
      <4> QED BY <4>3 DEF v
    <3> HIDE DEF E, G
    <3>4. Cardinality(e) \in Nat /\ Cardinality(g) \in Nat
      BY <3>1, FirstFinite
    <3>5. e = E /\ First(e, limit) = E
      <4>1. ~(Cardinality(e) > limit)
        BY <2>0, <3>3, <3>4
      <4> QED BY <2>0, <3>1, <4>1, AskingOneMore
    <3>6. m \in Nat /\ Cardinality(g) < m
      BY <2>0, <3>3, <3>4
    <3>7. g = G
      <4>1. limit + 1 \in Nat /\ m <= limit + 1
        BY <2>0, <3>4
      <4>2. h \in SUBSET Nat /\ IsFiniteSet(h)
        <5> HIDE DEF h
        <5> QED BY <3>1, FirstFinite DEF h
      <4>3. g = h
        <5> HIDE DEF m, h
        <5> QED BY <3>6, <4>2, FirstAll
      <4>4. Cardinality(h) < limit + 1
        <5> HIDE DEF m, g, h
        <5> QED BY <3>4, <3>6, <4>1, <4>3
      <4>5. h = G
        <5> HIDE DEF m, g
        <5> QED BY <3>1, <4>1, <4>4, FirstAll
      <4> QED BY <4>3, <4>5
    <3>8. First(g, limit - Cardinality(e)) = G
      <4>1. limit - Cardinality(e) \in Nat /\ Cardinality(G) <= limit - Cardinality(e)
        BY <2>0, <3>3, <3>4, <3>7
      <4> HIDE DEF e, g
      <4> QED BY <3>1, <3>7, <4>1, FirstWhole
    <3> QED BY <3>5, <3>8
  <2> QED BY <2>1, <2>2, <2>3, <2>4, <2>5, <2>6, <2>7, <2>8
<1>3. ASSUME NEW layer \in VectorLayers, NEW limit \in 1..MaxLimit, NEW x \in LayerRows(layer)
      PROVE Cardinality({i \in DOMAIN Pages(layer, limit) : x \in Pages(layer, limit)[i]}) = 1
  <2> DEFINE R == LayerRows(layer)
             s == Pages(layer, limit)
  <2>1. R \in SUBSET Nat /\ IsFiniteSet(R) /\ x \in R /\ x \in Nat \ {0}
    BY RowsAre
  <2>2. limit \in Nat \ {0}
    OBVIOUS
  <2>3. s = Paged(R, limit)[0]
    BY PagesArePaged
  <2> HIDE DEF R, s
  <2>4. OnePage(R, s, 0)
    BY <2>1, <2>2, <2>3, PagesAreExact
  <2>5. PICK i \in DOMAIN s : \A j \in DOMAIN s : x \in s[j] <=> j = i
    BY <2>1, <2>4 DEF OnePage
  <2>6. {j \in DOMAIN s : x \in s[j]} = {i}
    BY <2>5
  <2>7. Cardinality({j \in DOMAIN s : x \in s[j]}) = 1
    BY <2>6, FS_Singleton
  <2> QED BY <2>7 DEF s
<1> QED BY <1>2, <1>3 DEF AnswersWhole

\* Whatever the writers have left, an answer that is not marked truncated is whole, and the
\* pages of a layer hold every feature of it once, for every set of ids and every limit.
THEOREM AnswersAreWhole == EntitiesSpec => []AnswersWhole
BY AnswersFollow, EntitiesInvInit, EntitiesInvStep, PTL DEF EntitiesSpec

-----------------------------------------------------------------------------
(* The published tiles. *)

\* What a layer is made of cannot change any more.
Settled(layer) ==
  CASE layer = "source" -> version = "ready"
    [] layer = "existing" -> runState = "succeeded" /\ LinkedReady
    [] layer = "generated" -> runState = "succeeded"

\* A ready version has no attempt left that could write; what a request has found out
\* so far is still so; what was served is settled.
TilesInv ==
  /\ version = "ready" => ingesting.at = "idle"
  /\ tile.at # "idle" => tile.layer \in TileLayers
  /\ tile.at = "status" => ~tile.immutable
  /\ tile.at = "links" => tile.layer = "existing" /\ runState = "succeeded"
  /\ tile.at = "encode" /\ tile.immutable => Settled(tile.layer)
  /\ \A layer \in TileLayers : served[layer] # Nobody => Settled(layer)
  /\ served \in [TileLayers -> Nat \cup {Nobody}]
  /\ tile \in [at : {"idle", "status", "links", "encode"}, layer : TileLayers \cup {Nobody},
               crs : Crs \cup {Nobody}, immutable : BOOLEAN]
  /\ projectCrs \in Crs /\ runCrs \in Crs
  /\ ingesting \in [at : {"idle", "executing", "inserted", "completing"}, crs : Crs \cup {Nobody}]
  /\ sourceRows.write \in Nat /\ runRows \in Nat
  /\ TilesFrozen

LEMMA TilesInvInit == TilesInit => TilesInv
BY DEF TilesInit, TilesInv, TilesFrozen, TileLayers, NoRequest, NoAttempt, Settled

\* While the server goes on, a settled layer stays settled and what it is made of is the same.
StoreGoesOn ==
  /\ version = "ready" => UNCHANGED <<version, sourceRows, ingesting>>
  /\ runState = "succeeded" => UNCHANGED <<runState, linked, runRows>>
  /\ version' = "ready" => ingesting'.at = "idle"
  /\ projectCrs' \in Crs /\ runCrs' \in Crs
  /\ ingesting' \in [at : {"idle", "executing", "inserted", "completing"}, crs : Crs \cup {Nobody}]
  /\ sourceRows'.write \in Nat /\ runRows' \in Nat

LEMMA SettledStays ==
  ASSUME StoreGoesOn, NEW layer \in TileLayers, Settled(layer)
  PROVE Settled(layer)' /\ Found(layer)' = Found(layer)
<1>1. CASE layer = "source"
  BY <1>1 DEF StoreGoesOn, Settled, Found
<1>2. CASE layer = "existing"
  BY <1>2 DEF StoreGoesOn, Settled, Found, LinkedReady
<1>3. CASE layer = "generated"
  BY <1>3 DEF StoreGoesOn, Settled, Found
<1> QED BY <1>1, <1>2, <1>3 DEF TileLayers

LEMMA StoreKeeps ==
  ASSUME TilesInv, StoreGoesOn, UNCHANGED clientVars
  PROVE TilesInv'
<1>1. \A layer \in TileLayers :
        Settled(layer) => Settled(layer)' /\ Found(layer)' = Found(layer)
  BY SettledStays
<1>2. UNCHANGED <<tile, served>>
  BY DEF clientVars
<1>3. \A layer \in TileLayers : served'[layer] # Nobody => Settled(layer)'
  BY <1>1, <1>2 DEF TilesInv
<1>4. TilesFrozen'
  BY <1>1, <1>2 DEF TilesInv, TilesFrozen
<1>5. tile'.at = "encode" /\ tile'.immutable => Settled(tile.layer)'
  BY <1>1, <1>2 DEF TilesInv
<1> QED BY <1>2, <1>3, <1>4, <1>5 DEF TilesInv, StoreGoesOn

LEMMA ServerStep ==
  ASSUME TilesInv,
         \/ \E crs \in Crs : PatchCrs(crs)
         \/ ClaimIngest \/ InsertRows \/ CommitRows \/ CompleteIngest \/ FailIngest
         \/ WriteRun \/ Link \/ \E outcome \in {"succeeded", "failed"} : EndRun(outcome)
  PROVE StoreGoesOn /\ UNCHANGED clientVars
<1> USE DEF TilesInv, StoreGoesOn, projectVars, ingestVars, runVars, NoAttempt
<1>1. CASE \E crs \in Crs : PatchCrs(crs)
  BY <1>1 DEF PatchCrs
<1>2. CASE ClaimIngest
  BY <1>2 DEF ClaimIngest
<1>3. CASE InsertRows
  BY <1>3 DEF InsertRows
<1>4. CASE CommitRows
  BY <1>4 DEF CommitRows
<1>5. CASE CompleteIngest \/ FailIngest
  BY <1>5 DEF CompleteIngest, FailIngest
<1>6. CASE WriteRun \/ Link \/ \E outcome \in {"succeeded", "failed"} : EndRun(outcome)
  BY <1>6 DEF WriteRun, Link, EndRun
<1> QED BY <1>1, <1>2, <1>3, <1>4, <1>5, <1>6

LEMMA RequestKeeps ==
  ASSUME TilesInv,
         (\E layer \in TileLayers : TileContext(layer)) \/ TileStatus \/ TileLinks \/ TileFails
  PROVE TilesInv'
<1>1. UNCHANGED <<storeVars, served>>
  BY DEF TileContext, TileStatus, TileLinks, TileFails
<1>2. \A layer \in TileLayers : (Settled(layer)' <=> Settled(layer)) /\ Found(layer)' = Found(layer)
  BY <1>1 DEF storeVars, ingestVars, runVars, Settled, Found, LinkedReady, TileLayers
<1>3. TilesFrozen' /\ \A layer \in TileLayers : served'[layer] # Nobody => Settled(layer)'
  BY <1>1, <1>2 DEF TilesInv, TilesFrozen
<1>4. /\ tile'.at # "idle" => tile'.layer \in TileLayers
      /\ tile'.at = "status" => ~tile'.immutable
      /\ tile'.at = "links" => tile'.layer = "existing" /\ runState = "succeeded"
      /\ tile'.at = "encode" /\ tile'.immutable => Settled(tile'.layer)
      /\ tile' \in [at : {"idle", "status", "links", "encode"}, layer : TileLayers \cup {Nobody},
                    crs : Crs \cup {Nobody}, immutable : BOOLEAN]
  <2>1. CASE \E layer \in TileLayers : TileContext(layer)
    BY <2>1 DEF TileContext, TilesInv
  <2>2. CASE TileStatus
    <3>1. OwnerPublished \in BOOLEAN
      BY DEF OwnerPublished
    <3>2. tile.layer \in TileLayers
      BY <2>2 DEF TileStatus, TilesInv
    <3>3. CASE tile.layer = "existing" /\ OwnerPublished
      BY <2>2, <3>1, <3>3 DEF TileStatus, OwnerPublished, TilesInv
    <3>4. CASE ~(tile.layer = "existing" /\ OwnerPublished)
      <4>1. tile'.at = "encode" /\ tile'.layer = tile.layer /\ tile'.immutable = OwnerPublished
        BY <2>2, <3>1, <3>4 DEF TileStatus, TilesInv
      <4>2. OwnerPublished => Settled(tile.layer)
        BY <3>2, <3>4 DEF OwnerPublished, Settled, TileLayers
      <4> QED BY <2>2, <3>1, <3>2, <4>1, <4>2 DEF TileStatus, TilesInv
    <3> QED BY <3>3, <3>4
  <2>3. CASE TileLinks
    <3>1. LinkedReady \in BOOLEAN
      BY DEF LinkedReady
    <3>2. /\ tile'.at = "encode" /\ tile'.layer = tile.layer /\ tile'.immutable = LinkedReady
          /\ tile.layer = "existing" /\ runState = "succeeded"
      BY <2>3, <3>1 DEF TileLinks, TilesInv
    <3>3. LinkedReady => Settled(tile.layer)
      BY <3>2 DEF Settled
    <3> QED BY <2>3, <3>1, <3>2, <3>3 DEF TileLinks, TilesInv, TileLayers
  <2>4. CASE TileFails
    BY <2>4 DEF TileFails, NoRequest
  <2> QED BY <2>1, <2>2, <2>3, <2>4
<1>5. tile'.at = "encode" /\ tile'.immutable => Settled(tile.layer)'
  <2>1. UNCHANGED <<version, runState, linked>>
    BY <1>1 DEF storeVars, ingestVars, runVars
  <2> QED BY <1>4, <2>1 DEF Settled, LinkedReady
<1>6. UNCHANGED <<projectCrs, runCrs, version, ingesting, sourceRows, linked, runState, runRows,
                  served>>
  BY <1>1 DEF storeVars, projectVars, ingestVars, runVars
<1> QED BY <1>3, <1>4, <1>5, <1>6 DEF TilesInv

LEMMA ServedKeeps == ASSUME TilesInv, TileEncode PROVE TilesInv'
<1>1. /\ UNCHANGED storeVars /\ tile' = NoRequest
      /\ served' = IF tile.immutable THEN [served EXCEPT ![tile.layer] = Found(tile.layer)]
                   ELSE served
  BY DEF TileEncode
<1>2. \A layer \in TileLayers : (Settled(layer)' <=> Settled(layer)) /\ Found(layer)' = Found(layer)
  BY <1>1 DEF storeVars, ingestVars, runVars, Settled, Found, LinkedReady, TileLayers
<1>3. tile.layer \in TileLayers /\ (tile.immutable => Settled(tile.layer))
  BY DEF TileEncode, TilesInv
<1>4. Found(tile.layer) \in Nat
  BY <1>3 DEF TilesInv, Found, TileLayers
<1>5. served' \in [TileLayers -> Nat \cup {Nobody}]
  BY <1>1, <1>3, <1>4 DEF TilesInv
<1>6. \A layer \in TileLayers :
        \/ served'[layer] = served[layer]
        \/ served'[layer] = Found(layer) /\ Settled(layer)
  BY <1>1, <1>3 DEF TilesInv
<1>7. TilesFrozen' /\ \A layer \in TileLayers : served'[layer] # Nobody => Settled(layer)'
  BY <1>2, <1>6 DEF TilesInv, TilesFrozen
<1> QED
  BY <1>1, <1>5, <1>7
     DEF TilesInv, NoRequest, storeVars, projectVars, ingestVars, runVars

LEMMA TilesInvStep == TilesInv /\ [TilesNext]_tileVars => TilesInv'
<1> SUFFICES ASSUME TilesInv, [TilesNext]_tileVars PROVE TilesInv'
  OBVIOUS
<1>1. CASE UNCHANGED tileVars
  <2>1. StoreGoesOn /\ UNCHANGED clientVars
    BY <1>1 DEF tileVars, projectVars, ingestVars, runVars, clientVars, StoreGoesOn, TilesInv
  <2> QED BY <2>1, StoreKeeps
<1> QED BY <1>1, ServerStep, StoreKeeps, RequestKeeps, ServedKeeps DEF TilesNext

\* A tile that was served as immutable contains what its layer contains, for good: the
\* ingest, the links and the outcome of the run cannot undo what three statements read.
THEOREM ServedTilesAreFrozen == TilesSpec => []TilesFrozen
<1>1. TilesInv => TilesFrozen
  BY DEF TilesInv
<1> QED BY <1>1, TilesInvInit, TilesInvStep, PTL DEF TilesSpec

-----------------------------------------------------------------------------
(* The browser workspace: what a selection and a panel may be. *)

Things == Projects \cup Versions \cup Runs \cup {None}
Known(sel) ==
  sel \in [project : Projects \cup {None}, version : Versions \cup {None},
           run : Runs \cup {None}]

Models == {"idle", "loading", "ready", "not_ready", "error"}
PanelState ==
  [listing : BOOLEAN, listed : SUBSET Runs, local : Things,
   loading : {None} \cup [run : Things, layers : SUBSET {1, 2}], failed : BOOLEAN,
   inspecting : Things, detail : Things, model : Models, shown : [{1, 2} -> Things]]

Owners(sel) ==
  IF sel.run = None THEN RunsOf(sel.project) ELSE {sel.run} \cap RunsOf(sel.project)

MapParts == AbortsOnReload
DetailParts == {"roads", "infrastructure", "violations"}

\* What is on the map and what is asked for it belong to one of the owners.
ViewOf(q, owners) ==
  /\ q.loading # None => q.loading.run \in owners
  /\ q.shown \in [{1, 2} -> owners \cup {None}]
RunsKnown(q, project) ==
  q.listed \subseteq RunsOf(project) /\ q.local \in RunsOf(project) \cup {None}
DetailOf(q, run) == q.detail \in {run, None} /\ q.inspecting \in {run, None}
\* The metrics of demography are only cleared with the pin.
DetailRight(q, run, owners) ==
  /\ part \in DetailParts => DetailOf(q, run)
  /\ part = "demography" => q.detail \in owners \cup {None} /\ q.inspecting \in {run, None}

\* A step of a panel that leaves alone what does not concern the viewport.
Beside(q, r) ==
  /\ r.listing = q.listing /\ r.listed = q.listed /\ r.local = q.local
  /\ r.inspecting = q.inspecting /\ r.detail = q.detail

LEMMA OwnersKnown ==
  ASSUME NEW sel, Known(sel)
  PROVE Owners(sel) \subseteq RunsOf(sel.project) /\ Owners(sel) \subseteq Things
BY DEF Owners, Known, RunsOf, Things

LEMMA NothingShown == Nothing \in [{1, 2} -> {None}] /\ \A l \in {1, 2} : Nothing[l] = None
BY DEF Nothing

LEMMA MountedIs ==
  ASSUME NEW project
  PROVE /\ Mounted(project) \in PanelState
        /\ Mounted(project).listed = {} /\ Mounted(project).local = None
        /\ project = None => Mounted(project).listing = FALSE
        /\ Mounted(project).loading = None /\ Mounted(project).shown = Nothing
        /\ Mounted(project).inspecting = None /\ Mounted(project).detail = None
<1>1. Nothing \in [{1, 2} -> Things] /\ None \in Things
  BY NothingShown DEF Things
<1> QED BY <1>1 DEF Mounted, PanelState, Models

LEMMA AbortedIs ==
  ASSUME NEW q \in PanelState
  PROVE /\ Aborted(q) \in PanelState /\ Beside(q, Aborted(q))
        /\ Aborted(q).loading = None /\ Aborted(q).shown = q.shown /\ Aborted(q).model = q.model
BY DEF Aborted, PanelState, Beside

LEMMA RequestIs ==
  ASSUME NEW q \in PanelState, NEW run \in Things, NEW layers \in SUBSET {1, 2}
  PROVE /\ Request(q, run, layers) \in PanelState /\ Beside(q, Request(q, run, layers))
        /\ Request(q, run, layers).loading.run = run
        /\ Request(q, run, layers).shown = q.shown
BY DEF Request, PanelState, Beside

LEMMA ShowingIs ==
  ASSUME NEW q \in PanelState, NEW shown \in [{1, 2} -> Things]
  PROVE LET r == [q EXCEPT !.shown = shown]
        IN  r \in PanelState /\ Beside(q, r) /\ r.loading = q.loading /\ r.shown = shown
BY DEF PanelState, Beside

-----------------------------------------------------------------------------
(* The parts whose layers are of a run. *)

\* A viewport request, or its refusal, keeps the view with its owners.
LoadsOwn(q, r, owners) == r \in PanelState /\ Beside(q, r) /\ ViewOf(r, owners)

LEMMA AbortKeepsView ==
  ASSUME NEW q \in PanelState, NEW owners, ViewOf(q, owners)
  PROVE LoadsOwn(q, Aborted(q), owners)
BY AbortedIs DEF ViewOf, LoadsOwn

LEMMA RequestKeepsView ==
  ASSUME NEW q \in PanelState, NEW owners, ViewOf(q, owners), NEW run \in owners, run \in Things,
         NEW layers \in SUBSET {1, 2}
  PROVE LoadsOwn(q, Request(q, run, layers), owners)
BY RequestIs DEF ViewOf, LoadsOwn

LEMMA ShowingKeepsView ==
  ASSUME NEW q \in PanelState, NEW owners \in SUBSET Things, ViewOf(q, owners),
         NEW shown \in [{1, 2} -> owners \cup {None}]
  PROVE LoadsOwn(q, [q EXCEPT !.shown = shown], owners)
<1>1. shown \in [{1, 2} -> Things]
  BY DEF Things
<1> QED BY <1>1, ShowingIs DEF ViewOf, LoadsOwn

LEMMA EmptyingKeepsView ==
  ASSUME NEW q \in PanelState, NEW owners \in SUBSET Things, ViewOf(q, owners)
  PROVE /\ LoadsOwn(q, [q EXCEPT !.shown = Nothing], owners)
        /\ LoadsOwn(q, [Aborted(q) EXCEPT !.shown = Nothing], owners)
<1>1. Nothing \in [{1, 2} -> owners \cup {None}]
  BY NothingShown
<1>2. LoadsOwn(q, Aborted(q), owners)
  BY AbortKeepsView
<1>3. LoadsOwn(Aborted(q), [Aborted(q) EXCEPT !.shown = Nothing], owners)
  BY <1>1, <1>2, ShowingKeepsView DEF LoadsOwn
<1> QED BY <1>1, <1>2, <1>3, ShowingKeepsView DEF LoadsOwn, Beside

LEMMA LoadKeepsView ==
  ASSUME NEW q \in PanelState, NEW owners \in SUBSET Things, ViewOf(q, owners),
         NEW run \in owners \cup {None}, NEW seen \in SUBSET {1, 2}, part \in MapParts
  PROVE LoadsOwn(q, Load(q, run, seen), owners)
<1>1. LoadsOwn(q, q, owners)
  BY DEF LoadsOwn, Beside
<1>2. \A layers \in SUBSET {1, 2} : run # None => LoadsOwn(q, Request(q, run, layers), owners)
  BY RequestKeepsView
<1>3. /\ LoadsOwn(q, [q EXCEPT !.shown = Nothing], owners)
      /\ LoadsOwn(q, [Aborted(q) EXCEPT !.shown = Nothing], owners)
  BY EmptyingKeepsView
<1>4. LoadsOwn(q, LoadZones(q, run, seen), owners)
  BY <1>2, <1>3 DEF LoadZones
<1>5. LoadsOwn(q, LoadParcels(q, run, seen), owners)
  <2>1. CASE run # None /\ seen # {}
    <3> DEFINE asked == Request(q, run, seen)
               kept == [asked.shown EXCEPT ![1] = IF 1 \in seen THEN @ ELSE None]
    <3>1. LoadsOwn(q, asked, owners)
      BY <1>2, <2>1
    <3>2. kept \in [{1, 2} -> owners \cup {None}]
      BY <3>1 DEF LoadsOwn, ViewOf
    <3>3. LoadParcels(q, run, seen) = [asked EXCEPT !.shown = kept]
      BY <2>1, <3>1 DEF LoadParcels, LoadsOwn
    <3> HIDE DEF asked, kept
    <3>4. LoadsOwn(asked, [asked EXCEPT !.shown = kept], owners)
      BY <3>1, <3>2, ShowingKeepsView DEF LoadsOwn
    <3> QED BY <3>1, <3>3, <3>4 DEF LoadsOwn, Beside
  <2>2. CASE ~(run # None /\ seen # {})
    BY <1>1, <1>3, <2>2 DEF LoadParcels
  <2> QED BY <2>1, <2>2
<1>6. LoadsOwn(q, LoadDemography(q, run, seen), owners)
  BY <1>1, <1>2 DEF LoadDemography
<1>7. LoadsOwn(q, LoadInfrastructure(q, run, seen), owners)
  <2> DEFINE wanted == IF q.model = "ready" THEN seen ELSE seen \ {2}
  <2>1. wanted \in SUBSET {1, 2}
    OBVIOUS
  <2> HIDE DEF wanted
  <2>2. LoadInfrastructure(q, run, seen) =
          IF run = None THEN q
          ELSE IF wanted = {} THEN [Aborted(q) EXCEPT !.shown = Nothing]
          ELSE Request(q, run, wanted)
    BY DEF LoadInfrastructure, wanted
  <2> QED BY <1>1, <1>2, <1>3, <2>1, <2>2
<1>8. LoadsOwn(q, LoadViolations(q, run, seen), owners)
  BY <1>2, <1>3 DEF LoadViolations
<1> QED BY <1>4, <1>5, <1>6, <1>7, <1>8 DEF Load, LoadRoads, MapParts, AbortsOnReload

LEMMA ReloadKeepsView ==
  ASSUME NEW q \in PanelState, NEW owners \in SUBSET Things, ViewOf(q, owners),
         NEW run \in owners \cup {None}, NEW seen \in SUBSET {1, 2}, part \in MapParts
  PROVE LoadsOwn(q, Reload(q, run, seen), owners)
<1>1. LoadsOwn(q, Aborted(q), owners)
  BY AbortKeepsView
<1>2. LoadsOwn(Aborted(q), Load(Aborted(q), run, seen), owners)
  BY <1>1, LoadKeepsView DEF LoadsOwn
<1>3. Reload(q, run, seen) = Load(Aborted(q), run, seen)
  BY DEF Reload, MapParts
<1> QED BY <1>1, <1>2, <1>3 DEF LoadsOwn, Beside

LEMMA InspectIs ==
  ASSUME NEW q \in PanelState, NEW run \in Things, part \in MapParts
  PROVE LET r == Inspect(q, run)
        IN  /\ r \in PanelState
            /\ r.listing = q.listing /\ r.listed = q.listed /\ r.local = q.local
            /\ r.loading = q.loading /\ r.shown = q.shown
            /\ part \in DetailParts => DetailOf(r, run)
            /\ part = "demography" => r.detail = q.detail /\ r.inspecting = run
<1>1. CASE part \in {"roads", "violations"}
  <2>1. Inspect(q, run) = [q EXCEPT !.detail = None, !.inspecting = run]
    BY <1>1 DEF Inspect, InspectRoads, InspectViolations
  <2>2. None \in Things /\ part # "demography"
    BY <1>1 DEF Things
  <2> QED BY <2>1, <2>2 DEF PanelState, DetailOf
<1>2. CASE part = "infrastructure"
  <2>1. Inspect(q, run) = [q EXCEPT !.detail = None, !.inspecting = run,
                                    !.model = IF run = None THEN "idle" ELSE "loading"]
    BY <1>2 DEF Inspect, InspectInfrastructure
  <2>2. /\ None \in Things /\ (IF run = None THEN "idle" ELSE "loading") \in Models
        /\ part # "demography"
    BY <1>2 DEF Things, Models
  <2> QED BY <2>1, <2>2 DEF PanelState, DetailOf
<1>3. CASE part = "demography"
  <2>1. Inspect(q, run) = [q EXCEPT !.inspecting = run] /\ part \notin DetailParts
    BY <1>3 DEF Inspect, InspectDemography, DetailParts
  <2> QED BY <2>1 DEF PanelState
<1>4. CASE part \in {"zoning", "parcels"}
  BY <1>4 DEF Inspect, DetailParts
<1> QED BY <1>1, <1>2, <1>3, <1>4 DEF MapParts, AbortsOnReload

LEMMA PinEffectIs ==
  ASSUME NEW q \in PanelState, part \in MapParts, NEW run, DetailOf(q, run) \/ part \notin DetailParts
  PROVE LET r == PinEffect(q)
        IN  /\ r \in PanelState
            /\ r.listing = q.listing /\ r.listed = q.listed /\ r.local = q.local
            /\ r.loading = None /\ r.shown = Nothing
            /\ part \in DetailParts => DetailOf(r, run)
            /\ part = "demography" => r.detail = None /\ r.inspecting = q.inspecting
<1>1. None \in Things /\ Nothing \in [{1, 2} -> Things]
  BY NothingShown DEF Things
<1>2. part # "buildings"
  BY DEF MapParts, AbortsOnReload
<1> DEFINE a == Aborted(q)
<1>3. /\ a \in PanelState /\ a.listing = q.listing /\ a.listed = q.listed /\ a.local = q.local
      /\ a.inspecting = q.inspecting /\ a.detail = q.detail /\ a.loading = None
  BY AbortedIs DEF Beside
<1> HIDE DEF a
<1>4. a.listing \in BOOLEAN
  BY <1>3 DEF PanelState
<1>5. PinEffect(q) =
        [a EXCEPT !.shown = Nothing,
           !.listing = @ /\ part # "buildings",
           !.inspecting = IF part \in {"roads", "infrastructure", "violations"} THEN None ELSE @,
           !.detail = IF part \in {"demography", "infrastructure", "violations"} THEN None ELSE @]
  BY DEF PinEffect, a
<1>6. PinEffect(q) =
        [a EXCEPT !.shown = Nothing,
           !.inspecting = IF part \in {"roads", "infrastructure", "violations"} THEN None ELSE @,
           !.detail = IF part \in {"demography", "infrastructure", "violations"} THEN None ELSE @]
  BY <1>2, <1>3, <1>4, <1>5 DEF PanelState
<1> DEFINE asked == IF part \in DetailParts THEN None ELSE a.inspecting
           known == IF part \in {"demography", "infrastructure", "violations"} THEN None
                    ELSE a.detail
<1>7. /\ asked \in Things /\ known \in Things
      /\ part \in DetailParts => asked = None /\ known \in {None, q.detail}
      /\ part = "demography" => asked = q.inspecting /\ known = None
  BY <1>1, <1>3 DEF PanelState, DetailParts
<1>8. PinEffect(q) = [a EXCEPT !.shown = Nothing, !.inspecting = asked, !.detail = known]
  BY <1>6 DEF DetailParts
<1> HIDE DEF asked, known
<1> DEFINE r == PinEffect(q)
<1>9. r \in PanelState
  BY <1>1, <1>3, <1>7, <1>8 DEF PanelState
<1>10. /\ r.listing = q.listing /\ r.listed = q.listed /\ r.local = q.local
       /\ r.loading = None /\ r.shown = Nothing /\ r.inspecting = asked /\ r.detail = known
  BY <1>3, <1>8 DEF PanelState
<1> HIDE DEF r
<1> SUFFICES /\ r \in PanelState
             /\ r.listing = q.listing /\ r.listed = q.listed /\ r.local = q.local
             /\ r.loading = None /\ r.shown = Nothing
             /\ part \in DetailParts => DetailOf(r, run)
             /\ part = "demography" => r.detail = None /\ r.inspecting = q.inspecting
  BY DEF r
<1> QED BY <1>3, <1>7, <1>9, <1>10 DEF DetailOf

\* The invariant of a panel of such a part under a selection.
MapPanel(q, sel) ==
  /\ q \in PanelState
  /\ RunsKnown(q, sel.project)
  /\ ViewOf(q, Owners(sel))
  /\ DetailRight(q, ResolveMapRun(q, sel.run), Owners(sel))

LEMMA ResolvedIs ==
  ASSUME NEW q, NEW sel, Known(sel), RunsKnown(q, sel.project)
  PROVE ResolveMapRun(q, sel.run) \in Owners(sel) \cup {None}
BY DEF ResolveMapRun, Owners, RunsKnown, Known

\* What the render of a new selection or of new state of the panel leaves behind.
LEMMA RenderKeeps ==
  ASSUME Known(selection), NEW next, Known(next), next.project = selection.project,
         part \in MapParts, NEW seen \in SUBSET {1, 2},
         NEW q \in PanelState, RunsKnown(q, selection.project), ViewOf(q, Owners(selection)),
         DetailRight(q, ResolveMapRun(panel, selection.run), Owners(selection))
  PROVE MapPanel(Rendered(q, next.run, seen), next)
<1> DEFINE before == ResolveMapRun(panel, selection.run)
           run == ResolveMapRun(q, next.run)
           cleared == IF next.run # selection.run THEN PinEffect(q) ELSE q
           inspected == IF run # before THEN Inspect(cleared, run) ELSE cleared
           owners == Owners(next)
<1>1. /\ run \in owners \cup {None} /\ owners \in SUBSET Things /\ None \in Things
  BY ResolvedIs, OwnersKnown DEF Things
<1>2. /\ cleared \in PanelState /\ ViewOf(cleared, owners)
      /\ cleared.listed = q.listed /\ cleared.local = q.local
      /\ DetailRight(cleared, before, owners)
  <2>1. CASE next.run # selection.run
    <3>1. DetailOf(q, before) \/ part \notin DetailParts
      BY DEF DetailRight
    <3>2. cleared = PinEffect(q)
      BY <2>1
    <3> HIDE DEF before, cleared, owners
    <3>3. /\ cleared \in PanelState /\ cleared.loading = None /\ cleared.shown = Nothing
          /\ cleared.listed = q.listed /\ cleared.local = q.local
          /\ part \in DetailParts => DetailOf(cleared, before)
          /\ part = "demography" => cleared.detail = None /\ cleared.inspecting = q.inspecting
      BY <3>1, <3>2, PinEffectIs
    <3>4. ViewOf(cleared, owners)
      BY <3>3, NothingShown DEF ViewOf
    <3>5. DetailRight(cleared, before, owners)
      BY <3>3 DEF DetailRight, before
    <3> QED BY <3>3, <3>4, <3>5
  <2>2. CASE next.run = selection.run
    BY <2>2 DEF Owners
  <2> QED BY <2>1, <2>2
<1> HIDE DEF cleared
<1>3. /\ inspected \in PanelState /\ ViewOf(inspected, owners)
      /\ inspected.listed = q.listed /\ inspected.local = q.local
      /\ DetailRight(inspected, run, owners)
  <2>1. CASE run # before
    <3>1. run \in Things
      BY <1>1
    <3> HIDE DEF run, before
    <3> QED BY <1>2, <2>1, <3>1, InspectIs DEF ViewOf, DetailRight
  <2>2. CASE run = before
    BY <1>2, <2>2
  <2> QED BY <2>1, <2>2
<1>4. \/ Rendered(q, next.run, seen) = Reload(inspected, run, seen)
      \/ Rendered(q, next.run, seen) = inspected
  BY DEF Rendered, cleared
<1> HIDE DEF run, before, inspected, owners
<1>5. LoadsOwn(inspected, Rendered(q, next.run, seen), owners)
  <2>1. LoadsOwn(inspected, inspected, owners)
    BY <1>3 DEF LoadsOwn, Beside
  <2> QED BY <1>1, <1>3, <1>4, <2>1, ReloadKeepsView
<1>6. /\ RunsKnown(Rendered(q, next.run, seen), next.project)
      /\ ResolveMapRun(Rendered(q, next.run, seen), next.run) = run
  BY <1>3, <1>5 DEF LoadsOwn, Beside, RunsKnown, ResolveMapRun, run
<1> QED BY <1>3, <1>5, <1>6 DEF MapPanel, LoadsOwn, Beside, DetailOf, DetailRight, owners

-----------------------------------------------------------------------------
(* The source layers and the metrics. *)

SourcesPanel(q, sel) ==
  /\ q \in PanelState
  /\ ~q.listing /\ q.listed = {}
  /\ q.loading # None => q.loading.run = sel.version
  /\ q.shown[1] \in {None, sel.version} /\ q.shown[2] \in {None, sel.project}
  /\ q.inspecting \in {None, sel.project}

LEMMA LoadSourcesKeeps ==
  ASSUME NEW sel, Known(sel), NEW q, SourcesPanel(q, sel), NEW seen
  PROVE SourcesPanel(LoadSources(q, sel.version, seen), sel)
<1>1. sel.version \in Things
  BY DEF Known, Things
<1>2. SourcesPanel(Aborted(q), sel)
  BY AbortedIs DEF SourcesPanel, Beside
<1>3. SourcesPanel(Request(q, sel.version, {1}), sel)
  BY <1>1, RequestIs DEF SourcesPanel, Beside
<1> QED BY <1>2, <1>3 DEF LoadSources

LEMMA SourcesRenderKeeps ==
  ASSUME Known(selection), SourcesPanel(panel, selection), NEW next, Known(next), NEW seen
  PROVE SourcesPanel(SourcesRendered(next, seen), next)
<1> DEFINE fresh == next.version # selection.version
           cleared == IF fresh THEN [Aborted(panel) EXCEPT !.shown[1] = None] ELSE panel
           bounded == IF next.project = selection.project THEN cleared
                      ELSE [cleared EXCEPT !.shown[2] = None, !.inspecting = next.project]
<1>1. /\ None \in Things /\ next.project \in Things
  BY DEF Known, Things
<1>2. /\ cleared \in PanelState /\ ~cleared.listing /\ cleared.listed = {}
      /\ cleared.loading # None => cleared.loading.run = next.version
      /\ cleared.shown[1] \in {None, next.version} /\ cleared.shown[2] = panel.shown[2]
      /\ cleared.inspecting = panel.inspecting
  <2>1. CASE fresh
    <3> DEFINE a == Aborted(panel)
    <3>1. /\ a \in PanelState /\ ~a.listing /\ a.listed = {} /\ a.loading = None
          /\ a.shown = panel.shown /\ a.inspecting = panel.inspecting
      BY AbortedIs DEF SourcesPanel, Beside
    <3> HIDE DEF a
    <3>2. cleared = [a EXCEPT !.shown[1] = None]
      BY <2>1 DEF a
    <3> QED BY <1>1, <3>1, <3>2 DEF PanelState
  <2>2. CASE ~fresh
    BY <2>2 DEF SourcesPanel
  <2> QED BY <2>1, <2>2
<1> HIDE DEF cleared
<1>3. SourcesPanel(bounded, next)
  <2>1. CASE next.project = selection.project
    BY <1>2, <2>1 DEF SourcesPanel
  <2>2. CASE next.project # selection.project
    <3>1. bounded = [cleared EXCEPT !.shown[2] = None, !.inspecting = next.project]
      BY <2>2
    <3> HIDE DEF bounded
    <3> QED BY <1>1, <1>2, <3>1 DEF SourcesPanel, PanelState
  <2> QED BY <2>1, <2>2
<1>4. \/ SourcesRendered(next, seen) = LoadSources(bounded, next.version, seen)
      \/ SourcesRendered(next, seen) = bounded
  BY DEF SourcesRendered, cleared
<1> HIDE DEF bounded
<1> QED BY <1>3, <1>4, LoadSourcesKeeps

MetricsPanel(q, sel) ==
  /\ q \in PanelState
  /\ RunsKnown(q, sel.project)
  /\ q.shown = Nothing
  /\ q.listing => q.listed = {}
  /\ DetailOf(q, q.local)
  /\ sel.run \in q.listed => q.local = sel.run

LEMMA MetricsRenderKeeps ==
  ASSUME Known(selection), MetricsPanel(panel, selection), NEW next, Known(next),
         next.project = selection.project,
         NEW q \in PanelState, RunsKnown(q, selection.project), q.shown = Nothing,
         q.listing => q.listed = {}, DetailOf(q, panel.local),
         q.listed = panel.listed /\ next.run = selection.run /\ next.run \in q.listed =>
           q.local = next.run
  PROVE MetricsPanel(MetricsRendered(q, next.run), next)
<1> DEFINE run == IF next.run \in q.listed /\ (next.run # selection.run \/ q.listed # panel.listed)
                  THEN next.run ELSE q.local
           r == MetricsRendered(q, next.run)
<1>1. /\ run \in RunsOf(next.project) \cup {None}
      /\ next.run \in q.listed => run = next.run
  BY DEF RunsKnown
<1>2. run \in Things /\ None \in Things
  BY <1>1 DEF RunsOf, Things
<1>3. r = IF run = panel.local THEN [q EXCEPT !.local = run]
          ELSE [[q EXCEPT !.detail = None, !.inspecting = run] EXCEPT !.local = run]
  BY DEF MetricsRendered, InspectMetrics
<1> HIDE DEF run, r
<1>4. /\ r \in PanelState /\ r.listed = q.listed /\ r.listing = q.listing /\ r.shown = q.shown
      /\ r.local = run
      /\ IF run = panel.local THEN r.detail = q.detail /\ r.inspecting = q.inspecting
         ELSE r.detail = None /\ r.inspecting = run
  BY <1>2, <1>3 DEF PanelState
<1>5. DetailOf(r, r.local)
  BY <1>4 DEF DetailOf, DetailRight
<1> QED BY <1>1, <1>4, <1>5 DEF MetricsPanel, RunsKnown, r

-----------------------------------------------------------------------------
(* The steps of the workspace. *)

PanelRight(q, sel) ==
  /\ part = "sources" => SourcesPanel(q, sel)
  /\ part = "metrics" => MetricsPanel(q, sel)
  /\ part \in MapParts => MapPanel(q, sel)

DisplayInv ==
  /\ Known(selection)
  /\ part \in MapParts \cup {"sources", "metrics", "buildings"}
  /\ visible \in SUBSET {1, 2}
  /\ orphans # {} => part = "buildings"
  /\ PanelRight(panel, selection)

LEMMA MountedRight ==
  ASSUME NEW sel, Known(sel), part # "sources"
  PROVE PanelRight(Mounted(sel.project), sel)
<1> DEFINE q == Mounted(sel.project)
<1>1. /\ q \in PanelState /\ q.listed = {} /\ q.local = None /\ q.loading = None
      /\ q.shown = Nothing /\ q.inspecting = None /\ q.detail = None
  BY MountedIs
<1> HIDE DEF q
<1>2. RunsKnown(q, sel.project) /\ DetailOf(q, q.local)
  BY <1>1 DEF RunsKnown, DetailOf, DetailRight
<1>3. ViewOf(q, Owners(sel))
  BY <1>1, NothingShown DEF ViewOf
<1>4. DetailRight(q, ResolveMapRun(q, sel.run), Owners(sel))
  BY <1>1 DEF DetailOf, DetailRight
<1> QED BY <1>1, <1>2, <1>3, <1>4 DEF PanelRight, MetricsPanel, MapPanel, q

LEMMA OpenedRight ==
  ASSUME NEW sel, Known(sel), NEW seen
  PROVE PanelRight(Opened(sel, seen), sel)
<1>1. CASE part = "sources"
  <2> DEFINE q == Mounted(None)
             bounded == [q EXCEPT !.inspecting = sel.project]
  <2>1. /\ q \in PanelState /\ q.listing = FALSE /\ q.listed = {} /\ q.loading = None
        /\ q.shown = Nothing
    BY MountedIs
  <2>2. sel.project \in Things /\ Nothing[1] = None /\ Nothing[2] = None
    BY NothingShown DEF Known, Things
  <2>3. Opened(sel, seen) = LoadSources(bounded, sel.version, seen)
    BY <1>1 DEF Opened
  <2> HIDE DEF q
  <2>4. SourcesPanel(bounded, sel)
    BY <2>1, <2>2 DEF SourcesPanel, PanelState
  <2>5. SourcesPanel(Opened(sel, seen), sel)
    BY <2>3, <2>4, LoadSourcesKeeps
  <2> QED BY <1>1, <2>5 DEF PanelRight, MapParts, AbortsOnReload
<1>2. CASE part # "sources"
  BY <1>2, MountedRight DEF Opened
<1> QED BY <1>1, <1>2

LEMMA EffectsRight ==
  ASSUME DisplayInv, NEW next, Known(next), NEW seen \in SUBSET {1, 2},
         next.project = selection.project \/ part = "sources"
  PROVE PanelRight(Effects(panel, next, seen), next)
<1>1. CASE part = "sources"
  BY <1>1, SourcesRenderKeeps DEF DisplayInv, PanelRight, Effects, MapParts, AbortsOnReload
<1>2. CASE part = "metrics"
  <2>1. MetricsPanel(panel, selection)
    BY <1>2 DEF DisplayInv, PanelRight
  <2>2. MetricsPanel(MetricsRendered(panel, next.run), next)
    BY <1>2, <2>1, MetricsRenderKeeps DEF DisplayInv, MetricsPanel
  <2> QED BY <1>2, <2>2 DEF PanelRight, Effects, MapParts, AbortsOnReload
<1>3. CASE part \in MapParts
  <2>1. MapPanel(panel, selection)
    BY <1>3 DEF DisplayInv, PanelRight
  <2>2. part # "sources" /\ part # "metrics"
    BY <1>3 DEF MapParts, AbortsOnReload
  <2>3. MapPanel(Rendered(panel, next.run, seen), next)
    BY <1>3, <2>1, <2>2, RenderKeeps DEF DisplayInv, MapPanel
  <2> QED BY <1>3, <2>2, <2>3 DEF PanelRight, Effects
<1>4. CASE part = "buildings"
  BY <1>4 DEF PanelRight, MapParts, AbortsOnReload
<1> QED BY <1>1, <1>2, <1>3, <1>4 DEF DisplayInv

LEMMA DisplayFrame ==
  ASSUME DisplayInv, Known(selection'), visible' \in SUBSET {1, 2}, part' = part,
         orphans' # {} => part = "buildings", PanelRight(panel', selection')
  PROVE DisplayInv'
<1>1. PanelRight(panel, selection)'
  BY DEF PanelRight, SourcesPanel, MetricsPanel, MapPanel, DetailRight
<1> QED BY <1>1 DEF DisplayInv, Known

LEMMA CommitKeeps ==
  ASSUME DisplayInv, NEW next, Known(next), Commit(next)
  PROVE DisplayInv' /\ selection' = next
<1>1. UNCHANGED <<part, visible>> /\ selection' = next
  BY DEF Commit
<1>2. CASE Remounts(next)
  <2>1. part # "sources"
    BY <1>2 DEF Remounts
  <2>2. panel' = Mounted(next.project)
    BY <1>2 DEF Commit, Remount
  <2>3. orphans' # {} => part = "buildings"
    BY <1>2 DEF Commit, Remount, DisplayInv
  <2>4. PanelRight(panel', next)
    BY <2>1, <2>2, MountedRight
  <2> QED BY <1>1, <2>3, <2>4, DisplayFrame DEF DisplayInv
<1>3. CASE ~Remounts(next)
  <2>1. next.project = selection.project \/ part = "sources"
    BY <1>3 DEF Remounts
  <2>2. panel' = Effects(panel, next, visible) /\ UNCHANGED orphans
    BY <1>3 DEF Commit
  <2>3. PanelRight(panel', next)
    BY <2>1, <2>2, EffectsRight DEF DisplayInv
  <2> QED BY <1>1, <2>2, <2>3, DisplayFrame DEF DisplayInv
<1> QED BY <1>2, <1>3, <1>1

LEMMA PanelStep ==
  ASSUME DisplayInv, NEW q, PanelRight(q, selection), PanelBecomes(q)
  PROVE DisplayInv'
BY DisplayFrame DEF PanelBecomes, OfMap, DisplayInv

LEMMA KnownChoices ==
  ASSUME Known(selection)
  PROVE /\ \A run : run \in RunsOf(selection.project) \cup {None} =>
             /\ Known(SelectMapRun(selection, run))
             /\ SelectMapRun(selection, run).project = selection.project
             /\ SelectMapRun(selection, run).version = selection.version
             /\ SelectMapRun(selection, run).run = run
        /\ \A v \in Versions :
             Known([selection EXCEPT !.version = v, !.run = None])
BY DEF Known, SelectMapRun, RunsOf

LEMMA SelectionKeeps ==
  ASSUME DisplayInv,
         \/ \E p \in Projects : ChooseProject(p)
         \/ \E v \in Versions : ChooseVersion(v)
         \/ \E p \in Projects, v \in Versions \cup {None} : ApplyContext(p, v)
         \/ \E r \in Runs \cup {None} : PinRun(r)
  PROVE DisplayInv'
<1>1. ASSUME NEW p \in Projects, NEW v \in Versions \cup {None}
      PROVE Known([project |-> p, version |-> v, run |-> None])
  BY DEF Known
<1>2. CASE \E p \in Projects : ChooseProject(p)
  BY <1>1, <1>2, CommitKeeps DEF ChooseProject
<1>3. CASE \E v \in Versions : ChooseVersion(v)
  BY <1>3, CommitKeeps, KnownChoices DEF ChooseVersion, DisplayInv
<1>4. CASE \E p \in Projects, v \in Versions \cup {None} : ApplyContext(p, v)
  BY <1>1, <1>4, CommitKeeps DEF ApplyContext
<1>5. CASE \E r \in Runs \cup {None} : PinRun(r)
  BY <1>5, CommitKeeps, KnownChoices DEF PinRun, DisplayInv
<1> QED BY <1>2, <1>3, <1>4, <1>5

LEMMA ComparisonStepKeeps ==
  ASSUME DisplayInv, comparing # None => Known(comparing.selection),
         comparing # None => Head(comparing.runs) \in RunsOf(comparing.selection.project),
         \/ \E r \in Runs : ToggleRun(r) \/ ChangeBaseline(r)
         \/ RefreshComparison \/ Compare \/ CompareAnswers \/ CompareFails
  PROVE DisplayInv'
<1>1. CASE \E r \in Runs : ToggleRun(r) \/ ChangeBaseline(r)
  BY <1>1, CommitKeeps, KnownChoices DEF ToggleRun, ChangeBaseline, DisplayInv
<1>2. CASE RefreshComparison \/ Compare
  BY <1>2, CommitKeeps, KnownChoices DEF RefreshComparison, Compare, DisplayInv
<1>3. CASE CompareAnswers
  <2> DEFINE next == SelectMapRun(comparing.selection, Head(comparing.runs))
  <2>1. Known(next)
    BY <1>3 DEF CompareAnswers, Known, SelectMapRun, RunsOf
  <2> QED BY <1>3, <2>1, CommitKeeps DEF CompareAnswers
<1>4. CASE CompareFails
  BY <1>4, DisplayFrame DEF CompareFails, DisplayInv
<1> QED BY <1>1, <1>2, <1>3, <1>4

LEMMA ChangedPanel ==
  ASSUME DisplayInv, part \in MapParts, NEW q \in PanelState, RunsKnown(q, selection.project),
         ViewOf(q, Owners(selection)), DetailRight(q, SelectedRun, Owners(selection))
  PROVE PanelRight(Rendered(q, selection.run, visible), selection)
<1>1. MapPanel(Rendered(q, selection.run, visible), selection)
  BY RenderKeeps DEF DisplayInv, SelectedRun
<1> QED BY <1>1 DEF PanelRight, MapParts, AbortsOnReload

\* The list of runs, once per panel.
LEMMA ListKeeps == ASSUME DisplayInv, ListAnswers \/ ListFails PROVE DisplayInv'
<1>1. ASSUME NEW known \in SUBSET RunsOf(selection.project), NEW opened \in Runs \cup {None},
             IF known = {} THEN opened = None ELSE opened \in known, panel.listing,
             PanelBecomes(Effects([panel EXCEPT !.listing = FALSE, !.listed = known,
                                                !.local = opened], selection, visible))
      PROVE DisplayInv'
  <2> DEFINE q == [panel EXCEPT !.listing = FALSE, !.listed = known, !.local = opened]
  <2>1. /\ known \in SUBSET Runs /\ opened \in Things
        /\ opened \in RunsOf(selection.project) \cup {None}
    BY <1>1 DEF RunsOf, Things
  <2>2. ASSUME panel \in PanelState
        PROVE /\ q \in PanelState /\ q.listed = known /\ q.local = opened /\ ~q.listing
              /\ q.loading = panel.loading /\ q.shown = panel.shown
              /\ q.detail = panel.detail /\ q.inspecting = panel.inspecting
    BY <2>1, <2>2 DEF PanelState
  <2> HIDE DEF q
  <2>3. CASE part \in MapParts
    <3>1. MapPanel(panel, selection)
      BY <2>3 DEF DisplayInv, PanelRight
    <3>2. part # "sources" /\ part # "metrics"
      BY <2>3 DEF MapParts, AbortsOnReload
    <3>3. /\ q \in PanelState /\ RunsKnown(q, selection.project)
          /\ ViewOf(q, Owners(selection))
          /\ DetailRight(q, SelectedRun, Owners(selection))
      BY <2>1, <2>2, <3>1 DEF MapPanel, RunsKnown, ViewOf, DetailOf, DetailRight, SelectedRun
    <3>4. PanelRight(Rendered(q, selection.run, visible), selection)
      BY <2>3, <3>3, ChangedPanel
    <3> QED BY <1>1, <3>2, <3>4, PanelStep DEF Effects, q
  <2>4. CASE part = "metrics"
    <3>1. MetricsPanel(panel, selection)
      BY <2>4 DEF DisplayInv, PanelRight
    <3>2. /\ q \in PanelState /\ RunsKnown(q, selection.project) /\ q.shown = Nothing
          /\ ~q.listing /\ DetailOf(q, panel.local)
          /\ panel.listed = {}
      BY <1>1, <2>1, <2>2, <3>1 DEF MetricsPanel, RunsKnown, DetailOf, DetailRight
    <3>3. MetricsPanel(MetricsRendered(q, selection.run), selection)
      BY <3>1, <3>2, MetricsRenderKeeps DEF DisplayInv
    <3>4. PanelRight(MetricsRendered(q, selection.run), selection)
      BY <2>4, <3>3 DEF PanelRight, MapParts, AbortsOnReload
    <3> QED BY <1>1, <2>4, <3>4, PanelStep DEF Effects, q
  <2>5. CASE part = "sources"
    BY <1>1, <2>5 DEF DisplayInv, PanelRight, SourcesPanel
  <2>6. CASE part = "buildings"
    BY <1>1, <2>6, PanelStep DEF PanelRight, MapParts, AbortsOnReload
  <2> QED BY <2>3, <2>4, <2>5, <2>6 DEF DisplayInv
<1>2. CASE ListFails
  <2> DEFINE q == [panel EXCEPT !.listing = FALSE]
  <2>1. ASSUME panel \in PanelState
        PROVE /\ q \in PanelState /\ q.listed = panel.listed /\ q.local = panel.local
              /\ ~q.listing
              /\ q.loading = panel.loading /\ q.shown = panel.shown
              /\ q.detail = panel.detail /\ q.inspecting = panel.inspecting
    BY <2>1 DEF PanelState
  <2>2. PanelBecomes(q)
    BY <1>2 DEF ListFails
  <2> HIDE DEF q
  <2>3. PanelRight(q, selection)
    BY <2>1 DEF DisplayInv, PanelRight, SourcesPanel, MetricsPanel, MapPanel, RunsKnown, ViewOf,
                DetailOf, DetailRight, ResolveMapRun
  <2> QED BY <2>2, <2>3, PanelStep
<1> QED BY <1>1, <1>2 DEF ListAnswers

LEMMA NotOthers ==
  /\ part \in MapParts => part # "sources" /\ part # "metrics" /\ part # "buildings"
  /\ DetailParts \subseteq MapParts
BY DEF MapParts, AbortsOnReload, DetailParts

LEMMA MapIs ==
  ASSUME DisplayInv, part \in MapParts
  PROVE /\ MapPanel(panel, selection) /\ panel \in PanelState
        /\ RunsKnown(panel, selection.project) /\ ViewOf(panel, Owners(selection))
        /\ DetailRight(panel, SelectedRun, Owners(selection))
        /\ Owners(selection) \in SUBSET Things /\ SelectedRun \in Owners(selection) \cup {None}
        /\ SelectedRun \in Things /\ None \in Things
<1>1. MapPanel(panel, selection)
  BY DEF DisplayInv, PanelRight
<1>2. SelectedRun \in Owners(selection) \cup {None} /\ Owners(selection) \in SUBSET Things
  BY <1>1, ResolvedIs, OwnersKnown DEF SelectedRun, MapPanel, DisplayInv
<1> QED BY <1>1, <1>2 DEF MapPanel, SelectedRun, Things

\* A panel whose view and details are still right, and whose runs are the same.
LEMMA SamePanelRight ==
  ASSUME DisplayInv, part \in MapParts, NEW q \in PanelState,
         q.listed = panel.listed, q.local = panel.local, ViewOf(q, Owners(selection)),
         DetailRight(q, SelectedRun, Owners(selection))
  PROVE PanelRight(q, selection)
<1>1. RunsKnown(q, selection.project) /\ ResolveMapRun(q, selection.run) = SelectedRun
  BY MapIs DEF RunsKnown, ResolveMapRun, SelectedRun
<1>2. MapPanel(q, selection)
  BY <1>1 DEF MapPanel
<1> QED BY <1>2, NotOthers DEF PanelRight

LEMMA RunChoiceKeeps ==
  ASSUME DisplayInv, NEW run \in Runs, ChangeRun(run) \/ ChangeMetricsRun(run)
  PROVE DisplayInv'
<1>1. run \in Things /\ None \in Things /\ Nothing \in [{1, 2} -> Things]
  BY NothingShown DEF Things
<1>2. CASE ChangeRun(run) /\ part \in MapParts
  <2> DEFINE cleared == [Aborted(panel) EXCEPT !.local = run, !.inspecting = None,
                           !.detail = None, !.model = "loading", !.shown = Nothing]
             moved == [panel EXCEPT !.local = run]
  <2>1. run \in RunsOf(selection.project)
    BY <1>2, MapIs DEF ChangeRun, RunsKnown
  <2>2. /\ moved \in PanelState /\ moved.listed = panel.listed /\ moved.local = run
        /\ moved.loading = panel.loading /\ moved.shown = panel.shown
        /\ moved.detail = panel.detail /\ moved.inspecting = panel.inspecting
    BY <1>1, <1>2, MapIs DEF PanelState
  <2>3. PanelRight(Rendered(moved, selection.run, visible), selection)
    <3> HIDE DEF moved
    <3>1. RunsKnown(moved, selection.project) /\ ViewOf(moved, Owners(selection))
      BY <1>2, <2>1, <2>2, MapIs DEF RunsKnown, ViewOf
    <3>2. DetailRight(moved, SelectedRun, Owners(selection))
      BY <1>2, <2>2, MapIs DEF DetailOf, DetailRight
    <3> QED BY <1>2, <2>2, <3>1, <3>2, ChangedPanel
  <2>4. /\ cleared \in PanelState /\ cleared.listed = panel.listed /\ cleared.local = run
        /\ cleared.loading = None /\ cleared.shown = Nothing
        /\ cleared.detail = None /\ cleared.inspecting = None
    <3> DEFINE a == Aborted(panel)
    <3>1. a \in PanelState /\ a.listed = panel.listed /\ a.loading = None
      BY <1>2, MapIs, AbortedIs DEF Beside
    <3> HIDE DEF a
    <3>2. cleared = [a EXCEPT !.local = run, !.inspecting = None, !.detail = None,
                              !.model = "loading", !.shown = Nothing]
      BY DEF a
    <3> HIDE DEF cleared
    <3> QED BY <1>1, <3>1, <3>2 DEF PanelState, Models
  <2>5. PanelRight(Rendered(cleared, selection.run, visible), selection)
    <3> HIDE DEF cleared
    <3>1. RunsKnown(cleared, selection.project) /\ ViewOf(cleared, Owners(selection))
      BY <1>2, <2>1, <2>4, MapIs, NothingShown DEF RunsKnown, ViewOf
    <3>2. DetailRight(cleared, SelectedRun, Owners(selection))
      BY <2>4 DEF DetailOf, DetailRight
    <3> QED BY <1>2, <2>4, <3>1, <3>2, ChangedPanel
  <2>6. PanelBecomes(Rendered(IF part = "infrastructure" THEN cleared ELSE moved, selection.run,
                              visible))
    BY <1>2 DEF ChangeRun
  <2> HIDE DEF cleared, moved
  <2> QED BY <2>3, <2>5, <2>6, PanelStep
<1>3. CASE ChangeRun(run) /\ part = "buildings"
  BY <1>3, PanelStep DEF ChangeRun, PanelRight, MapParts, AbortsOnReload
<1>4. CASE ChangeRun(run) /\ part = "sources"
  BY <1>4 DEF ChangeRun, DisplayInv, PanelRight, SourcesPanel
<1>5. CASE ChangeMetricsRun(run)
  <2> DEFINE q == [panel EXCEPT !.local = run]
             next == SelectMapRun(selection, run)
  <2>1. MetricsPanel(panel, selection) /\ part = "metrics"
    BY <1>5 DEF ChangeMetricsRun, DisplayInv, PanelRight
  <2>2. run \in RunsOf(selection.project) /\ run \in panel.listed
    BY <1>5, <2>1 DEF ChangeMetricsRun, MetricsPanel, RunsKnown
  <2>3. Known(next) /\ next.project = selection.project /\ next.run = run
    BY <2>2, KnownChoices DEF DisplayInv
  <2>4. /\ q \in PanelState /\ q.listed = panel.listed /\ q.local = run
        /\ q.listing = panel.listing /\ q.shown = panel.shown
        /\ q.detail = panel.detail /\ q.inspecting = panel.inspecting
    BY <1>1, <2>1 DEF MetricsPanel, PanelState
  <2>5. selection' = next /\ panel' = MetricsRendered(q, next.run)
    BY <1>5, <2>3 DEF ChangeMetricsRun
  <2> HIDE DEF q, next
  <2>6. MetricsPanel(MetricsRendered(q, next.run), next)
    <3>1. /\ RunsKnown(q, selection.project) /\ q.shown = Nothing /\ DetailOf(q, panel.local)
          /\ q.listing => q.listed = {}
      BY <2>1, <2>2, <2>4 DEF MetricsPanel, RunsKnown, DetailOf, DetailRight
    <3> QED BY <2>1, <2>3, <2>4, <3>1, MetricsRenderKeeps DEF DisplayInv
  <2>7. PanelRight(panel', selection')
    BY <2>1, <2>5, <2>6 DEF PanelRight, MapParts, AbortsOnReload
  <2> QED BY <1>5, <2>3, <2>5, <2>7, DisplayFrame DEF ChangeMetricsRun, DisplayInv
<1> QED BY <1>2, <1>3, <1>4, <1>5 DEF ChangeRun, DisplayInv

LEMMA ControlsKeep ==
  ASSUME DisplayInv,
         \/ ReloadPage \/ MoveMap \/ RefreshRuns \/ RefreshReadModel
         \/ \E l \in {1, 2} : ToggleVisible(l)
  PROVE DisplayInv'
<1>1. CASE ReloadPage
  <2>1. InitiallyVisible \in SUBSET {1, 2}
    BY DEF InitiallyVisible, Layers
  <2>2. PanelRight(panel', selection)
    BY <1>1, OpenedRight DEF ReloadPage, DisplayInv
  <2> QED BY <1>1, <2>1, <2>2, DisplayFrame DEF ReloadPage, DisplayInv
<1>2. CASE MoveMap
  <2>1. CASE part \in MapParts
    <3> DEFINE q == Load(panel, SelectedRun, visible)
    <3>1. LoadsOwn(panel, q, Owners(selection))
      BY <2>1, MapIs, LoadKeepsView DEF DisplayInv
    <3>2. PanelBecomes(q)
      BY <1>2, <2>1, NotOthers DEF MoveMap
    <3> HIDE DEF q
    <3>3. PanelRight(q, selection)
      BY <2>1, <3>1, MapIs, SamePanelRight DEF LoadsOwn, Beside, DetailOf, DetailRight
    <3> QED BY <3>2, <3>3, PanelStep
  <2>2. CASE part = "sources"
    <3>1. Load(panel, selection.version, visible) = LoadSources(panel, selection.version, visible)
      BY <2>2 DEF Load
    <3>2. SourcesPanel(LoadSources(panel, selection.version, visible), selection)
      BY <2>2, LoadSourcesKeeps DEF DisplayInv, PanelRight
    <3>3. PanelRight(LoadSources(panel, selection.version, visible), selection)
      BY <2>2, <3>2, NotOthers DEF PanelRight
    <3> QED BY <1>2, <2>2, <3>1, <3>3, PanelStep DEF MoveMap
  <2>3. CASE part = "buildings"
    BY <1>2, <2>3, PanelStep DEF MoveMap, PanelRight, MapParts, AbortsOnReload
  <2> QED BY <1>2, <2>1, <2>2, <2>3 DEF MoveMap, DisplayInv
<1>3. CASE RefreshRuns
  <2>1. PanelRight(Mounted(selection.project), selection)
    BY <1>3, MountedRight DEF RefreshRuns, DisplayInv
  <2> QED BY <1>3, <2>1, PanelStep DEF RefreshRuns
<1>4. CASE RefreshReadModel
  <2> DEFINE q == InspectInfrastructure(panel, SelectedRun)
  <2>1. part \in MapParts /\ part \in DetailParts /\ part = "infrastructure"
    BY <1>4 DEF RefreshReadModel, MapParts, AbortsOnReload, DetailParts
  <2>2. q = Inspect(panel, SelectedRun)
    BY <2>1 DEF Inspect
  <2>3. PanelBecomes(Rendered(q, selection.run, visible))
    BY <1>4 DEF RefreshReadModel
  <2> HIDE DEF q
  <2>4. /\ q \in PanelState /\ q.listed = panel.listed /\ q.local = panel.local
        /\ q.loading = panel.loading /\ q.shown = panel.shown /\ DetailOf(q, SelectedRun)
    BY <2>1, <2>2, MapIs, InspectIs
  <2>5. RunsKnown(q, selection.project) /\ ViewOf(q, Owners(selection))
    BY <2>1, <2>4, MapIs DEF RunsKnown, ViewOf
  <2>6. PanelRight(Rendered(q, selection.run, visible), selection)
    BY <2>1, <2>4, <2>5, ChangedPanel DEF DetailRight
  <2> QED BY <2>3, <2>6, PanelStep
<1>5. CASE \E l \in {1, 2} : ToggleVisible(l)
  <2>1. visible' \in SUBSET {1, 2} /\ panel' = Effects(panel, selection, visible')
        /\ UNCHANGED <<selection, part, orphans>>
    BY <1>5 DEF ToggleVisible, DisplayInv
  <2>2. PanelRight(panel', selection)
    BY <2>1, EffectsRight DEF DisplayInv
  <2> QED BY <2>1, <2>2, DisplayFrame DEF DisplayInv
<1> QED BY <1>1, <1>2, <1>3, <1>4, <1>5

\* An answer of the viewport: the request is over, and what it shows is of its run.
LEMMA LoadedIs ==
  ASSUME NEW q \in PanelState, NEW shown \in [{1, 2} -> Things]
  PROVE /\ Loaded(q, shown) \in PanelState /\ Beside(q, Loaded(q, shown))
        /\ Loaded(q, shown).loading = None /\ Loaded(q, shown).shown = shown
        /\ LoadFailed(q) \in PanelState /\ Beside(q, LoadFailed(q))
        /\ LoadFailed(q).loading = None /\ LoadFailed(q).shown = q.shown
BY DEF Loaded, LoadFailed, PanelState, Beside

\* Whatever a panel of a run becomes, the details beside, its view is of the owners.
LEMMA ViewStep ==
  ASSUME DisplayInv, part \in MapParts, NEW q, LoadsOwn(panel, q, Owners(selection)),
         PanelBecomes(q)
  PROVE DisplayInv'
<1>1. PanelRight(q, selection)
  BY MapIs, SamePanelRight DEF LoadsOwn, Beside, DetailOf, DetailRight
<1> QED BY <1>1, PanelStep

LEMMA AnswerOfOwner ==
  ASSUME DisplayInv, part \in MapParts, panel.loading # None
  PROVE /\ panel.loading.run \in Owners(selection) /\ panel.loading.run \in Things
        /\ panel.loading \in [run : Things, layers : SUBSET {1, 2}]
        /\ \A shown \in [{1, 2} -> Owners(selection) \cup {None}] :
             LoadsOwn(panel, Loaded(panel, shown), Owners(selection))
        /\ LoadsOwn(panel, LoadFailed(panel), Owners(selection))
<1>1. panel.loading.run \in Owners(selection) /\ panel \in PanelState
  BY MapIs DEF ViewOf
<1>2. panel.loading \in [run : Things, layers : SUBSET {1, 2}]
  BY <1>1 DEF PanelState
<1>3. ASSUME NEW shown \in [{1, 2} -> Owners(selection) \cup {None}]
      PROVE LoadsOwn(panel, Loaded(panel, shown), Owners(selection))
  <2>1. shown \in [{1, 2} -> Things]
    BY MapIs
  <2> QED BY <1>1, <1>3, <2>1, LoadedIs DEF LoadsOwn, ViewOf
<1>4. LoadsOwn(panel, LoadFailed(panel), Owners(selection))
  <2>1. panel.shown \in [{1, 2} -> Things]
    BY <1>1 DEF PanelState
  <2> QED BY <1>1, <2>1, MapIs, LoadedIs DEF LoadsOwn, ViewOf
<1> QED BY <1>1, <1>2, <1>3, <1>4

LEMMA ViewportKeeps == ASSUME DisplayInv, NEW ok \in BOOLEAN, ViewportAnswers(ok) PROVE DisplayInv'
<1> DEFINE owners == Owners(selection)
           one == [panel.shown EXCEPT ![1] = panel.loading.run]
<1>1. panel.loading # None
  BY DEF ViewportAnswers
<1>2. CASE part \in MapParts
  <2>1. one \in [{1, 2} -> owners \cup {None}]
    BY <1>1, <1>2, AnswerOfOwner, MapIs DEF ViewOf
  <2>2. LoadsOwn(panel, Loaded(panel, one), owners) /\ LoadsOwn(panel, LoadFailed(panel), owners)
    BY <1>1, <1>2, <2>1, AnswerOfOwner
  <2>3. CASE part \in {"zoning", "roads", "demography"}
    <3>1. PanelBecomes(IF ok THEN Loaded(panel, one) ELSE LoadFailed(panel))
      BY <2>3 DEF ViewportAnswers, ZonesAnswer, RoadsAnswer, DemographyAnswer
    <3> HIDE DEF one
    <3> QED BY <1>2, <2>2, <3>1, ViewStep
  <2>4. CASE part = "violations"
    <3> DEFINE emptied == [LoadFailed(panel) EXCEPT !.shown = Nothing]
    <3>1. PanelBecomes(IF ok THEN Loaded(panel, one) ELSE emptied)
      BY <2>4 DEF ViewportAnswers, ViolationsAnswer
    <3>2. LoadsOwn(LoadFailed(panel), emptied, owners)
      BY <1>2, <2>2, MapIs, EmptyingKeepsView DEF LoadsOwn
    <3>3. LoadsOwn(panel, emptied, owners)
      BY <2>2, <3>2 DEF LoadsOwn, Beside
    <3> HIDE DEF one, emptied
    <3> QED BY <1>2, <2>2, <3>1, <3>3, ViewStep
  <2>5. CASE part = "infrastructure"
    <3>1. PICK answered : InfrastructureAnswer(answered)
      BY <2>5 DEF ViewportAnswers
    <3> DEFINE shown == [l \in {1, 2} |-> IF l \in answered THEN panel.loading.run ELSE None]
               failed == answered # panel.loading.layers
               q == [Loaded(panel, shown) EXCEPT !.failed = failed]
    <3>2. shown \in [{1, 2} -> owners \cup {None}] /\ failed \in BOOLEAN
      BY <1>1, <1>2, AnswerOfOwner
    <3>3. LoadsOwn(panel, Loaded(panel, shown), owners)
      BY <1>1, <1>2, <3>2, AnswerOfOwner
    <3>4. PanelBecomes(q)
      BY <3>1 DEF InfrastructureAnswer
    <3> HIDE DEF shown, failed
    <3>5. LoadsOwn(panel, q, owners)
      BY <3>2, <3>3 DEF LoadsOwn, Beside, ViewOf, PanelState
    <3> HIDE DEF q
    <3> QED BY <1>2, <3>4, <3>5, ViewStep
  <2>6. CASE part = "parcels"
    <3> DEFINE run == panel.loading.run
               first == IF 1 \in panel.loading.layers THEN 1 ELSE 2
               answered == [panel EXCEPT !.shown[first] = run, !.loading.layers = @ \ {first}]
               rest == [answered.shown EXCEPT ![2] = IF first = 2 THEN run ELSE None]
    <3>1. first \in {1, 2} /\ run \in owners /\ run \in Things /\ panel \in PanelState
      BY <1>1, <1>2, AnswerOfOwner, MapIs
    <3>2. panel.loading \in [run : Things, layers : SUBSET {1, 2}]
      BY <1>1, <1>2, AnswerOfOwner
    <3>3. PanelBecomes(IF ~ok THEN LoadFailed(panel)
                       ELSE IF answered.loading.layers # {} THEN answered
                       ELSE Loaded(answered, rest))
      BY <2>6 DEF ViewportAnswers, ParcelsAnswer
    <3>4. LoadsOwn(panel, answered, owners)
      <4> DEFINE next == [run |-> run, layers |-> panel.loading.layers \ {first}]
                 shown == [panel.shown EXCEPT ![first] = run]
      <4>1. [panel.loading EXCEPT !.layers = @ \ {first}] = next
        BY <3>2
      <4>2. answered = [panel EXCEPT !.shown = shown, !.loading = next]
        BY <3>1, <4>1 DEF PanelState
      <4>3. shown \in [{1, 2} -> owners \cup {None}] /\ shown \in [{1, 2} -> Things]
        BY <1>2, <3>1, MapIs DEF ViewOf
      <4>4. next \in [run : Things, layers : SUBSET {1, 2}] /\ next.run = run
        BY <3>1, <3>2
      <4> HIDE DEF next, shown, run, answered
      <4> QED BY <3>1, <4>2, <4>3, <4>4 DEF PanelState, LoadsOwn, Beside, ViewOf
    <3>5. rest \in [{1, 2} -> owners \cup {None}] /\ rest \in [{1, 2} -> Things]
      <4>1. answered.shown \in [{1, 2} -> owners \cup {None}]
        BY <3>4 DEF LoadsOwn, ViewOf
      <4> HIDE DEF answered, run, first, owners
      <4>2. rest \in [{1, 2} -> owners \cup {None}]
        BY <3>1, <4>1
      <4> QED BY <1>2, <4>2, MapIs DEF owners
    <3> HIDE DEF answered, rest, run, first
    <3>6. LoadsOwn(answered, Loaded(answered, rest), owners)
      BY <3>4, <3>5, LoadedIs DEF LoadsOwn, ViewOf
    <3>7. LoadsOwn(panel, Loaded(answered, rest), owners)
      BY <3>4, <3>6 DEF LoadsOwn, Beside
    <3> QED BY <1>2, <2>2, <3>3, <3>4, <3>7, ViewStep
  <2> QED BY <1>2, <2>3, <2>4, <2>5, <2>6 DEF MapParts, AbortsOnReload
<1>3. CASE part = "sources"
  <2>1. SourcesPanel(panel, selection)
    BY <1>3 DEF DisplayInv, PanelRight
  <2>2. PanelBecomes(IF ok THEN Loaded(panel, one) ELSE LoadFailed(panel))
    BY <1>3 DEF ViewportAnswers, SourcesAnswer, ZonesAnswer
  <2>3. /\ one \in [{1, 2} -> Things] /\ panel.shown \in [{1, 2} -> Things]
        /\ one[1] = selection.version /\ one[2] = panel.shown[2]
    <3>1. panel.loading.run = selection.version /\ selection.version \in Things
      BY <1>1, <2>1 DEF SourcesPanel, DisplayInv, Known, Things
    <3> QED BY <2>1, <3>1 DEF SourcesPanel, PanelState
  <2> HIDE DEF one
  <2>4. SourcesPanel(Loaded(panel, one), selection) /\ SourcesPanel(LoadFailed(panel), selection)
    BY <2>1, <2>3, LoadedIs DEF SourcesPanel, Beside
  <2> QED BY <1>3, <2>2, <2>4, NotOthers, PanelStep DEF PanelRight
<1>4. CASE part = "buildings"
  BY <1>4, PanelStep DEF ViewportAnswers, BuildingsAnswer, ZonesAnswer, PanelRight, MapParts,
                         AbortsOnReload
<1> QED BY <1>2, <1>3, <1>4 DEF ViewportAnswers, DisplayInv, MapParts, AbortsOnReload

LEMMA InspectedIs ==
  ASSUME panel \in PanelState, NEW detail \in Things
  PROVE /\ Inspected(detail) \in PanelState
        /\ Inspected(detail).listing = panel.listing /\ Inspected(detail).listed = panel.listed
        /\ Inspected(detail).local = panel.local /\ Inspected(detail).loading = panel.loading
        /\ Inspected(detail).shown = panel.shown
        /\ Inspected(detail).inspecting = None /\ Inspected(detail).detail = detail
<1>1. None \in Things
  BY DEF Things
<1> QED BY <1>1 DEF Inspected, PanelState

LEMMA InspectedRight ==
  ASSUME DisplayInv, part \in MapParts, NEW detail \in Things,
         part \in DetailParts => detail \in {SelectedRun, None},
         part = "demography" => detail \in Owners(selection) \cup {None}
  PROVE PanelRight(Inspected(detail), selection)
<1>1. panel \in PanelState /\ ViewOf(panel, Owners(selection))
  BY MapIs
<1> DEFINE q == Inspected(detail)
<1>2. /\ q \in PanelState /\ q.listed = panel.listed /\ q.local = panel.local
      /\ q.loading = panel.loading /\ q.shown = panel.shown
      /\ q.inspecting = None /\ q.detail = detail
  BY <1>1, InspectedIs
<1> HIDE DEF q
<1>3. ViewOf(q, Owners(selection)) /\ DetailRight(q, SelectedRun, Owners(selection))
  BY <1>1, <1>2 DEF ViewOf, DetailOf, DetailRight
<1>4. PanelRight(q, selection)
  BY <1>2, <1>3, SamePanelRight
<1> QED BY <1>4 DEF q

LEMMA DetailKeeps == ASSUME DisplayInv, NEW ok \in BOOLEAN, DetailAnswers(ok) PROVE DisplayInv'
<1> DEFINE detail == IF ok THEN panel.inspecting ELSE panel.detail
<1>1. CASE part = "roads" \/ part = "demography"
  <2>1. PanelBecomes(Inspected(detail))
    BY <1>1 DEF DetailAnswers, RoadsInspected, DemographyInspected
  <2>2. part \in MapParts
    BY <1>1 DEF MapParts, AbortsOnReload
  <2>3. /\ detail \in Things
        /\ part \in DetailParts => detail \in {SelectedRun, None}
        /\ part = "demography" => detail \in Owners(selection) \cup {None}
    BY <2>2, MapIs DEF PanelState, DetailOf, DetailRight
  <2> HIDE DEF detail
  <2>4. PanelRight(Inspected(detail), selection)
    BY <2>2, <2>3, InspectedRight
  <2> QED BY <2>1, <2>4, PanelStep
<1>2. CASE part = "metrics"
  <2>1. PanelBecomes(Inspected(detail))
    BY <1>2 DEF DetailAnswers, MetricsInspected, RoadsInspected
  <2>2. MetricsPanel(panel, selection) /\ panel \in PanelState
    BY <1>2 DEF DisplayInv, PanelRight, MetricsPanel
  <2>3. detail \in Things /\ detail \in {panel.local, None}
    BY <2>2 DEF MetricsPanel, PanelState, DetailOf, DetailRight
  <2> HIDE DEF detail
  <2>4. MetricsPanel(Inspected(detail), selection)
    <3> DEFINE q == Inspected(detail)
    <3>1. /\ q \in PanelState /\ q.listing = panel.listing /\ q.listed = panel.listed
          /\ q.local = panel.local /\ q.shown = panel.shown
          /\ q.inspecting = None /\ q.detail = detail
      BY <2>2, <2>3, InspectedIs
    <3> HIDE DEF q
    <3>2. RunsKnown(q, selection.project) /\ DetailOf(q, q.local)
      BY <2>2, <2>3, <3>1 DEF MetricsPanel, RunsKnown, DetailOf, DetailRight
    <3>3. MetricsPanel(q, selection)
      BY <2>2, <3>1, <3>2 DEF MetricsPanel
    <3> QED BY <3>3 DEF q
  <2> QED BY <1>2, <2>1, <2>4, NotOthers, PanelStep DEF PanelRight
<1>3. CASE part = "infrastructure"
  <2>1. PICK model \in {"ready", "not_ready", "error"} :
          LET q == [Inspected(IF model = "ready" THEN panel.inspecting ELSE None)
                    EXCEPT !.model = model,
                           !.shown[2] = IF model = "not_ready" THEN None ELSE @]
          IN  PanelBecomes(Rendered(q, selection.run, visible))
    BY <1>3 DEF DetailAnswers, InfrastructureInspected
  <2>2. part \in MapParts /\ part \in DetailParts
    BY <1>3 DEF MapParts, AbortsOnReload, DetailParts
  <2> DEFINE known == IF model = "ready" THEN panel.inspecting ELSE None
             a == Inspected(known)
             shown == [a.shown EXCEPT ![2] = IF model = "not_ready" THEN None ELSE @]
             q == [a EXCEPT !.model = model, !.shown = shown]
  <2>3. known \in Things /\ known \in {SelectedRun, None}
    BY <2>2, MapIs DEF PanelState, DetailOf, DetailRight
  <2> HIDE DEF known
  <2>4. /\ a \in PanelState /\ a.listed = panel.listed /\ a.local = panel.local
        /\ a.loading = panel.loading /\ a.shown = panel.shown
        /\ a.inspecting = None /\ a.detail = known
    <3>1. panel \in PanelState
      BY <2>2, MapIs
    <3> QED BY <2>3, <3>1, InspectedIs
  <2> HIDE DEF a
  <2>5. shown \in [{1, 2} -> Owners(selection) \cup {None}] /\ shown \in [{1, 2} -> Things]
    <3>1. a.shown \in [{1, 2} -> Owners(selection) \cup {None}] /\ Owners(selection) \in SUBSET Things
      BY <2>2, <2>4, MapIs DEF ViewOf
    <3> QED BY <2>2, <3>1, MapIs
  <2>6. PanelBecomes(Rendered(q, selection.run, visible))
    BY <2>1, <2>4 DEF a, known, PanelState
  <2> HIDE DEF shown
  <2>7. /\ q \in PanelState /\ q.listed = panel.listed /\ q.local = panel.local
        /\ q.loading = panel.loading /\ q.shown = shown
        /\ q.inspecting = None /\ q.detail = known
    BY <2>4, <2>5 DEF PanelState, Models
  <2> HIDE DEF q
  <2>8. /\ RunsKnown(q, selection.project) /\ ViewOf(q, Owners(selection))
        /\ DetailOf(q, SelectedRun)
    BY <2>2, <2>3, <2>5, <2>7, MapIs DEF RunsKnown, ViewOf, DetailOf, DetailRight
  <2>9. PanelRight(Rendered(q, selection.run, visible), selection)
    BY <1>3, <2>2, <2>7, <2>8, ChangedPanel DEF DetailRight
  <2> QED BY <2>6, <2>9, PanelStep
<1>4. CASE part = "violations"
  <2>1. part \in MapParts /\ part \in DetailParts
    BY <1>4 DEF MapParts, AbortsOnReload, DetailParts
  <2>2. ASSUME NEW known \in {panel.inspecting, panel.detail}
        PROVE PanelRight(Inspected(known), selection) /\ MapPanel(Inspected(known), selection)
    <3>1. known \in Things /\ known \in {SelectedRun, None}
      BY <2>1, MapIs DEF PanelState, DetailOf, DetailRight
    <3>2. PanelRight(Inspected(known), selection)
      BY <1>4, <2>1, <3>1, InspectedRight
    <3> QED BY <2>1, <3>2 DEF PanelRight
  <2>3. \/ PanelBecomes(Inspected(panel.inspecting)) \/ PanelBecomes(Inspected(panel.detail))
        \/ PanelBecomes(Reload(Inspected(panel.inspecting), SelectedRun, visible))
    BY <1>4 DEF DetailAnswers, ViolationsInspected
  <2> DEFINE q == Inspected(panel.inspecting)
  <2>4. MapPanel(q, selection) /\ q \in PanelState /\ ViewOf(q, Owners(selection))
    BY <2>2 DEF MapPanel
  <2>5. LoadsOwn(q, Reload(q, SelectedRun, visible), Owners(selection))
    BY <2>1, <2>4, MapIs, ReloadKeepsView DEF DisplayInv
  <2>6. PanelRight(Reload(q, SelectedRun, visible), selection)
    <3> DEFINE r == Reload(q, SelectedRun, visible)
    <3>1. MapPanel(r, selection)
      <4> HIDE DEF q, r
      <4> QED BY <2>4, <2>5 DEF MapPanel, LoadsOwn, Beside, RunsKnown, ResolveMapRun, DetailOf, DetailRight, r
    <3> QED BY <2>1, <3>1, NotOthers DEF PanelRight
  <2> QED BY <2>2, <2>3, <2>6, PanelStep
<1>5. CASE part = "sources"
  <2> DEFINE shown == [panel.shown EXCEPT ![2] = IF ok THEN panel.inspecting ELSE @]
             q == [panel EXCEPT !.inspecting = None, !.shown = shown]
  <2>1. SourcesPanel(panel, selection) /\ panel \in PanelState
    BY <1>5 DEF DisplayInv, PanelRight, SourcesPanel
  <2>2. /\ shown \in [{1, 2} -> Things] /\ shown[1] = panel.shown[1]
        /\ shown[2] \in {None, selection.project}
    BY <2>1 DEF SourcesPanel, PanelState
  <2>3. PanelBecomes(q)
    BY <1>5, <2>1 DEF DetailAnswers, BoundaryAnswers, PanelState
  <2> HIDE DEF shown
  <2>4. SourcesPanel(q, selection)
    BY <2>1, <2>2 DEF SourcesPanel, PanelState, Things
  <2> QED BY <1>5, <2>3, <2>4, NotOthers, PanelStep DEF PanelRight
<1> QED BY <1>1, <1>2, <1>3, <1>4, <1>5 DEF DetailAnswers

LEMMA OrphanKeeps ==
  ASSUME DisplayInv, NEW r \in Runs, NEW ok \in BOOLEAN, OrphanAnswers(r, ok) PROVE DisplayInv'
<1>1. part = "buildings"
  BY DEF OrphanAnswers, DisplayInv
<1> QED
  BY <1>1, DisplayFrame DEF OrphanAnswers, OfMap, DisplayInv, PanelRight, MapParts, AbortsOnReload

-----------------------------------------------------------------------------
(* The comparison. *)

\* Every set of natural numbers has a least element.
LEMMA LeastOf ==
  ASSUME NEW S \in SUBSET Nat, S # {}
  PROVE Min(S) \in S /\ \A y \in S : Min(S) <= y
BY SomeLeast DEF Min

OnceIn(runs, S) ==
  /\ runs \in Seq(S)
  /\ \A i, k \in DOMAIN runs : runs[i] = runs[k] => i = k

LEMMA FirstRemoved ==
  ASSUME NEW S, NEW s, OnceIn(s, S), NEW e, Contains(s, e)
  PROVE /\ OnceIn(RemoveFirst(s, e), S)
        /\ \A i \in DOMAIN RemoveFirst(s, e) : RemoveFirst(s, e)[i] # e
<1> DEFINE I == {i \in 1..Len(s) : s[i] = e}
           k == Min(I)
           r == RemoveFirst(s, e)
           a == SubSeq(s, 1, k - 1)
           b == SubSeq(s, k + 1, Len(s))
<1>1. s \in Seq(S) /\ Len(s) \in Nat /\ DOMAIN s = 1..Len(s)
  BY DEF OnceIn
<1>2. I \in SUBSET Nat /\ I # {}
  BY <1>1 DEF Contains
<1>3. k \in I
  <2> HIDE DEF I
  <2> QED BY <1>2, LeastOf
<1>4. k \in 1..Len(s) /\ s[k] = e
  BY <1>3
<1>5. r = a \o b
  <2>1. \E i \in 1..Len(s) : s[i] = e
    BY <1>4
  <2>2. SelectInSeq(s, LAMBDA v : v = e) = k
    BY <1>2 DEF SelectInSeq
  <2> QED BY ONLY <2>1, <2>2, Zenon DEF RemoveFirst, RemoveAt, r, a, b
<1> HIDE DEF k, r, I
<1>6. \A i \in 1..Len(s) : s[i] \in S
  BY <1>1, ElementOfSeq
<1>7. a \in Seq(S) /\ Len(a) = k - 1 /\ \A i \in 1..(k - 1) : a[i] = s[i]
  <2>1. /\ 1 \in Int /\ k - 1 \in Int /\ \A i \in 1..(k - 1) : s[i] \in S
    BY <1>1, <1>4, <1>6
  <2>2. /\ a \in Seq(S) /\ Len(a) = IF 1 <= k - 1 THEN k - 1 - 1 + 1 ELSE 0
        /\ \A i \in 1..(k - 1 - 1 + 1) : a[i] = s[1 + i - 1]
    BY ONLY <2>1, SubSeqProperties
  <2> HIDE DEF a
  <2> QED BY <1>1, <1>4, <2>2
<1>8. b \in Seq(S) /\ Len(b) = Len(s) - k /\ \A i \in 1..(Len(s) - k) : b[i] = s[k + i]
  <2>1. /\ k + 1 \in Int /\ Len(s) \in Int /\ \A i \in (k + 1)..Len(s) : s[i] \in S
    BY <1>1, <1>4, <1>6
  <2>2. /\ b \in Seq(S)
        /\ Len(b) = IF k + 1 <= Len(s) THEN Len(s) - (k + 1) + 1 ELSE 0
        /\ \A i \in 1..(Len(s) - (k + 1) + 1) : b[i] = s[k + 1 + i - 1]
    BY ONLY <2>1, SubSeqProperties
  <2> HIDE DEF b
  <2>3. Len(b) = Len(s) - k
    <3>1. Len(s) \in Nat /\ k \in 1..Len(s)
      BY <1>1, <1>4
    <3>2. Len(b) = IF k + 1 <= Len(s) THEN Len(s) - (k + 1) + 1 ELSE 0
      BY <2>2
    <3> QED BY ONLY <3>1, <3>2
  <2>4. ASSUME NEW i \in 1..(Len(s) - k) PROVE b[i] = s[k + i]
    <3>1. i \in 1..(Len(s) - (k + 1) + 1) /\ k + 1 + i - 1 = k + i
      <4>1. Len(s) \in Nat /\ k \in 1..Len(s) /\ i \in 1..(Len(s) - k)
        BY <1>1, <1>4
      <4> QED BY ONLY <4>1
    <3>2. b[i] = s[k + 1 + i - 1]
      BY <2>2, <3>1
    <3> QED BY <3>1, <3>2
  <2> QED BY <2>2, <2>3, <2>4
<1> HIDE DEF a, b
<1>9. /\ r \in Seq(S) /\ Len(r) = Len(a) + Len(b)
      /\ \A i \in 1..(Len(a) + Len(b)) : r[i] = IF i <= Len(a) THEN a[i] ELSE b[i - Len(a)]
  <2>1. a \in Seq(S) /\ b \in Seq(S)
    BY <1>7, <1>8
  <2> QED BY ONLY <1>5, <2>1, ConcatProperties
<1>10. /\ Len(r) = Len(s) - 1 /\ DOMAIN r = 1..Len(r)
       /\ \A i \in 1..Len(r) : i < k => r[i] = s[i]
       /\ \A i \in 1..Len(r) : i >= k => r[i] = s[i + 1]
  <2>1. Len(r) = Len(s) - 1
    BY <1>1, <1>4, <1>7, <1>8, <1>9
  <2>2. DOMAIN r = 1..Len(r)
    BY <1>9, LenProperties
  <2>3. ASSUME NEW i \in 1..Len(r), i < k PROVE r[i] = s[i]
    BY <1>1, <1>4, <1>7, <1>8, <1>9, <2>1, <2>3
  <2>4. ASSUME NEW i \in 1..Len(r), i >= k PROVE r[i] = s[i + 1]
    <3>1. i - (k - 1) \in 1..(Len(s) - k) /\ k + (i - (k - 1)) = i + 1
      BY <1>1, <1>4, <2>1, <2>4
    <3>2. r[i] = b[i - (k - 1)]
      BY <1>1, <1>4, <1>7, <1>8, <1>9, <2>1, <2>4
    <3> QED BY <1>8, <3>1, <3>2
  <2> QED BY <2>1, <2>2, <2>3, <2>4
<1>11. \A i, j \in 1..Len(s) : s[i] = s[j] => i = j
  BY <1>1 DEF OnceIn
<1>12. ASSUME NEW i \in 1..Len(r)
       PROVE \E m \in 1..Len(s) : m # k /\ r[i] = s[m] /\ m = IF i < k THEN i ELSE i + 1
  <2>1. CASE i < k
    BY <1>1, <1>4, <1>10, <2>1
  <2>2. CASE i >= k
    BY <1>1, <1>4, <1>10, <2>2
  <2> QED BY <1>1, <1>4, <1>10, <2>1, <2>2
<1>13. \A i \in 1..Len(r) : r[i] # e
  BY <1>4, <1>11, <1>12
<1>14. ASSUME NEW i \in 1..Len(r), NEW j \in 1..Len(r), r[i] = r[j] PROVE i = j
  <2>1. (IF i < k THEN i ELSE i + 1) = (IF j < k THEN j ELSE j + 1)
    BY <1>11, <1>12, <1>14
  <2> QED BY <1>1, <1>4, <1>10, <2>1
<1> QED BY <1>9, <1>10, <1>13, <1>14 DEF OnceIn, r

\* What is chosen and compared, with what the handler of a pending comparison has seen.
ChoiceInv ==
  /\ OnceIn(chosen, RunsOf(selection.project))
  /\ comparing # None =>
       /\ comparing.runs = chosen /\ chosen # << >> /\ compared = None
       /\ Known(comparing.selection) /\ comparing.selection.project = selection.project
  /\ compared # None => compared = chosen

WorkspaceInv == DisplayInv /\ ChoiceInv

LEMMA NothingChosen == ASSUME NEW S PROVE OnceIn(<< >>, S)
BY EmptySeq DEF OnceIn

LEMMA ChoiceFrame ==
  ASSUME ChoiceInv, UNCHANGED compareVars, selection'.project = selection.project
  PROVE ChoiceInv'
BY DEF ChoiceInv, compareVars

LEMMA ChoiceReset == ASSUME ResetComparison PROVE ChoiceInv'
<1>1. OnceIn(<< >>, RunsOf(selection'.project))
  BY NothingChosen
<1> QED BY <1>1 DEF ResetComparison, ChoiceInv

LEMMA ToggledOnce ==
  ASSUME NEW S, OnceIn(chosen, S), NEW run \in S
  PROVE OnceIn(ToggleComparedRun(run), S)
<1>1. CASE Contains(chosen, run)
  BY <1>1, FirstRemoved DEF ToggleComparedRun
<1>2. CASE ~Contains(chosen, run)
  <2> DEFINE n == Len(chosen)
             r == Append(chosen, run)
  <2>1. chosen \in Seq(S) /\ n \in Nat /\ DOMAIN chosen = 1..n
    BY LenProperties DEF OnceIn
  <2>2. \A i \in 1..n : chosen[i] # run
    BY <1>2 DEF Contains
  <2>3. /\ r \in Seq(S) /\ Len(r) = n + 1 /\ r[n + 1] = run
        /\ \A i \in 1..n : r[i] = chosen[i]
    BY <2>1, AppendProperties
  <2>4. DOMAIN r = 1..(n + 1)
    BY <2>3, LenProperties
  <2>5. \A i, k \in 1..n : chosen[i] = chosen[k] => i = k
    BY <2>1 DEF OnceIn
  <2>6. n \in Nat
    BY <2>1
  <2> HIDE DEF n, r
  <2>7. \A i \in 1..(n + 1) : i \in 1..n \/ i = n + 1
    BY ONLY <2>6
  <2>8. \A i, k \in 1..(n + 1) : r[i] = r[k] => i = k
    BY ONLY <2>2, <2>3, <2>5, <2>7
  <2> QED BY <1>2, <2>3, <2>4, <2>8 DEF OnceIn, ToggleComparedRun, r
<1> QED BY <1>1, <1>2

LEMMA BaselineOnce ==
  ASSUME NEW S, OnceIn(chosen, S), NEW run, Contains(chosen, run)
  PROVE OnceIn(<<run>> \o RemoveFirst(chosen, run), S)
<1> DEFINE t == RemoveFirst(chosen, run)
           n == Len(t)
           r == <<run>> \o t
<1>1. OnceIn(t, S) /\ \A i \in DOMAIN t : t[i] # run
  BY FirstRemoved
<1>2. run \in S
  <2>1. chosen \in Seq(S)
    BY DEF OnceIn
  <2> QED BY <2>1, ElementOfSeq DEF Contains
<1> HIDE DEF t
<1>3. t \in Seq(S) /\ n \in Nat /\ DOMAIN t = 1..n
  BY <1>1, LenProperties DEF OnceIn
<1>4. <<run>> \in Seq(S) /\ Len(<<run>>) = 1 /\ <<run>>[1] = run
  BY <1>2
<1>5. /\ r \in Seq(S) /\ Len(r) = 1 + n
      /\ \A i \in 1..(1 + n) : r[i] = IF i <= 1 THEN <<run>>[i] ELSE t[i - 1]
  BY <1>3, <1>4, ConcatProperties
<1>6. DOMAIN r = 1..(1 + n)
  BY <1>5, LenProperties
<1>7. /\ \A i \in 1..n : t[i] # run
      /\ \A i, k \in 1..n : t[i] = t[k] => i = k
  BY <1>1, <1>3 DEF OnceIn
<1>8. n \in Nat
  BY <1>3
<1>9. \A i \in 1..(1 + n) : (i = 1 /\ r[i] = run) \/ (i - 1 \in 1..n /\ r[i] = t[i - 1])
  <2> TAKE i \in 1..(1 + n)
  <2>1. r[i] = IF i <= 1 THEN <<run>>[i] ELSE t[i - 1]
    BY <1>5
  <2> HIDE DEF n, r
  <2>2. i = 1 \/ (i - 1 \in 1..n /\ ~(i <= 1))
    BY ONLY <1>8, i \in 1..(1 + n)
  <2> QED BY <1>4, <2>1, <2>2
<1> HIDE DEF n, r
<1>10. ASSUME NEW i \in 1..(1 + n), NEW k \in 1..(1 + n), r[i] = r[k] PROVE i = k
  <2>1. (i = 1 /\ k = 1) \/ (i - 1 \in 1..n /\ k - 1 \in 1..n /\ t[i - 1] = t[k - 1])
    BY <1>7, <1>9, <1>10
  <2>2. (i = 1 /\ k = 1) \/ i - 1 = k - 1
    BY <1>7, <2>1
  <2> QED BY ONLY <1>8, <2>2, i \in 1..(1 + n), k \in 1..(1 + n)
<1> QED BY <1>5, <1>6, <1>10 DEF OnceIn, r, t

\* The head of what is compared is one of the runs, so that it can be pinned.
LEMMA HeadKnown ==
  ASSUME ChoiceInv, comparing # None
  PROVE /\ Known(comparing.selection)
        /\ Head(comparing.runs) \in RunsOf(comparing.selection.project)
<1>1. chosen \in Seq(RunsOf(selection.project)) /\ chosen # << >> /\ comparing.runs = chosen
  BY DEF ChoiceInv, OnceIn
<1>2. Head(chosen) \in RunsOf(selection.project)
  BY <1>1, HeadTailProperties
<1> QED BY <1>1, <1>2 DEF ChoiceInv

LEMMA DisplayStep == WorkspaceInv /\ [WorkspaceNext]_workspaceVars => DisplayInv'
<1> SUFFICES ASSUME WorkspaceInv, [WorkspaceNext]_workspaceVars PROVE DisplayInv'
  OBVIOUS
<1>1. DisplayInv /\ ChoiceInv
  BY DEF WorkspaceInv
<1>2. CASE UNCHANGED workspaceVars
  BY <1>1, <1>2, DisplayFrame DEF workspaceVars, DisplayInv
<1>3. CASE \/ \E p \in Projects : ChooseProject(p)
           \/ \E v \in Versions : ChooseVersion(v)
           \/ \E p \in Projects, v \in Versions \cup {None} : ApplyContext(p, v)
           \/ \E r \in Runs \cup {None} : PinRun(r)
  BY <1>1, <1>3, SelectionKeeps
<1>4. CASE \/ ReloadPage \/ MoveMap \/ RefreshRuns \/ RefreshReadModel
           \/ \E l \in {1, 2} : ToggleVisible(l)
  BY <1>1, <1>4, ControlsKeep
<1>5. CASE \E r \in Runs : ChangeRun(r) \/ ChangeMetricsRun(r)
  BY <1>1, <1>5, RunChoiceKeeps
<1>6. CASE \/ \E r \in Runs : ToggleRun(r) \/ ChangeBaseline(r)
           \/ RefreshComparison \/ Compare \/ CompareAnswers \/ CompareFails
  BY <1>1, <1>6, HeadKnown, ComparisonStepKeeps
<1>7. CASE ListAnswers \/ ListFails
  BY <1>1, <1>7, ListKeeps
<1>8. CASE \/ \E ok \in BOOLEAN : ViewportAnswers(ok) \/ DetailAnswers(ok)
           \/ \E r \in Runs, ok \in BOOLEAN : OrphanAnswers(r, ok)
  BY <1>1, <1>8, ViewportKeeps, DetailKeeps, OrphanKeeps
<1> QED BY <1>2, <1>3, <1>4, <1>5, <1>6, <1>7, <1>8 DEF WorkspaceNext

LEMMA ChoiceStep == WorkspaceInv /\ [WorkspaceNext]_workspaceVars => ChoiceInv'
<1> SUFFICES ASSUME WorkspaceInv, [WorkspaceNext]_workspaceVars PROVE ChoiceInv'
  OBVIOUS
<1> USE DEF WorkspaceInv
<1>1. CASE UNCHANGED compareVars /\ selection'.project = selection.project
  BY <1>1, ChoiceFrame
<1>2. CASE UNCHANGED workspaceVars
  BY <1>1, <1>2 DEF workspaceVars, compareVars
<1>3. CASE ResetComparison
  BY <1>3, ChoiceReset
<1>4. ASSUME NEW next, Commit(next) PROVE selection' = next
  BY <1>4 DEF Commit
<1>5. \A run : /\ SelectMapRun(selection, run).project = selection.project
               /\ \A sel : SelectMapRun(sel, run) = [sel EXCEPT !.run = run]
  BY DEF SelectMapRun, DisplayInv, Known
<1>6. CASE \/ \E p \in Projects : ChooseProject(p)
           \/ \E v \in Versions : ChooseVersion(v)
           \/ \E p \in Projects, v \in Versions \cup {None} : ApplyContext(p, v)
           \/ \E r \in Runs \cup {None} : PinRun(r)
  <2>1. ASSUME NEW p \in Projects, ChooseProject(p) PROVE ChoiceInv'
    BY <1>3, <2>1 DEF ChooseProject
  <2>2. ASSUME NEW v \in Versions, ChooseVersion(v) PROVE ChoiceInv'
    BY <1>1, <1>4, <2>2 DEF ChooseVersion, DisplayInv, Known
  <2>3. ASSUME NEW p \in Projects, NEW v \in Versions \cup {None}, ApplyContext(p, v)
        PROVE ChoiceInv'
    <3>1. selection'.project = p
      BY <1>4, <2>3 DEF ApplyContext
    <3> QED BY <1>1, <1>3, <2>3, <3>1 DEF ApplyContext
  <2>4. ASSUME NEW r \in Runs \cup {None}, PinRun(r) PROVE ChoiceInv'
    BY <1>1, <1>4, <1>5, <2>4 DEF PinRun
  <2> QED BY <1>6, <2>1, <2>2, <2>3, <2>4
<1>7. CASE MoveMap \/ RefreshRuns \/ RefreshReadModel \/ \E l \in {1, 2} : ToggleVisible(l)
  BY <1>1, <1>7 DEF MoveMap, RefreshRuns, RefreshReadModel, ToggleVisible, PanelBecomes, OfMap
<1>8. CASE ReloadPage \/ RefreshComparison
  BY <1>3, <1>8 DEF ReloadPage, RefreshComparison, ResetComparison
<1>9. ASSUME NEW r \in Runs, ChangeRun(r) \/ ChangeMetricsRun(r) PROVE ChoiceInv'
  BY <1>1, <1>5, <1>9 DEF ChangeRun, ChangeMetricsRun, PanelBecomes, OfMap
<1>10. ASSUME NEW r \in Runs, ToggleRun(r) \/ ChangeBaseline(r) PROVE ChoiceInv'
  <2>1. selection'.project = selection.project
    BY <1>4, <1>5, <1>10 DEF ToggleRun, ChangeBaseline
  <2>2. comparing' = None /\ compared' = None
    BY <1>10 DEF ToggleRun, ChangeBaseline, InvalidateComparison
  <2>3. OnceIn(chosen', RunsOf(selection.project))
    <3>1. OnceIn(chosen, RunsOf(selection.project))
      BY DEF ChoiceInv
    <3>2. CASE ToggleRun(r)
      BY <3>1, <3>2, ToggledOnce DEF ToggleRun
    <3>3. CASE ChangeBaseline(r)
      <4>1. PICK i \in 2..Len(chosen) : chosen[i] = r
        BY <3>3 DEF ChangeBaseline
      <4>2. chosen \in Seq(RunsOf(selection.project))
        BY <3>1 DEF OnceIn
      <4>3. Len(chosen) \in Nat
        BY <4>2, LenProperties
      <4>4. i \in 1..Len(chosen)
        BY ONLY <4>3, i \in 2..Len(chosen)
      <4>5. Contains(chosen, r)
        BY <4>1, <4>4 DEF Contains
      <4> QED BY <3>1, <3>3, <4>5, BaselineOnce DEF ChangeBaseline
    <3> QED BY <1>10, <3>2, <3>3
  <2> QED BY <2>1, <2>2, <2>3 DEF ChoiceInv
<1>11. CASE Compare
  <2>1. selection'.project = selection.project
    BY <1>4, <1>5, <1>11 DEF Compare
  <2>2. /\ comparing'.runs = chosen /\ comparing'.selection = selection
        /\ compared' = None /\ chosen' = chosen
    BY <1>11 DEF Compare
  <2>3. chosen # << >>
    <3>1. Len(chosen) \in MinCompared..MaxCompared /\ MinCompared \in Nat \ {0}
          /\ MaxCompared \in Nat \ {0}
      BY <1>11, WorkspaceAssumption DEF Compare
    <3>2. Len(chosen) # 0
      BY ONLY <3>1
    <3> QED BY <3>2, EmptySeq
  <2>4. Known(selection)
    BY DEF DisplayInv
  <2> QED BY <2>1, <2>2, <2>3, <2>4 DEF ChoiceInv, Known
<1>12. CASE CompareAnswers
  <2>1. selection' = SelectMapRun(comparing.selection, Head(comparing.runs))
    BY <1>4, <1>12 DEF CompareAnswers
  <2>2. Known(comparing.selection) /\ comparing.selection.project = selection.project
        /\ comparing.runs = chosen
    BY <1>12 DEF CompareAnswers, ChoiceInv
  <2>3. selection'.project = selection.project
    BY <2>1, <2>2 DEF SelectMapRun, Known
  <2> QED BY <1>12, <2>2, <2>3 DEF CompareAnswers, ChoiceInv
<1>13. CASE CompareFails
  BY <1>13 DEF CompareFails, ChoiceInv
<1>14. CASE ListAnswers \/ ListFails
  BY <1>1, <1>14 DEF ListAnswers, ListFails, PanelBecomes, OfMap
<1>15. ASSUME NEW q, PanelBecomes(q) PROVE ChoiceInv'
  BY <1>1, <1>15 DEF PanelBecomes, OfMap
<1>16. ASSUME NEW ok \in BOOLEAN, ViewportAnswers(ok) PROVE ChoiceInv'
  BY <1>15, <1>16 DEF ViewportAnswers, ZonesAnswer, RoadsAnswer, DemographyAnswer, BuildingsAnswer,
                      ParcelsAnswer, ViolationsAnswer, SourcesAnswer, InfrastructureAnswer
<1>17. ASSUME NEW ok \in BOOLEAN, DetailAnswers(ok) PROVE ChoiceInv'
  BY <1>15, <1>17 DEF DetailAnswers, RoadsInspected, DemographyInspected, MetricsInspected,
                      InfrastructureInspected, ViolationsInspected, BoundaryAnswers
<1>18. ASSUME NEW r \in Runs, NEW ok \in BOOLEAN, OrphanAnswers(r, ok) PROVE ChoiceInv'
  BY <1>1, <1>18 DEF OrphanAnswers, OfMap
<1> QED
  BY <1>2, <1>6, <1>7, <1>8, <1>9, <1>10, <1>11, <1>12, <1>13, <1>14, <1>16, <1>17, <1>18
     DEF WorkspaceNext

LEMMA WorkspaceInvInit == WorkspaceInit => WorkspaceInv
<1> SUFFICES ASSUME WorkspaceInit PROVE WorkspaceInv
  OBVIOUS
<1>1. Known(selection)
  BY DEF WorkspaceInit, Selections, Known
<1>2. visible \in SUBSET {1, 2}
  BY DEF WorkspaceInit, InitiallyVisible, Layers
<1>3. part \in MapParts \cup {"sources", "metrics", "buildings"}
  BY WorkspaceAssumption DEF WorkspaceInit, MapParts, AbortsOnReload
<1>4. PanelRight(panel, selection)
  BY <1>1, OpenedRight DEF WorkspaceInit
<1>5. DisplayInv
  BY <1>1, <1>2, <1>3, <1>4 DEF WorkspaceInit, DisplayInv
<1>6. ChoiceInv
  BY NothingChosen DEF WorkspaceInit, ChoiceInv
<1> QED BY <1>5, <1>6 DEF WorkspaceInv

LEMMA WorkspaceInvStep == WorkspaceInv /\ [WorkspaceNext]_workspaceVars => WorkspaceInv'
BY DisplayStep, ChoiceStep DEF WorkspaceInv

\* However late an answer arrives, nothing is displayed of a project or version that has been
\* left, and no layer of another run than the pinned one. Without a pin the layers and the
\* metrics of demography may still be those of another run of the project; details of roads,
\* infrastructure and violations and the dashboard are never of another run than the selected
\* one. For every set of projects, versions and runs, any ids in a URL or a form, and every
\* part but the buildings.
THEOREM DisplayFollows == WorkspaceSpec => []DisplayFollowsWorkspace
<1>1. WorkspaceInv => DisplayFollowsWorkspace
  <2> SUFFICES ASSUME WorkspaceInv PROVE DisplayFollowsWorkspace
    OBVIOUS
  <2>1. DisplayInv
    BY DEF WorkspaceInv
  <2>2. part = "sources" => /\ panel.shown[1] \in {None, selection.version}
                            /\ panel.shown[2] \in {None, selection.project}
    BY <2>1 DEF DisplayInv, PanelRight, SourcesPanel
  <2>3. part \in MapParts => \A l \in {1, 2} : panel.shown[l] \in Owners(selection) \cup {None}
    BY <2>1, MapIs DEF ViewOf
  <2>4. /\ part \in DetailParts => panel.detail \in {SelectedRun, None}
        /\ part = "demography" => panel.detail \in Owners(selection) \cup {None}
    <3>1. part \in DetailParts \/ part = "demography" => part \in MapParts
      BY DEF DetailParts, MapParts, AbortsOnReload
    <3> QED BY <2>1, <3>1, MapIs DEF DetailRight, DetailOf
  <2>5. part = "metrics" => /\ \A l \in {1, 2} : panel.shown[l] = None
                            /\ panel.detail \in {panel.local, None}
                            /\ selection.run \in panel.listed => panel.local = selection.run
    BY <2>1, NothingShown DEF DisplayInv, PanelRight, MetricsPanel, DetailOf
  <2>6. part \notin {"sources", "buildings"} => part \in MapParts \/ part = "metrics"
    BY <2>1 DEF DisplayInv
  <2> QED BY <2>2, <2>3, <2>4, <2>5, <2>6 DEF DisplayFollowsWorkspace, Owners, DetailParts
<1> QED BY <1>1, WorkspaceInvInit, WorkspaceInvStep, PTL DEF WorkspaceSpec

\* A comparison is of the runs chosen now, each of them once and of the open project, and the
\* handler that will answer it has seen that project, for every number of runs compared.
THEOREM ComparisonFollows == WorkspaceSpec => []ComparisonFollowsChoice
<1>1. WorkspaceInv => ComparisonFollowsChoice
  <2> SUFFICES ASSUME WorkspaceInv PROVE ComparisonFollowsChoice
    OBVIOUS
  <2>1. Known(selection) /\ ChoiceInv
    BY DEF WorkspaceInv, DisplayInv
  <2>2. chosen \in Seq(RunsOf(selection.project))
    BY <2>1 DEF ChoiceInv, OnceIn
  <2>3. \A i \in DOMAIN chosen : chosen[i] \in RunsOf(selection.project)
    BY <2>2, ElementOfSeq, LenProperties
  <2> QED BY <2>1, <2>3 DEF ComparisonFollowsChoice, ChoiceInv, OnceIn, Known
<1> QED BY <1>1, WorkspaceInvInit, WorkspaceInvStep, PTL DEF WorkspaceSpec

-----------------------------------------------------------------------------
(* Exports: attempt numbers are fencing tokens, only the newest attempt ends the job,   *)
(* success is final and can be downloaded.                                              *)

\* Boolean bookkeeping, apart because it needs a different prover.
Flags ==
  /\ stale \in BOOLEAN /\ delivery \in BOOLEAN
  /\ detached \in [Threads -> BOOLEAN]

Requests == {Put(b) : b \in Bytes} \cup {Copy, Delete}

Ranges ==
  /\ format \in {"geojson", "geopackage"} /\ backend \in {"local", "s3"}
  /\ job \in {"queued", "running", "failed", "succeeded"}
  /\ attempt \in 0..MaxAttempts
  /\ artifact \in Bytes
  /\ payload \in [Namespaces -> Bytes]
  /\ meta \in [Namespaces -> Bytes]
  /\ late \in SUBSET Requests
  /\ tries \in 0..MaxTries
  /\ pc \in [Threads -> Positions]
  /\ mine \in [Threads -> 0..MaxAttempts]
  /\ moves \in [Threads -> SUBSET {"payload", "meta"}]
  /\ stat \in [Threads -> Bytes]
  /\ err \in [Threads -> Errors \cup {"none"}]

LEMMA TypeSplit == TypeOK <=> Flags /\ Ranges
  BY DEF TypeOK, Flags, Ranges, Requests

\* The steps of one thread and of the environment, the cases of every proof below.
Claims(t) == ClaimStarted(t) \/ ClaimDeclined(t) \/ ClaimUnavailable(t)

Ends(t) ==
  Complete(t) \/ CompleteRefused(t) \/ CompleteLost(t) \/ Fail(t) \/ FailRaises(t)

\* The requests of S3ArtifactStore.promote and put, and what may go wrong with them.
Requested(t) ==
  \/ PutObject(t) \/ StatTemporary(t) \/ CompareObjects(t) \/ CopyObject(t)
  \/ VerifyCopy(t) \/ DeleteTemporary(t) \/ RequestFails(t)

Stored(t) ==
  Store(t) \/ RequestFails(t) \/ StorageFails(t) \/ \E class \in Errors : PipelineFails(t, class)

Step(t) == Claims(t) \/ Stored(t) \/ Ends(t) \/ Timeout(t) \/ Crash(t)

Environment ==
  \/ \E sent \in late : RequestArrives(sent)
  \/ StaleElapses \/ DuplicateDelivery \/ DropDelivery

LEMMA NextSplit == Next => (\E t \in Threads : Step(t)) \/ Environment
  BY DEF Next, ThreadStep, Outage, Claims, Ends, Stored, Step, Environment

\* What stat can have seen.
LEMMA StatsFound ==
  ASSUME Ranges, "whole" \in Stats
  PROVE  payload["ready"] # 0 /\ meta["ready"] # 0
  BY DEF Stats, Ranges, Namespaces

\* A request writes body and metadata at once, and never replaces a ready object.
LEMMA RequestExecutes ==
  ASSUME Ranges, NEW sent \in Requests, Executed(sent)
  PROVE  /\ payload' \in [Namespaces -> Bytes] /\ meta' = payload'
         /\ payload["ready"] # 0 => payload'["ready"] = payload["ready"]
         /\ payload'["ready"] \in {payload["ready"], payload["temporary"]}
         /\ \/ payload'["temporary"] \in {0, payload["temporary"]}
            \/ \E b \in Bytes : sent = Put(b) /\ payload'["temporary"] = b
<1> USE DEF Ranges, Namespaces
<1>1. 0 \in Bytes
  BY ExportAssumption DEF Bytes
<1>2. CASE \E b \in Bytes : sent = Put(b)
  <2> PICK b \in Bytes : sent = Put(b)
    BY <1>2
  <2>1. sent[1] = "put" /\ sent[2] = b /\ sent # Copy /\ sent # Delete
    BY DEF Put, Copy, Delete
  <2>2. payload' = [n \in Namespaces |-> IF n = "temporary" THEN b ELSE payload[n]]
    BY <2>1 DEF Executed, CopyAllowed
  <2>3. meta' = payload'
    BY DEF Executed, CopyAllowed
  <2> QED
    BY <2>2, <2>3
<1>3. CASE sent = Copy \/ sent = Delete
  <2>1. sent[1] # "put" /\ (sent = Copy => sent # Delete)
    BY <1>3 DEF Copy, Delete
  <2>2. payload' = [n \in Namespaces |->
          IF n = "temporary" THEN IF sent = Delete THEN 0 ELSE payload[n]
          ELSE IF sent = Copy /\ payload["ready"] = 0 /\ payload["temporary"] # 0
               THEN payload["temporary"] ELSE payload[n]]
    BY <2>1 DEF Executed, CopyAllowed
  <2>3. meta' = payload'
    BY DEF Executed, CopyAllowed
  <2> QED
    BY <1>1, <2>1, <2>2, <2>3
<1> QED
  BY <1>2, <1>3 DEF Requests

\* What a thread leaves behind it is a request it could have sent.
LEMMA FlightsAreRequests ==
  ASSUME Ranges, NEW t \in Threads
  PROVE  /\ Written(t) \in Bytes
         /\ {Put(Written(t)), Copy, Delete} \subseteq Requests
         /\ InFlight(t) \subseteq {Put(Written(t)), Copy, Delete}
         /\ backend # "s3" => InFlight(t) = {}
<1>1. Written(t) \in Bytes
  BY ExportAssumption DEF Written, Ranges, Bytes
<1> QED
  BY <1>1 DEF InFlight, Requests

\* The four steps that look at the ready artifact: they go on, raise, or return
\* what they have found whole.
Looks(t) ==
  \/ StatReady(t) \/ PromoteReturns(t) \/ Recover(t)
  \/ CompareObjects(t) /\ stat[t] = 0

LEMMA LooksFind ==
  ASSUME NEW t \in Threads, Looks(t)
  PROVE  /\ pc[t] \in {"executing", "checking", "recovering", "comparing"}
         /\ UNCHANGED <<setup, record, files, queue>>
         /\ \/ \E label \in {"writing", "recovering"} : Goto(t, label)
            \/ \E class \in Errors : Raises(t, class)
            \/ "whole" \in Stats /\ Returns(t, meta["ready"])
<1>1. Stats \subseteq {"absent", "broken", "whole"}
  BY DEF Stats
<1>2. Reuse(t) => \/ \E class \in Errors : Raises(t, class)
                  \/ Returns(t, meta["ready"])
  BY DEF Reuse, Errors
<1>3. CASE StatReady(t)
  <2> PICK seen \in Stats :
        CASE seen = "absent" -> Goto(t, "writing")
          [] seen = "broken" -> Raises(t, "transient")
          [] seen = "whole"  -> Reuse(t)
    BY <1>3 DEF StatReady
  <2> seen = "absent" \/ seen = "broken" \/ seen = "whole"
    BY <1>1
  <2> QED
    BY <1>2, <1>3 DEF StatReady, Errors
<1>4. ReturnsReady(t) => \/ Goto(t, "recovering")
                         \/ \E class \in Errors : Raises(t, class)
                         \/ "whole" \in Stats /\ Returns(t, meta["ready"])
  <2> HAVE ReturnsReady(t)
  <2> PICK seen \in Stats :
        CASE seen = "absent" -> Raises(t, "transient")
          [] seen = "broken" -> Goto(t, "recovering")
          [] seen = "whole"  ->
               IF format = "geopackage" /\ meta["ready"] # Written(t)
               THEN Raises(t, "transient")
               ELSE Returns(t, meta["ready"])
    BY DEF ReturnsReady
  <2> seen = "absent" \/ seen = "broken" \/ seen = "whole"
    BY <1>1
  <2> QED
    BY DEF Errors
<1>5. CASE Recover(t)
  BY <1>2, <1>5 DEF Recover, Errors
<1>6. CASE PromoteReturns(t)
  BY <1>4, <1>6 DEF PromoteReturns
<1>7. CASE CompareObjects(t) /\ stat[t] = 0
  BY <1>4, <1>7 DEF CompareObjects
<1> QED
  BY <1>3, <1>5, <1>6, <1>7 DEF Looks

-----------------------------------------------------------------------------
(* Type correctness. *)

\* What a step of S3ArtifactStore does to the objects and to the late requests.
Sent ==
  /\ payload' \in [Namespaces -> Bytes] /\ meta' \in [Namespaces -> Bytes]
  /\ late' \in SUBSET Requests

LEMMA RequestsSent ==
  ASSUME Ranges, NEW t \in Threads, Requested(t)
  PROVE  Sent
<1>1. CASE PutObject(t)
  BY <1>1, RequestExecutes, FlightsAreRequests DEF PutObject, Sent, Ranges
<1>2. CASE CopyObject(t) \/ DeleteTemporary(t)
  BY <1>2, RequestExecutes, FlightsAreRequests DEF CopyObject, DeleteTemporary, Sent, Ranges
<1>3. CASE StatTemporary(t) \/ CompareObjects(t) \/ VerifyCopy(t)
  BY <1>3 DEF StatTemporary, CompareObjects, VerifyCopy, files, Sent, Ranges
<1>4. CASE RequestFails(t)
  BY <1>4, FlightsAreRequests DEF RequestFails, Sent, Ranges
<1> QED
  BY <1>1, <1>2, <1>3, <1>4 DEF Requested

LEMMA RangesStep ==
  ASSUME Ranges, NEW t \in Threads, Step(t)
  PROVE  Ranges'
<1> USE ExportAssumption DEF Ranges, Positions, Errors, Bytes, Namespaces,
        Goto, Raises, Returns, Leave, setup, record, files, queue, local
<1>1. CASE Claims(t)
  BY <1>1 DEF Claims, ClaimStarted, ClaimDeclined, ClaimUnavailable, Taken,
              AttemptTx, Startable
<1>2. CASE Looks(t)
  BY <1>2, LooksFind
<1>3. CASE PutCheck(t) \/ PutPayload(t) \/ PutMeta(t)
  BY <1>3 DEF PutCheck, PutPayload, PutMeta, Written
<1>4. CASE PromoteCheck(t)
  BY <1>4 DEF PromoteCheck
<1>5. CASE MovePayload(t) \/ MoveMeta(t)
  BY <1>5 DEF MovePayload, MoveMeta
<1>6. CASE StorageFails(t) \/ \E class \in Errors : PipelineFails(t, class)
  BY <1>6 DEF StorageFails, PipelineFails
<1>7. CASE Complete(t) \/ CompleteRefused(t) \/ CompleteLost(t)
  BY <1>7 DEF Complete, CompleteRefused, CompleteLost, CompleteTx
<1>8. CASE Fail(t) \/ FailRaises(t)
  BY <1>8 DEF Fail, FailRaises, FailTx, Redeliver
<1>9. CASE Timeout(t)
  BY <1>9 DEF Timeout
<1>10. CASE Crash(t)
  BY <1>10, FlightsAreRequests DEF Crash, Redeliver
<1>11. CASE Requested(t) /\ ~Looks(t)
  <2>1. Sent
    BY <1>11, RequestsSent
  <2> QED
    BY <1>11, <2>1 DEF Sent, Requested, Looks, PutObject, StatTemporary, CompareObjects,
       CopyObject, VerifyCopy, DeleteTemporary, RequestFails
<1> QED
  BY <1>1, <1>2, <1>3, <1>4, <1>5, <1>6, <1>7, <1>8, <1>9, <1>10, <1>11
  DEF Step, Stored, Store, Requested, Looks, Ends

LEMMA FlagsStep ==
  ASSUME Flags, NEW t \in Threads, Step(t)
  PROVE  Flags'
<1>1. detached' \in [Threads -> BOOLEAN]
  <2> USE DEF Flags, Goto, Raises, Returns, Leave, local
  <2>1. CASE Claims(t)
    BY <2>1 DEF Claims, ClaimStarted, ClaimDeclined, ClaimUnavailable
  <2>2. CASE Looks(t)
    BY <2>2, LooksFind
  <2>3. CASE Stored(t) /\ ~Looks(t)
    BY <2>3 DEF Stored, Store, Looks, PutCheck, PutPayload, PutMeta, PromoteCheck,
       MovePayload, MoveMeta, StorageFails, PipelineFails, PutObject, StatTemporary,
       CompareObjects, CopyObject, VerifyCopy, DeleteTemporary, RequestFails
  <2>4. CASE Ends(t)
    BY <2>4 DEF Ends, Complete, CompleteRefused, CompleteLost, Fail, FailRaises
  <2>5. CASE Timeout(t) \/ Crash(t)
    BY <2>5 DEF Timeout, Crash
  <2> QED
    BY <2>1, <2>2, <2>3, <2>4, <2>5 DEF Step
<1>2. stale' \in BOOLEAN
  BY Zenon DEF Flags, Step, Claims, ClaimStarted, ClaimDeclined, ClaimUnavailable,
     AttemptTx, Stored, Store, StatReady, PutCheck, PutPayload, PutMeta, PromoteCheck,
     MovePayload, MoveMeta, PromoteReturns, Recover, PutObject, StatTemporary, CompareObjects,
     CopyObject, VerifyCopy, DeleteTemporary, RequestFails, StorageFails, PipelineFails, Ends,
     Complete, CompleteTx, CompleteRefused, CompleteLost, Fail, FailTx, FailRaises,
     Timeout, Crash, record
<1>3. delivery' \in BOOLEAN
  BY Zenon DEF Flags, Step, Claims, Taken, ClaimStarted, ClaimDeclined, ClaimUnavailable,
     Stored, Store, StatReady, PutCheck, PutPayload, PutMeta, PromoteCheck,
     MovePayload, MoveMeta, PromoteReturns, Recover, PutObject, StatTemporary, CompareObjects,
     CopyObject, VerifyCopy, DeleteTemporary, RequestFails, StorageFails, PipelineFails, Ends,
     Complete, CompleteRefused, CompleteLost, Fail, FailRaises, Timeout, Crash,
     Redeliver, queue
<1> QED
  BY <1>1, <1>2, <1>3 DEF Flags

LEMMA TypeStep == TypeOK /\ [Next]_vars => TypeOK'
<1> SUFFICES ASSUME TypeOK, [Next]_vars PROVE TypeOK'
  OBVIOUS
<1>1. CASE \E t \in Threads : Step(t)
  BY <1>1, TypeSplit, RangesStep, FlagsStep DEF TypeOK, Ranges, Flags, Requests
<1>2. CASE Environment
  <2>1. Ranges'
    <3> USE DEF Ranges, setup, record, files, queue, local
    <3> Ranges
      BY TypeSplit
    <3>1. CASE \E sent \in late : RequestArrives(sent)
      BY <3>1, RequestExecutes DEF RequestArrives
    <3>2. CASE StaleElapses \/ DuplicateDelivery \/ DropDelivery
      BY <3>2, ExportAssumption DEF StaleElapses, DuplicateDelivery, DropDelivery
    <3> QED
      BY <1>2, <3>1, <3>2 DEF Environment
  <2>2. Flags'
    <3> USE DEF Flags, record, queue, local
    <3>1. CASE \E sent \in late : RequestArrives(sent)
      BY <3>1, TypeSplit, Zenon DEF RequestArrives
    <3>2. CASE StaleElapses \/ DuplicateDelivery \/ DropDelivery
      BY <3>2, TypeSplit, Zenon DEF StaleElapses, DuplicateDelivery, DropDelivery
    <3> QED
      BY <1>2, <3>1, <3>2 DEF Environment
  <2> QED
    BY <2>1, <2>2, TypeSplit DEF TypeOK, Ranges, Flags, Requests
<1>3. CASE UNCHANGED vars
  BY <1>3 DEF vars, setup, record, files, queue, local, TypeOK
<1> QED
  BY <1>1, <1>2, <1>3, NextSplit

\* Statuses, counters, files and positions stay in range: no interleaving counts
\* an attempt beyond max_attempts (claim).
THEOREM ExportTypeCorrect == Spec => []TypeOK
<1>1. Init => TypeOK
  <2>1. Init => Flags
    BY Zenon DEF Init, Flags
  <2>2. Init => Ranges
    BY ExportAssumption, SMT DEF Init, Ranges, Requests, Positions, Errors, Bytes, Namespaces
  <2> QED
    BY <2>1, <2>2, TypeSplit
<1> QED
  BY <1>1, TypeStep, PTL DEF Spec

-----------------------------------------------------------------------------
(* Attempts. *)

\* No thread carries a number above the counter, two never share one, and only
\* the newest may find its job running.
Fenced ==
  /\ \A t \in Threads : mine[t] <= attempt
  /\ \A t \in Threads : pc[t] # "idle" => mine[t] # 0
  /\ AttemptsDistinct
  /\ CurrentIsRunning

LEMMA FencedStep == TypeOK /\ Fenced /\ [Next]_vars => Fenced'
<1> SUFFICES ASSUME TypeOK, Fenced, [Next]_vars PROVE Fenced'
  OBVIOUS
<1> USE DEF Ranges, Fenced, AttemptsDistinct, CurrentIsRunning, Positions,
        setup, record, files, queue, local
<1> Ranges
  BY TypeSplit
<1>1. ASSUME NEW t \in Threads, Step(t) PROVE Fenced'
  <2>1. CASE ClaimStarted(t)
    BY <2>1 DEF ClaimStarted, Taken, AttemptTx
  <2>2. CASE ClaimDeclined(t) \/ ClaimUnavailable(t)
    BY <2>2 DEF ClaimDeclined, ClaimUnavailable, AttemptTx
  <2>3. CASE Looks(t)
    BY <2>3, LooksFind DEF Goto, Raises, Returns
  <2>4. CASE PutCheck(t) \/ PutPayload(t) \/ PutMeta(t)
    BY <2>4 DEF PutCheck, PutPayload, PutMeta, Goto
  <2>5. CASE PromoteCheck(t)
    BY <2>5 DEF PromoteCheck, Goto, Raises
  <2>6. CASE MovePayload(t) \/ MoveMeta(t)
    BY <2>6 DEF MovePayload, MoveMeta, Goto, Raises
  <2>7. CASE StorageFails(t) \/ \E class \in Errors : PipelineFails(t, class)
    BY <2>7 DEF StorageFails, PipelineFails, Raises
  <2>8. CASE Complete(t) \/ CompleteRefused(t) \/ CompleteLost(t)
    BY <2>8 DEF Complete, CompleteRefused, CompleteLost, CompleteTx, Completable,
       Current, Raises, Leave
  <2>9. CASE Fail(t) \/ FailRaises(t)
    BY <2>9 DEF Fail, FailRaises, FailTx, Current, Leave
  <2>10. CASE Timeout(t) \/ Crash(t)
    BY <2>10 DEF Timeout, Crash, Leave
  <2>11. CASE Requested(t) /\ ~Looks(t)
    BY <2>11 DEF Requested, Looks, PutObject, StatTemporary, CompareObjects, CopyObject,
       VerifyCopy, DeleteTemporary, RequestFails, Goto, Raises, Returns
  <2> QED
    BY <1>1, <2>1, <2>2, <2>3, <2>4, <2>5, <2>6, <2>7, <2>8, <2>9, <2>10, <2>11
    DEF Step, Claims, Stored, Store, Requested, Looks, Ends
<1>2. CASE Environment
  BY <1>2 DEF Environment, RequestArrives, StaleElapses, DuplicateDelivery, DropDelivery
<1>3. CASE UNCHANGED vars
  BY <1>3 DEF vars
<1> QED
  BY <1>1, <1>2, <1>3, NextSplit

LEMMA FencedAlways == Spec => []Fenced
<1>1. Init => Fenced
  BY DEF Init, Fenced, AttemptsDistinct, CurrentIsRunning
<1> QED
  BY <1>1, FencedStep, ExportTypeCorrect, PTL DEF Spec

\* The number a claim gives out is carried by one thread only, also when threads
\* outlive their tasks (claim).
THEOREM AttemptsAreFenced == Spec => []AttemptsDistinct
<1>1. Fenced => AttemptsDistinct
  BY DEF Fenced
<1> QED
  BY <1>1, FencedAlways, PTL

\* An attempt that has lost the job to a newer one cannot end it (_require_attempt
\* in complete and fail).
THEOREM OnlyTheNewestEnds == Spec => []CurrentIsRunning
<1>1. Fenced => CurrentIsRunning
  BY DEF Fenced
<1> QED
  BY <1>1, FencedAlways, PTL

-----------------------------------------------------------------------------
(* The artifact. *)

\* Whoever completes has found both ready files, and ready files never vanish; all
\* bytes of a GeoJSON export are the same. The steps of one store are not taken over
\* the other.
Present ==
  /\ \A t \in Threads : pc[t] = "completing" =>
       stat[t] # 0 /\ payload["ready"] # 0 /\ meta["ready"] # 0
  /\ job = "succeeded" => artifact # 0 /\ payload["ready"] # 0 /\ meta["ready"] # 0
  /\ backend = "local" =>
       /\ late = {}
       /\ \A t \in Threads : pc[t] \notin {"comparing", "copying", "verifying", "deleting"}
  /\ backend = "s3" =>
       \A t \in Threads : pc[t] \notin {"describing", "moving_payload", "moving_meta"}

Same ==
  format = "geojson" =>
    /\ \A n \in Namespaces : payload[n] \in {0, 1} /\ meta[n] \in {0, 1}
    /\ late \subseteq {Put(1), Copy, Delete}
    /\ \A t \in Threads : stat[t] \in {0, 1}
    /\ artifact \in {0, 1}

\* Over S3, what promote has verified, and what the database refers to, is the ready
\* object, which no request replaces.
Verified ==
  backend = "s3" =>
    /\ payload = meta
    /\ \A t \in Threads :
         /\ pc[t] \in {"copying", "verifying", "deleting", "completing"} => stat[t] # 0
         /\ pc[t] \in {"deleting", "completing"} => stat[t] = meta["ready"]
    /\ job = "succeeded" => artifact # 0 /\ artifact = meta["ready"]

Kept == Present /\ Same /\ Verified

LEMMA KeptStep == TypeOK /\ Fenced /\ Kept /\ [Next]_vars => Kept'
<1> SUFFICES ASSUME TypeOK, Fenced, Kept, [Next]_vars PROVE Kept'
  OBVIOUS
<1> USE DEF Ranges, Kept, Present, Same, Verified, Positions, Namespaces, Bytes, setup,
        record, files, queue, local
<1> Ranges
  BY TypeSplit
<1>1. ASSUME NEW t \in Threads, Step(t) PROVE Kept'
  <2>1. CASE Claims(t)
    BY <2>1 DEF Claims, ClaimStarted, ClaimDeclined, ClaimUnavailable, Taken, AttemptTx
  <2>2. CASE Looks(t)
    BY <2>2, LooksFind, StatsFound DEF Goto, Raises, Returns
  <2>3. CASE PutCheck(t)
    BY <2>3 DEF PutCheck, Goto
  <2>4. CASE PutPayload(t) \/ PutMeta(t)
    BY <2>4 DEF PutPayload, PutMeta, Written, Goto
  <2>5. CASE PromoteCheck(t)
    BY <2>5 DEF PromoteCheck, Goto, Raises
  <2>6. CASE MovePayload(t)
    BY <2>6 DEF MovePayload, Goto, Raises
  <2>7. CASE MoveMeta(t)
    BY <2>7 DEF MoveMeta, Goto, Raises
  <2>8. CASE StorageFails(t) \/ \E class \in Errors : PipelineFails(t, class)
    BY <2>8 DEF StorageFails, PipelineFails, Raises
  <2>9. CASE Complete(t) \/ CompleteRefused(t) \/ CompleteLost(t)
    BY <2>9 DEF Complete, CompleteRefused, CompleteLost, CompleteTx, Completable, Raises,
       Leave
  <2>10. CASE Fail(t) \/ FailRaises(t)
    BY <2>10 DEF Fail, FailRaises, FailTx, Leave
  <2>11. CASE Timeout(t)
    BY <2>11 DEF Timeout
  <2>12. CASE Crash(t)
    <3>1. InFlight(t) \subseteq {Put(Written(t)), Copy, Delete}
          /\ (backend # "s3" => InFlight(t) = {})
      BY FlightsAreRequests
    <3> QED
      BY <2>12, <3>1 DEF Crash, Leave, Written
  <2>13. CASE PutObject(t)
    <3>1. Put(Written(t)) \in Requests
      BY FlightsAreRequests
    <3>2. meta' = payload' /\ payload' \in [Namespaces -> Bytes]
          /\ (payload["ready"] # 0 => payload'["ready"] = payload["ready"])
          /\ payload'["ready"] = payload["ready"] /\ payload'["temporary"] = Written(t)
      BY <2>13, <3>1, RequestExecutes DEF PutObject, Executed, Put, Copy, Delete
    <3> QED
      BY <2>13, <3>2 DEF PutObject, Goto, Written
  <2>14. CASE CopyObject(t) \/ DeleteTemporary(t)
    <3> PICK sent \in {Copy, Delete} : Executed(sent)
      BY <2>14 DEF CopyObject, DeleteTemporary
    <3>1. sent \in Requests
      BY FlightsAreRequests
    <3>2. \A b \in Bytes : sent # Put(b)
      BY DEF Put, Copy, Delete
    <3>3. /\ payload' \in [Namespaces -> Bytes] /\ meta' = payload'
          /\ payload["ready"] # 0 => payload'["ready"] = payload["ready"]
          /\ payload'["ready"] \in {payload["ready"], payload["temporary"]}
          /\ payload'["temporary"] \in {0, payload["temporary"]}
      BY <3>1, <3>2, RequestExecutes
    <3> QED
      BY <2>14, <3>3 DEF CopyObject, DeleteTemporary, Goto, Raises, Returns
  <2>15. CASE (StatTemporary(t) \/ CompareObjects(t) \/ VerifyCopy(t)) /\ ~Looks(t)
    BY <2>15 DEF StatTemporary, CompareObjects, VerifyCopy, Looks, Goto
  <2>16. CASE RequestFails(t)
    <3>1. InFlight(t) \subseteq {Put(Written(t)), Copy, Delete}
      BY FlightsAreRequests
    <3> QED
      BY <2>16, <3>1 DEF RequestFails, Raises, Written
  <2> QED
    BY <1>1, <2>1, <2>2, <2>3, <2>4, <2>5, <2>6, <2>7, <2>8, <2>9, <2>10, <2>11, <2>12,
       <2>13, <2>14, <2>15, <2>16
    DEF Step, Stored, Store, Looks, Ends
<1>2. CASE Environment
  <2>1. ASSUME NEW sent \in late, RequestArrives(sent) PROVE Kept'
    <3>1. /\ payload' \in [Namespaces -> Bytes] /\ meta' = payload'
          /\ payload["ready"] # 0 => payload'["ready"] = payload["ready"]
          /\ payload'["ready"] \in {payload["ready"], payload["temporary"]}
          /\ \/ payload'["temporary"] \in {0, payload["temporary"]}
             \/ \E b \in Bytes : sent = Put(b) /\ payload'["temporary"] = b
      BY <2>1, RequestExecutes DEF RequestArrives
    <3>2. backend = "s3"
      BY <2>1
    <3>3. format = "geojson" => \A b \in Bytes : sent = Put(b) => b = 1
      BY <2>1 DEF Put, Copy, Delete
    <3> QED
      BY <2>1, <3>1, <3>2, <3>3 DEF RequestArrives
  <2>2. CASE StaleElapses \/ DuplicateDelivery \/ DropDelivery
    BY <2>2 DEF StaleElapses, DuplicateDelivery, DropDelivery
  <2> QED
    BY <1>2, <2>1, <2>2 DEF Environment
<1>3. CASE UNCHANGED vars
  BY <1>3 DEF vars
<1> QED
  BY <1>1, <1>2, <1>3, NextSplit

LEMMA KeptAlways == Spec => []Kept
<1>1. Init => Kept
  BY DEF Init, Kept, Present, Same, Verified, Namespaces
<1> QED
  BY <1>1, KeptStep, FencedAlways, ExportTypeCorrect, PTL DEF Spec

\* A succeeded export has both files of its artifact, whatever crashes, overlapping
\* attempts and late requests preceded, and for GeoJSON and in S3 with the recorded
\* checksum (promote, complete, ready_artifact_ref).
THEOREM SucceededIsDownloadable == Spec => []Downloadable
<1>1. TypeOK /\ Kept => Downloadable
  BY DEF TypeOK, Kept, Present, Same, Verified, Downloadable, Namespaces
<1> QED
  BY <1>1, KeptAlways, ExportTypeCorrect, PTL

-----------------------------------------------------------------------------
(* Finality. *)

Final ==
  /\ UNCHANGED record
  /\ format = "geojson" \/ backend = "s3" => UNCHANGED <<payload["ready"], meta["ready"]>>

LEMMA FinalStep ==
  TypeOK /\ Kept /\ [Next]_vars => [job = "succeeded" => Final]_vars
<1> SUFFICES ASSUME TypeOK, Kept, Next, job = "succeeded" PROVE Final
  OBVIOUS
<1> USE DEF Final, Ranges, Kept, Present, Same, Verified, Namespaces, Bytes, setup, record, files
<1> Ranges
  BY TypeSplit
<1>1. ASSUME NEW t \in Threads, Step(t) PROVE Final
  <2>1. CASE Claims(t)
    BY <2>1 DEF Claims, ClaimStarted, ClaimDeclined, ClaimUnavailable, AttemptTx, Startable
  <2>2. CASE Looks(t)
    BY <2>2, LooksFind
  <2>3. CASE PutCheck(t) \/ PutPayload(t) \/ PutMeta(t) \/ PromoteCheck(t)
    BY <2>3 DEF PutCheck, PutPayload, PutMeta, PromoteCheck
  <2>4. CASE MovePayload(t) \/ MoveMeta(t)
    BY <2>4 DEF MovePayload, MoveMeta
  <2>5. CASE StorageFails(t) \/ \E class \in Errors : PipelineFails(t, class)
    BY <2>5 DEF StorageFails, PipelineFails
  <2>6. CASE Ends(t)
    BY <2>6 DEF Ends, Complete, CompleteRefused, CompleteLost, CompleteTx, Completable,
       Fail, FailRaises, FailTx, Current
  <2>7. CASE Timeout(t) \/ Crash(t) \/ RequestFails(t)
    BY <2>7 DEF Timeout, Crash, RequestFails
  <2>8. CASE PutObject(t) \/ CopyObject(t) \/ DeleteTemporary(t)
    <3> PICK sent \in {Put(Written(t)), Copy, Delete} : Executed(sent)
      BY <2>8 DEF PutObject, CopyObject, DeleteTemporary
    <3>1. meta' = payload' /\ payload'["ready"] = payload["ready"]
      BY FlightsAreRequests, RequestExecutes
    <3>2. backend = "s3"
      BY <2>8 DEF PutObject, CopyObject, DeleteTemporary
    <3> QED
      BY <2>8, <3>1, <3>2 DEF PutObject, CopyObject, DeleteTemporary
  <2>9. CASE StatTemporary(t) \/ CompareObjects(t) \/ VerifyCopy(t)
    BY <2>9 DEF StatTemporary, CompareObjects, VerifyCopy
  <2> QED
    BY <1>1, <2>1, <2>2, <2>3, <2>4, <2>5, <2>6, <2>7, <2>8, <2>9
    DEF Step, Stored, Store, Looks
<1>2. CASE Environment
  <2>1. ASSUME NEW sent \in late, RequestArrives(sent) PROVE Final
    <3>1. meta' = payload' /\ payload'["ready"] = payload["ready"]
      BY <2>1, RequestExecutes DEF RequestArrives
    <3> QED
      BY <2>1, <3>1 DEF RequestArrives
  <2>2. CASE StaleElapses \/ DuplicateDelivery \/ DropDelivery
    BY <2>2 DEF StaleElapses, DuplicateDelivery, DropDelivery
  <2> QED
    BY <1>2, <2>1, <2>2 DEF Environment
<1> QED
  BY <1>1, <1>2, NextSplit

\* No late attempt, delivery, request or error touches a succeeded export (claim,
\* _require_attempt, promote).
THEOREM SuccessIsFinal == Spec => SucceededIsFinal
<1>1. TypeOK /\ Kept /\ [Next]_vars =>
        [job = "succeeded" =>
           /\ UNCHANGED record
           /\ format = "geojson" \/ backend = "s3" => UNCHANGED <<payload["ready"], meta["ready"]>>]_vars
  BY FinalStep DEF Final
<1> QED
  BY <1>1, KeptAlways, ExportTypeCorrect, PTL DEF Spec, SucceededIsFinal
=============================================================================

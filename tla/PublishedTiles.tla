---------------------------- MODULE PublishedTiles ----------------------------
(***************************************************************************)
(* The vector tiles of a project with one source version and one run. A    *)
(* tile of a ready version or of a succeeded run is given an ETag and      *)
(* cached for a year as immutable. The server decides it in statements of  *)
(* its own, between which ingest, run and project go on; row locks and     *)
(* triggers of the database (migration 0023) are to keep what it decided.  *)
(* The writes of rows are counted: a row set is the number of its write.   *)
(***************************************************************************)
EXTENDS Naturals

CONSTANTS Crs,        \* working reference systems
          MaxWrites,  \* bound: writes of source rows, and of generated rows
          Nobody      \* no tile, no reference system

ASSUME TilesAssumption == MaxWrites \in Nat /\ Nobody \notin Crs

VARIABLES
  projectCrs,   \* projects.working_srid
  version,      \* status of the source version
  ingesting,      \* the ingest: where it is, and the reference system of its claim
  sourceRows,   \* the rows of the version: write and reference system
  linked,       \* the run is linked with the version
  runState, runCrs,
  runRows,      \* the generated rows of the run
  tile,         \* the request: where it is, its layer, and what it has read
  served        \* layer -> what a tile served as immutable contains

projectVars == <<projectCrs, runCrs>>
ingestVars == <<version, ingesting, sourceRows>>
runVars == <<linked, runState, runRows>>
clientVars == <<tile, served>>
tileVars == <<projectVars, ingestVars, runVars, clientVars>>

TileLayers == {"source", "existing", "generated"}
RowSets == [write : 0..MaxWrites, crs : Crs \cup {Nobody}]
NoRequest == [at |-> "idle", layer |-> Nobody, crs |-> Nobody, immutable |-> FALSE]
NoAttempt == [at |-> "idle", crs |-> Nobody]

TilesTypeOK ==
  /\ projectCrs \in Crs /\ runCrs \in Crs
  /\ version \in {"uploaded", "processing", "ready", "failed"}
  /\ ingesting \in [at : {"idle", "executing", "inserted", "completing"}, crs : Crs \cup {Nobody}]
  /\ sourceRows \in RowSets
  /\ linked \in BOOLEAN
  /\ runState \in {"running", "succeeded", "failed"} /\ runRows \in 0..MaxWrites
  /\ tile \in [at : {"idle", "status", "links", "encode"}, layer : TileLayers \cup {Nobody},
               crs : Crs \cup {Nobody}, immutable : BOOLEAN]

TilesInit ==
  /\ projectCrs \in Crs /\ runCrs = projectCrs
  /\ version = "uploaded" /\ ingesting = NoAttempt
  /\ sourceRows = [write |-> 0, crs |-> Nobody]
  /\ linked \in BOOLEAN
  /\ runState = "running" /\ runRows = 0
  /\ tile = NoRequest
  /\ served = [layer \in TileLayers |-> Nobody]

-----------------------------------------------------------------------------
(* The project *)

\* update_project, and guard_published_project_working_srid. A completion locks the
\* project, so that the trigger sees the version ready; the run's success does not,
\* but no run reads the project's reference system again.
PatchCrs(crs) ==
  /\ crs # projectCrs
  /\ version # "ready" /\ runState # "succeeded"
  /\ projectCrs' = crs
  /\ UNCHANGED <<runCrs, ingestVars, runVars, clientVars>>

-----------------------------------------------------------------------------
(* The ingest: IngestJob has its attempts in full. *)

\* claim hands the reference system of the project to the attempt.
ClaimIngest ==
  /\ version # "ready" /\ ingesting.at = "idle"
  /\ version' = "processing"
  /\ ingesting' = [at |-> "executing", crs |-> projectCrs]
  /\ UNCHANGED <<projectVars, sourceRows, runVars, clientVars>>

\* The rows of a version, in the reference system the project has now; the version
\* is locked until the commit, the project is not.
InsertRows ==
  /\ ingesting.at = "executing" /\ sourceRows.write < MaxWrites
  /\ version # "ready"
  /\ ingesting.crs = projectCrs
  /\ ingesting' = [ingesting EXCEPT !.at = "inserted"]
  /\ UNCHANGED <<projectVars, version, sourceRows, runVars, clientVars>>

CommitRows ==
  /\ ingesting.at = "inserted"
  /\ sourceRows' = [write |-> sourceRows.write + 1, crs |-> ingesting.crs]
  /\ ingesting' = [ingesting EXCEPT !.at = "completing"]
  /\ UNCHANGED <<projectVars, version, runVars, clientVars>>

CompleteIngest ==
  /\ ingesting.at = "completing"
  /\ version' = "ready"
  /\ ingesting' = NoAttempt
  /\ UNCHANGED <<projectVars, sourceRows, runVars, clientVars>>

\* Any error, the refusal of rows in another reference system included.
FailIngest ==
  /\ ingesting.at # "idle"
  /\ version' = "failed"
  /\ ingesting' = NoAttempt
  /\ UNCHANGED <<projectVars, sourceRows, runVars, clientVars>>

-----------------------------------------------------------------------------
(* The run: GeneratedEntities has its writers. *)

WriteRun ==
  /\ runState # "succeeded" /\ runRows < MaxWrites
  /\ runRows' = runRows + 1
  /\ UNCHANGED <<projectVars, ingestVars, linked, runState, clientVars>>

\* guard_generation_run_dataset_refs
Link ==
  /\ runState # "succeeded"
  /\ linked' = ~linked
  /\ UNCHANGED <<projectVars, ingestVars, runState, runRows, clientVars>>

EndRun(outcome) ==
  /\ runState = "running"
  /\ runState' = outcome
  /\ UNCHANGED <<projectVars, ingestVars, linked, runRows, clientVars>>

-----------------------------------------------------------------------------
(* A request for a tile *)

storeVars == <<projectVars, ingestVars, runVars>>

\* get_context: whose reference system the tile is in.
TileContext(layer) ==
  /\ tile.at = "idle"
  /\ tile' = [at |-> "status", layer |-> layer, immutable |-> FALSE,
              crs |-> IF layer = "source" THEN projectCrs ELSE runCrs]
  /\ UNCHANGED <<storeVars, served>>

OwnerPublished == IF tile.layer = "source" THEN version = "ready" ELSE runState = "succeeded"

TileStatus ==
  /\ tile.at = "status"
  /\ tile' = [tile EXCEPT !.immutable = OwnerPublished,
                !.at = IF tile.layer = "existing" /\ OwnerPublished THEN "links" ELSE "encode"]
  /\ UNCHANGED <<storeVars, served>>

\* Mutant: a succeeded run is taken to have ready versions only.
LinkedReadyAssumed == TRUE

LinkedReady == linked => version = "ready"

TileLinks ==
  /\ tile.at = "links"
  /\ tile' = [tile EXCEPT !.immutable = LinkedReady, !.at = "encode"]
  /\ UNCHANGED <<storeVars, served>>

\* What the query of a layer finds.
Found(layer) ==
  CASE layer = "source" -> sourceRows.write
    [] layer = "existing" -> IF linked THEN sourceRows.write ELSE 0
    [] layer = "generated" -> runRows

\* PostGIS compares a bounding box with rows of its own reference system only.
Comparable ==
  \/ tile.layer = "generated"
  \/ Found(tile.layer) = 0
  \/ tile.crs = sourceRows.crs

TileEncode ==
  /\ tile.at = "encode" /\ Comparable
  /\ served' = IF tile.immutable
               THEN [served EXCEPT ![tile.layer] = Found(tile.layer)] ELSE served
  /\ tile' = NoRequest
  /\ UNCHANGED storeVars

\* The comparison, the timeout or the byte budget fails: nothing is served.
TileFails ==
  /\ tile.at # "idle"
  /\ tile' = NoRequest
  /\ UNCHANGED <<storeVars, served>>

-----------------------------------------------------------------------------
TilesNext ==
  \/ \E crs \in Crs : PatchCrs(crs)
  \/ ClaimIngest \/ InsertRows \/ CommitRows \/ CompleteIngest \/ FailIngest
  \/ WriteRun \/ Link \/ \E outcome \in {"succeeded", "failed"} : EndRun(outcome)
  \/ \E layer \in TileLayers : TileContext(layer)
  \/ TileStatus \/ TileLinks \/ TileEncode \/ TileFails

TilesSpec == TilesInit /\ [][TilesNext]_tileVars

-----------------------------------------------------------------------------
\* docs/MVT_TILE_API.md: what was served as immutable is what is there, for good,
\* although its status, its links and its rows were read one after the other.
TilesFrozen == \A layer \in TileLayers : served[layer] \in {Nobody, Found(layer)}

\* Migration 0010 refuses a row that is not in the working reference system of its
\* project, and 0023 a change of it once a version is ready. Between the two, an
\* ingest completes with rows of a system the project no longer has.
ReadyRowsInProjectCrs ==
  version = "ready" /\ sourceRows.write # 0 => sourceRows.crs = projectCrs
=============================================================================

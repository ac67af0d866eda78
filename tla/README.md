# Verification of the urban development generator

TLA+ models, TLC runs and TLAPS proofs kept beside the code in `src/`. Paths
below are relative to the repository. Every definition of a model is mapped to
the lines it stands for in `PROJECT.json` (`map`); the hazards that the
properties are for are listed there too, each at its line.

Contents: [the system](#1-the-system), [inventory](#2-inventory),
[modules](#3-the-modules-and-the-code), [runs](#4-the-runs),
[fairness](#5-fairness), [proofs](#6-proofs),
[disagreements found](#7-disagreements-between-code-and-documents),
[not modelled](#8-what-is-not-modelled), [plan](#9-plan).

## 1. The system

A user uploads spatial data, the backend turns it into versioned datasets, and a
generation run turns datasets into a planning scenario (roads, zones, blocks,
parcels, buildings, people, infrastructure), which can be exported.

```
 browser --HTTP--> backend/app (FastAPI) --one transaction--> PostgreSQL
                                                   jobs + rows + job_outbox
                 outbox dispatcher  <--polls-------------'
                        | enqueue (at least once)
                        v
                   Redis / ARQ --job--> worker/ (one asyncio loop per worker,
                        ^                 blocking work in asyncio.to_thread)
                        '--Retry(defer)--     |  short transactions, row locks
                                              v
                                   PostgreSQL   artifact store (files or S3)
```

Three facts shape everything that is hard here:

* **PostgreSQL decides, Redis only wakes.** A delivery carries nothing but a job
  id; whether it leads to work is decided under row locks by `claim`. Deliveries
  are duplicated (the dispatcher enqueues before it commits), dropped (ARQ gives
  up after five executions of one enqueued job: `worker/settings.py` sets no
  `max_tries`) and repeated after a crash of the worker.
* **A task can end while its work goes on.** `job_timeout` cancels the coroutine,
  not the thread that `asyncio.to_thread` started. Attempts of one job overlap.
* **Database and artifact store share no transaction.** A file is put under a
  temporary name, renamed payload first and metadata second, and referenced by a
  row in a later transaction; every crash in between leaves something behind.

## 2. Inventory

### Components with a protocol

| Component | State | Operations | Works with | What is hard | What makes it correct |
|---|---|---|---|---|---|
| Generation run lifecycle (`db/generation_state.py`, `application/generation.py`, `worker/tasks.py`) | run and job status, attempt count, cancellation request, backoff, one row per stage; per thread: position and active stage | claim, check_cancelled, start/skip/complete/fail/cancel_stage, complete/fail/cancel_run, request_cancel | stage plan, batches (claim), outbox | cancellation against completion, lost acknowledgements, duplicate deliveries, a handler that raises | one executor; a request wins; rows follow the plan; the terminal status is what the rows say and never changes; every run ends |
| Stage registry and plan (`core/urban_generator/stages/registry.py`) | the DAG; depth-first marks, heap of ready stages, decisions | validate, topological order, build_plan | the lifecycle takes its plan as given | every order of iteration, cycles, skips through chains | exactly the cyclic graphs are refused, the order is canonical, the skips are the downstream closure |
| Scenario batches (`db/scenario_batch.py`) | batch status and limit, membership, child runs | create, create_matrix, require_batch_capacity (in claim), refresh | lifecycle, ARQ's executions | admission while others claim; a parent that is settled from children in motion; deferral | the limit holds; a finished parent is true for ever; a waiting child proceeds |
| Ingest jobs (`db/ingest_job_repository.py`, `application/ingest.py`, `db/source_layer_writer.py`, `services/raster_normalization.py`) | job, dataset version, attempt count, source rows, normalized raster | claim, pipeline (replace rows or normalize raster), complete, fail | artifact store, ARQ | overlapping attempts without a fencing token, a lock taken too late, cleanup by key | version and job agree; ready is final; a ready version has its data |
| Export jobs (`db/geojson_export_repository.py`, `db/geopackage_export_repository.py`, `application/geojson_exports.py`, `services/geojson_export.py`, `services/geopackage_export.py`) | job, attempt count, referenced artifact; four files or two objects per key | claim, put, promote, stat, complete, fail | either store, ARQ | crash between two renames, overlapping attempts under one key, requests executed late | success is final and can be downloaded; an attempt is ended only by itself |
| Stage artifact publication and artifact GC (`db/stage_artifact_publication.py`, `db/artifact_gc.py`, `adapters/local_artifact_store.py`) | artifact rows with state and age, files with age, scan cursor | publish (two transactions around promote), collect (rows, then orphans) | lifecycle (runs and stages end), hourly cron and operator | a run looked at without a lock, four unlinks without a transaction, a bounded batch | nothing of a running run and nothing published is deleted; what ended runs leave is collected |
| Local artifact store (`adapters/local_artifact_store.py`) | payload and metadata in two namespaces | put, promote, stat, open, delete, stale_run_refs, is_stale_run_ref | exports, publication, GC, ingest | two files are not one | part of the three modules above, file by file |
| S3 artifact store (`adapters/s3_artifact_store.py`) | an object with its metadata in two namespaces | put, promote (copy and delete), stat, open, delete, the scan | the same | promote is three requests; a request without an answer may be executed later | a ready object is never replaced; as the exports use it, in `ExportJob` |
| Job admission (`db/job_admission.py` and its callers `db/run_control.py`, `db/scenario_batch.py`, `db/exact_rerun.py`, the ingest and export repositories) | active jobs of a project; per request: whether it has locked the project | enforce_project_job_capacity, create, retry, create_matrix, submit, rerun | every submitter; claims and ends of jobs change the count | a count that must still be true at the commit; requests a client repeats; one submitter that does not ask | generations stay within their capacity; a repeated request does not work twice |
| Outbox (`db/outbox_dispatcher.py`, `services/job_dispatcher.py`, `worker/outbox.py`) | pending messages, their backoff; per dispatcher: the rows its transaction has locked and what became of each | dispatch_due, run_forever | Redis, every job | one transaction for a batch of which some enqueues fail; a crash after Redis has accepted; two dispatchers; ARQ forgets its keys | every committed job is handed over, none before its commit |
| Run control (`db/run_control.py`) | run and job rows | create, retry, cancel | lifecycle, admission | a retry repeated by the client | a source run has one manual retry; cancel is in the lifecycle |

All of them are interleavings of transactions; the lists of operations are those
of the source. Failures that matter: a process dies, a commit is not
acknowledged, the store or the database raises, a timeout ends a task.

### The planning core

The stages of `core/urban_generator` are sequential and share no state: each takes
typed inputs and returns typed outputs, and the worker calls one after the other.
What is hard is inside: greedy loops over a budget, local search, union-find and
heaps with stale entries, whole people dealt out by remainders, indexes beside the
list they index. What is geometry or a raster search is a choice or an input.

| Component | State | Operations | What is hard | What makes it correct |
|---|---|---|---|---|
| Suitability (`stages/constraints.py`, `stages/suitability.py`, `suitability/`) | mask of exclusions, one raster per factor, the combination | burn, evaluate a factor tile by tile, combine | windows with a margin at tile borders, cells without data, weights of absent factors | a cell's score follows from the cell and its neighbours alone |
| Constraints (`constraints/`, `domain/constraints.py`, `metrics/constraints.py`, `db/run_validation_writer.py`) | registry, report, its metrics, the row kept with the run | register, evaluate a rule, report, adapt, persist | boxes of an index against the geometries, limits of what is looked at, touching against overlapping | a rule fails exactly if it is broken; every failure is counted once |
| Zoning (`stages/zoning.py`, `zoning/`) | seeds, partition, class of each cell, moves, current objective | select seeds, assign, refine move by move, evaluate | granularity of cells against target shares; a lexicographic objective whose parts move together | no class exceeds its share by a cell; refinement never worsens and ends only where no cell is left alone without need |
| Road network (`stages/roads.py`, `roads/`) | anchors, planned pairs, routed connections, attempts, attachments | select anchors, plan, route, grow, attach | routes that fail one by one; two candidate lists of which the heads are looked at; components counted anew for the attachment | the baseline is a minimum spanning tree, growth uses its budget, attached means connected |
| Road graph (`roads/endpoint_snapping.py` to `roads/road_validation.py`) | ends of roads, cuts, nodes and edges, counts of what went, union-find | snap, node, build, remove duplicates and tiny edges, prune, unite, classify and validate | crossings at different grades; dead ends that appear when others go | one node where roads meet at one grade and none elsewhere; the cleanup is neutral to connectivity |
| Blocks and parcels (`stages/blocks.py`, `blocks/`) | faces of the road graph, fragments being split, groups, shared boundaries, heap with versions, parcels with frontages | polygonize, clip, check frontage, split, merge or drop slivers, associate, subdivide | stale heap entries, boundaries that move from group to group | no land lost or doubled; no sliver left that could have merged |
| Buildings (`stages/buildings.py`, `buildings/`) | sources with envelopes, archetypes and candidates; proposals, accepted footprints, index chunks, owners, attributes, areas | prepare sources, open one, propose, look at one footprint, close, attribute and sum | chunks that merge like a binary counter beside an index built once; windows of two measures | no two buildings too close; no source beyond its window; a verdict that means it |
| Demography (`stages/demography.py`, `demography/`) | samples of the raster, capacity, residents, age groups, jobs, zone and block totals, the audit of the calibration | sampling, then the calls of `execute`, in order | windows that overlap; rounding of whole people along three axes that must agree; the calibration moves people again; every result checks itself | exact margins, fair remainders, evidence counted once, an audit that reports what moved |
| Accessibility (`infrastructure/network_snap.py`, `infrastructure/accessibility.py`, `roads/networkx_backend.py`) | snapped subjects, searches, heap with stale entries, outcomes | snap, plan searches, pop, settle, answer | a search that stops at its last target, batches, equal distances | every subject gets its nearest facility or distance, or the reason why not |
| Infrastructure (`infrastructure/`) | existing facilities, candidate sites, remaining demand, coverage cache, accepted sites, metrics | adapt, generate, shape, judge, demand, accessibility, benefits, select, apply, replay | a cache and a remaining demand read by one call and changed by the next | every benefit is served, nothing feasible is missed, the metrics agree |
| Composite scores (`metrics/normalization.py`, `metrics/score.py`, `metrics/sensitivity.py`, `db/run_metrics_writer.py`, `db/run_score_sensitivity_reader.py`) | evaluations of runs, the envelope kept with each, rankings under perturbed weights | score, keep, load, rank, perturb | normalised values and weights changed together, missing metrics, ties | no run ranks below one it is at least as good as; the baseline is what was kept |

### The web client

| Component | State | Operations | What is hard | What makes it correct |
|---|---|---|---|---|
| Workspace (`App.tsx`, `workspaceContext.ts`, `compareSelection.ts`, `ComparePanel.tsx`, the panels) | selection of project, version and pinned run; per panel: its run list, the run chosen in it, one viewport request, one request for details, what its map sources hold; the runs to compare and a pending comparison | choose, pin, toggle, move the map, compare, reload | answers arrive late, in any order or not at all, against effects that run when their dependencies change and panels that are mounted anew | what is displayed belongs to the selection; a comparison is of the runs that are chosen |
| Runs panel (`RunsPanel.tsx`, `runPolling.ts`) | runs on display, one request or one timer, consecutive failures | poll, refresh, create, cancel, retry | the poll stops by itself, by what the server read some time ago | a panel that has fallen silent has missed nothing |

### What is kept and shown of a run

| Component | State | Operations | What is hard | What makes it correct |
|---|---|---|---|---|
| Generated-entity writers (`db/generated_*_writer.py`, `db/infrastructure_ui_read_model_writer.py`) | the generated rows of a run with their references, payloads and totals | seven replacements, each one transaction | every writer compares with rows others have replaced since; SET NULL, CASCADE and RESTRICT act behind its back | a row's reference is true; payloads and totals are of one result |
| Layers (`application/*_layers.py`, `db/*_query_repository.py`) | none | the viewports of the panels, the paged vector layers | limits applied before rows are dropped, one limit for two statements, pages by the last id | an answer is whole or says that it is not |
| Tiles (`application/mvt_tiles.py`, `db/mvt_tile_query_repository.py`, migration 0023) | what clients and proxies have cached for a year | get_tile in four statements | rows, links, statuses and reference systems change in between | what was served as immutable stays true |

### Components without a model

Scenario matrix expansion, uploads (`application/uploads.py`), ingest readers and
normalisers, the raw metrics of roads, land use and buildings that the adapters take, the
HTTP API, the upload and suitability panels, operational metrics, benchmarks and scripts: sequential input and output, presentation, or sums over finished entities.
Each is listed in `PROJECT.json` with its reason.

## 3. The modules and the code

One step of a model is one transaction under its row locks, unless the code lets
another transaction in between; then it is cut there, and the header says where.
"Mutant" operators stand before the operator they would replace: each is a
plausible bug, and each property is broken by at least one of them.

**`GenerationLifecycle`.** One run. `store` holds the rows; every method of
`SqlAlchemyGenerationStateStore` is an operator named `...Tx` and its guard
(`Claimable`, `Insertable`, `Completable`, `Finishable`, `Failable`) its rechecks
under lock. `GenerationJobService.run` is the program of a thread: `pc` names the
store call it makes next, `active` is `active_stage`, `transient` the class of the
error it handles. `Raise` is an exception of a stage; `Handle` the except branch.
`FailUnconfigured` is `_fail_unconfigured_generation`. Failures are actions of
their own: `Crash`, `HandlerRaises`, `BodyCommitUnacknowledged`,
`HandlerCommitUnacknowledged`, `ClaimUnacknowledged`.

**`RunContract`.** The abstract specification: what a client that polls a run may
see, without workers, deliveries, attempts or failures. `GenerationLifecycle`
implements it under `status <- run, cancelling <- cancelRequested, rows <- stage`.

**`StagePlan`.** `_validate_acyclic` as a depth-first search with an explicit stack
(`Visit`, `MeetCycle`, `Leave`), `topological_stages` as Kahn's algorithm with a
heap (`Pop`, `EndOrder`), `build_plan` (`Decide`). Tuples are iterated in every
order. The properties are declarative: knots, least closed sets, least eligible
names. What `PlanAssumption` of the lifecycle assumes of a plan follows from them.

**`ScenarioBatch`.** A run is its status here. A claim is three steps
(`LookupBatch`, `ClaimAdmitted`, `ClaimCommits`), because the code reads the
membership and locks the batch before it locks the run. Both ways to create a
batch are there (`Manual` over existing runs; the others with their runs), and
ARQ's executions (`tries`).

**`IngestJob`.** `complete` is cut in two (`CompleteLock`, `CompleteCommit`): it
holds the version's row lock, for which the writers of source rows wait; `replace` is
cut at each of its statements (`ReplaceDelete`, `ReplaceInsert`, `ReplaceCommit`). It reads
the status without a lock; what locks the version (`HoldsShare`) and tests it again is the
row triggers of migrations 0010 and 0023. `rows` is the attempt whose rows
are committed, `seen` those a DELETE has seen under read committed. `temporary` and
`ready` are the raster in the two namespaces. Time is one bit, `stale`.

**`ExportJob`.** GeoJSON and GeoPackage are the same program; bytes are numbers: the
bytes of a GeoJSON export are always the same, a GeoPackage has those of the attempt
that wrote it. `backend` is the store. In the local one each of the four files of a key
changes in a step of its own (`PutPayload` to `MoveMeta`). In S3 an object carries its
metadata, and every request of `promote` is a step: two stats (`StatTemporary`,
`CompareObjects`), the conditional copy, the stat behind it, the delete. A request that
fails has been executed, is executed at any later time or never (`late`, `RequestArrives`),
and so is one whose process dies. What is taken from the server is that it honours
`If-None-Match: *` on a copy and executes each request as a whole; the code relies on both.

**`ArtifactCollection`.** Two sides of one store. A publisher puts payload and
metadata, registers a row, promotes the two files, references the row; a failure
takes it back to `stored`, from where `publish` may be called again; a publisher that
has died takes no further step. A collector locks the oldest eligible rows, looks at
the run without a lock, deletes file by file in the order of
`LocalArtifactStore.delete`, commits the expiry, and then scans for orphans behind a
cursor. Ages are abstracted: a pass splits rows and files into older and younger than
its cutoff in every way in which a row is not older than the files of its key and
temporary rows age in the order of `created_at`; what is written during a pass is
younger. The cursor is the set of keys behind it. Every key
has a run of its own, which ends in two steps (stage, run).

**`JobQueue`.** The jobs of one project from request to worker. A submitter locks the
project's row and passes the count in one step (`Admit`), then commits or fails
(`Commit`, `Rollback`), so that other transactions fall in between; the exact rerun
locks the project FOR SHARE and counts nothing (`ExactRerun`). A dispatcher locks due
rows that nobody else has locked (`Scan`), enqueues them one at a time (`Enqueue`,
`EnqueueFails`, where Redis may have accepted all the same), marks them in one
transaction (`CommitBatch`), or dies (`DispatcherCrash`). `redis` is ARQ's key of a job:
while it is queued or its result is kept, enqueueing it again does nothing. Workers
are reduced to `Claim`, `Finish`, `Retry`, `Consume`.

**`DeliveryContract`.** The abstract specification of the outbox: a committed job is
owed, is handed over once it is owed, and eventually is. `JobQueue` implements it under
`owed <- Created \ handed`.

**`Suitability`, `Constraints`, `Zoning`, `Roads`, `RoadGraph`, `Blocks`, `Buildings`,
`Demography`, `Accessibility`, `Infrastructure`, `Scoring`.** One stage or one part of
it each, one action per call it makes, and one per iteration of a loop whose
intermediate states matter (a tile, a rule, a refinement move, a growth attempt, a heap
entry, a footprint, a placement). Geometry is replaced by what the code asks of it:

* `Suitability`: cells of a raster with elevations that may be unknown, and the tiles
  they are read in; what a shape burns and the degrees of a gradient are inputs;
* `Constraints`: sets of unit cells and their boxes;
* `Zoning`: which cells of a partition share a border, and their areas;
* `Roads`: passable regions, direct distances, and a least-cost search that fails or
  returns a length at or above the distance;
* `RoadGraph`: lines as sequences of numbered points with a grade, and which ends are
  near each other; the report of the cleanup, the classes with their reasons, the components
  and the metrics are built from the edges that stay, as numbers or numerator and denominator;
* `Blocks`: land made of pieces no operation cuts further, a polygon being a connected
  set of them, a road edge a boundary of pieces; where an axis falls is a choice;
* `Buildings`: footprints at numbered candidates, what an envelope leaves of a source, the
  pairs that are too close and those whose boxes an index would return; the draws of the
  seed are choices, also the order of proposals, since proposal ids are hashes;
* `Demography`: nothing but numbers, in units in which the arithmetic is exact, so what the
  code computes in floats (jobs, weights of evidence) has no rounding here, and a density is
  kept as the pair it divides. A raster is a grid of cells, a subject a block with its
  windows. `Sample` precedes the stage, `Refuse` is any call that turns its input down
  (limits, overlapping or outlying windows, a missing baseline, fixed demography that is not
  allowed), and a result that fails its own checks (`...Whole`) ends in `error`;
* `Accessibility`: nodes on a line and roads of any length between them; a case asks for the
  existing facilities, for candidates or for one path, by Dijkstra or A*;
* `Infrastructure`: network distances, and candidate sources that are strips around an
  anchor, so that the search for a window of the target area is really a bisection. The
  loop around benefits, selection and application is that of its callers
  (`benchmarks/infrastructure_reference.py`, the acceptance tests); the repository has no
  stage for it;
* `Scoring`: raw values in a few steps around the bounds of their policies.

The constant `...Cases` of each is the set of its inputs, and its `ASSUME` says what
configuration classes and earlier stages guarantee of them. Results of the stages check
themselves when they are built (`__post_init__`); those checks are operators named
`...Accepted` and part of the module's property, which therefore says that no sequence of
legal calls ends in the pipeline refusing its own work.

**`Workspace`.** React as it is used here: a handler, the render it causes and the
effects of that render are one step, and an effect runs exactly when a value it depends
on has changed (`Rendered` compares the panel and the selection before and after).
`panel` is the state of one part of the map, `part` says which; `Load...` is the
`loadViewport` of a panel up to its first await, `...Answer` what comes behind it. What an
`AbortController` has aborted has no effect any more, so an aborted request is forgotten.
The buildings do not abort when they are unmounted: such a request is an orphan and
still finds the source on the map (`OrphanAnswers`). `CompareAnswers` goes on with the
selection of the render in which `Compare` was called, as the closure does.

**`RunPolling`.** The hook as one request (`ServeList` when the server reads,
`ListArrives` when the answer is there) or one timer, the three actions of the panel, and
the workers as they change the rows meanwhile.

**`GeneratedEntities`.** One run. Each writer is one action: its comparison with the rows
that are there is the guard, what it deletes and inserts the update, and the foreign keys
are part of it: deleting zones empties zone columns (`Unzoned`), deleting blocks or parcels
deletes buildings, and a building that hosts a facility cannot be deleted (`NoneHosts`).
Nothing here tells a running run from a failed one, so a run is open or has succeeded. A
result is known by a name; `metrics` says whose totals the run shows.

**`LayerAnswers`.** The readers as operators over those rows: `First` is ORDER BY id LIMIT
n, each `...View` a service, each `List...` its query, `Pages` the sequence of pages a client
gets that follows `next_after`. Geometry and properties are left out.

**`PublishedTiles`.** One project, one source version, one run, one request for a tile.
A set of rows is the number of its write. `TileContext`, `TileStatus`, `TileLinks` and
`TileEncode` are the statements of `get_tile`; between them an ingest (with its row locks),
a run, its links and the project's reference system go on.

**`MCGenerationLifecycle`, `MCIngestJob`, `MCJobQueue`, `MCPlanning`, `MCServing`, `MCWorkspace`**
compose what one run checks. In the first two a bit chosen initially separates behaviours with failures
from those without, for which liveness is stated. `MCJobQueue` has two slices of
`JobQueue`: every interleaving of requests and workers with a dispatcher that does not
fail, and every failure and interleaving of dispatchers under requests one by one.
`MCPlanning` puts the registry and the eleven modules of the core side by side; one of them
runs in a behaviour, the others are idle. `MCServing` does the same with what leaves the
server: exports, the generated rows with their readers, and the tiles; `MCWorkspace` with
the workspace and the polling of runs in the browser.

## 4. The runs

| Run | Constants | What it shows |
|---|---|---|
| `generation_safety` | 2 workers; 4 stages, `1 <- 2 <- 4` and `3` skipped; 3 attempts; duplicates below 2 deliveries. With failures: one worker has no runtime factory; without: both have one | all safety and action properties of one run under every failure, and that it implements `RunContract`; without failures every run ends, and every request in a cancelled run (`CalmRunSettles`) |
| `generation_unconfigured` | 2 stages, one worker without factory | violated: see section 7 |
| `batch_safety` | 4 runs, 2 batches (one manual), 2 workers, batches of 3 to 4 runs, 2 executions; symmetric | limit of matrix batches, truth of parents |
| `batch_deferral` | 3 runs, 1 matrix batch, 5 executions | violated: see section 7 |
| `ingest_safety` | 2 threads, 3 attempts, 5 executions, with and without failures | the rows of a ready version never change again; without failures every ingest comes to a stable end |
| `ingest_raster_lost` | the same | violated: see section 7 |
| `serving` | exports: 2 threads, 3 attempts, 2 executions, both formats, both stores; rows: 1 zone of 2 classes, 2 blocks, 1 parcel, 1 building, 2 facility types, 2 results, limits to 3; tiles: 2 reference systems, 2 writes of each side; symmetric in threads, classes and results | fencing, a succeeded export is whole, in S3 also when requests arrive late; rows agree in any order of the writers and are answered whole; an immutable tile stays true |
| `artifact_collection` | 2 keys, 1 collector, batch of 1, 1 failure | publication and collection: safety, and that orphans are collected |
| `job_queue` | 3 jobs, 2 submitters, capacity 2 for generations and for the project, 1 for the rest, a matrix of 2; 2 dispatchers, batch of 2, 1 crash, 2 jobs in that slice | capacity of generations, idempotent requests, and that the outbox implements `DeliveryContract` |
| `planning` | all graphs of 4 stages with at most 2 dependencies each, stage 1 alone naming an unregistered one, up to 2 requests to skip where there is an order; the families of inputs in `MCPlanning` | the sixteen properties of the registry and the core, one or two for each module |
| `workspace` | 2 projects, 3 versions, 3 runs, comparisons of 2, each of nine parts of the map; polling: 2 runs, 3 failures | late answers neither display what was left nor revive a comparison; a silent poll is current |
| `tiles_reprojected` | 2 reference systems, 2 writes | violated: see section 7 |

Why these bounds are enough to be interesting:

* Two threads and three attempts: an overlap needs two; a third attempt can start
  after either of them has reported. Three threads were tried once for `ExportJob`
  over the local store (5 971 164 states, no error) and add nothing but time.
* Four stages: a chain of two dependencies, an independent skipped stage between
  them, and a stage behind it; a request, an error or a lost commit then happens at
  a first, a middle and a last row. Four stages with two dependencies each contain
  every cycle up to length four and every diamond.
* Four runs and batches of three or four: a limit of one or two is really
  contended, and a run can be a candidate for both batches.
* `MaxTries = 2` in runs without liveness drops deliveries early; the others use
  ARQ's five, since there the number decides.
* A batch of one with two keys: one artifact is in the way of the other, in the row
  selection as well as in the scan. Two collectors on two keys without failures
  (9 961 036 states) and two collectors on one key with two failures were checked
  once; the theorems of section 6 hold for any number of collectors.
* `MaxFailures` counts errors of publishers and collectors together; an error that
  happens twice in one place returns to a state that one error already reached.
* Three jobs under a capacity of two: the third request, or a matrix of two behind one
  job, is refused or waits for an end, and a job that is retried, rerun or claimed
  again meets a full project. Two dispatchers and batches of one or two rows: one
  skips what the other has locked, and a batch is lost after Redis has accepted part.
* `planning` enumerates families, not single cases: zoning over a line, a ring, a
  star, chords and two components with areas of 1 to 3 and shares down to 0; growth
  budgets that end before and after the candidates do, in both modes, with regions
  that leave baseline pairs unroutable; slivers with none, one and several neighbours
  of equal and different boundary, with both policies and an operation limit that is
  met; footprints whose boxes meet though they do not, up to the number at which index
  chunks merge; populations below, at and above capacity with all ties, over two mixes of
  uses and three rasters (none, densities and counts with gaps), with every pair of windows of
  a raster of six cells and every reason to turn an input down; sites that
  compete for one demand. Suitability has rasters of a few cells read in tiles of one to
  three, with every factor form, gaps and exclusions; constraints have rules of each of the
  five kinds over cells that overlap, touch and lie apart, with limits that are met; scores
  have runs that tie, miss a metric or meet a target from either side. Road graphs have
  crossings of each pair of grades, ends within and beyond the tolerance, chains of dead ends
  and parallel roads, more lines or roads than a limit allows; networks have several shortest
  ways, double roads and a node alone, and paths from several sources to a node that is
  reached, unreachable or absent.
  Buildings have every status of an envelope, the three footprint forms and candidate limits;
  infrastructure has sources without zone, of a forbidden one, clipped with enough and too
  few rounds, doubled and over every limit, and records with and without a rule. Every action
  of these modules occurs in the run, and every error that a legal input can cause.
* `workspace`: a project with two versions and two runs and one with one of each: the
  version can change under a run and a pin, the pin under a panel that has the run and one
  that has not, the project under all of them. A URL and the form may name the version and the
  run of the other project. Only one request of a kind is in flight at a time, so two runs are enough to tell a late answer from a new one. Parts do not
  interact, so one at a time is looked at, and a list of runs is answered with every subset.

* `serving`: two blocks let a result be about one of them, a zone of two classes be replaced by
  one of its name; a facility of each type is hosted or not; limits reach from one to the
  number of features and beyond. Tiles: a second write is what could falsify a cached one.

Symmetry is used only in runs without liveness properties. Deadlock is checked
where nothing may stop (`generation_*`, `artifact_collection`); a batch, an ingest
or an export that is over has no next step, nor has a browser in which nobody clicks, a queue that has created its jobs and
ended them neither, and a plan ends.

## 5. Fairness

* `GenerationLifecycle!Fairness`, restricted in `MCGenerationLifecycle` to behaviours
  without failures: weak fairness of each worker's steps (a thread that is not killed
  goes on, an idle one takes the delivery ARQ gives it) and of the backoff timer.
  Errors, requests and duplicates are never forced. `docs/adr/0003` declares the
  recovery of a crashed generation out of scope, and no liveness is claimed for it.
* `ScenarioBatch!LiveSpec`: weak fairness of workers, strong fairness of taking each
  waiting delivery, as Redis serves its queue in order. The deferral is refuted in
  spite of it.
* `IngestJob!Fairness`, restricted in the same way: weak fairness of the threads; no
  outage, crash or timeout.
* `ArtifactCollection!Spec`: runs end; the cron of `worker/settings.py` starts a
  collection every hour, and one that goes on ends. Since every key is written
  finitely often, from some pass on every row and file is older than the cutoff
  (`<>[]...StartLatePass`). Publishers are not fair: they may die anywhere.
* `JobQueue!Fairness`: dispatchers run for ever, backoffs elapse, and strong fairness of
  a successful enqueue of each job: Redis accepts a job that is offered again and again.
  Crashes are bounded by a constant; without a bound on them, or with a Redis that
  never accepts, nothing could be promised.
* The algorithms have no fairness. That they end is a matter of their loops, which the
  run explores to the last state.

`ExportJob` claims no liveness: after a crash in the last attempt a claim answers
EXHAUSTED and writes nothing, so the job stays running. `Workspace` and `RunPolling`
assume no fairness: a server may never answer.

## 6. Proofs

All theorems hold for every value of the constants under the `ASSUME`s of the
module, which TLC evaluates in the runs. Most need no induction over data: what a loop
computes is an invariant of its iterations. Where the model itself is a recursive function or a
fold (regions, sums, matrices) the induction is carried out over a *set* of what satisfies the
statement, since the prover cannot instantiate the induction theorems of the library, which
take an operator: `SubsetInduction` of `PlanningProofs`; sets that grow step by step are settled
after as many steps as they could have elements (`ChainSettles`).

| Module | Theorems | Assumptions | Inductive invariant, and why it is needed |
|---|---|---|---|
| `GenerationLifecycleProofs` | `TypeCorrect`, `OneExecutor`, `QueuedIsReplaySafe`, `CancellationWins`, `PlanIsFollowed`, `OutcomeIsBorneOut` | `PlanAssumption` (what `StagePlan` checks of a plan), `LimitAssumption` | `IndInv`: the row properties together with `SingleExecutor` and `ThreadMatchesRows`. None is inductive alone: that a completion keeps the plan order depends on what the thread knows of its row, and that knowledge survives only because no second thread changes it |
| the same | `LifecycleImplementsContract`, `CancellationStopsProgress`, `TerminalIsFrozen` | the same | step simulation under `IndInv`; `BackoffOnlyQueued` for the last |
| `ScenarioBatchProofs` | `BatchTypeCorrect`, `LimitIsRespected`, `ParentAgreesWithChildren`, `MembershipIsFrozen` | `BatchAssumption` | `LockInv` (a claim of a matrix batch holds the batch's lock alone), `CreatedInv`, `RoomInv` (between count and commit there is room: nothing but the commit of the holder adds a running child); for the parent `OwnInv`, `Populated` and `ParentInv` (a run belongs to one batch, a created batch has children, and a finished batch has none that can still move) |
| `PlanningProofs` | `VerdictIsRight`, `OrderIsRight`, `SkipsAreRight`, together `RegistryIsRight` | `SizeAssumption` | `SearchInv` (finished stages hold no knot, a set each of whose members depends on another of it; the path on the stack is a chain of dependencies), `KahnInv` (what is not yet listed and not on the heap waits for something not listed; were the heap empty too early, the rest would be a knot), `PlanInv` (decided stages contain what they depend on, so a skip cannot be missed later). They speak of iterations of the loops and need no induction over the graph |
| the same; the second in `SettlementProofs` | `TargetsAreRespected`, `RefinementIsSettled` | `ZoningAssumption` | `ZoningInv` (labels are labels), and for the first the property itself: a class that lacks area after a cell was dealt has not overdrawn, and the neediest class lacks some because the targets of all four add up to the developable area (`AreasAddUp`). For the second `CarriedInv` (the stored objective is that of the labels; without a move they are those the refinement was given, after moves they are better, with at most one cell changed a move); it is kept because what is better than something better is better (`BetterStill`, for objectives of six whole numbers: `ObjectiveTyped`) and `SettingKept` lets the objective of the given labels be carried along. A remnant that could still be joined would be an improving move (`JoiningHelps`: no region gets undersized that was not, and one ceases to be; it rests on `RegionSearch`, that a region is what the search closes on), and stable means there is none |
| the same | `ApportionIsFair`, `MatrixIsExact`, `MarginsAreExact`, `ResidentsAreFair` | `DemographyAssumption` | Arithmetic: the remainders of a split add up to a multiple of the divisor, so many candidates have one, and as many win (`LargestRemainders`). A row takes no more than a column has left, and what the columns have left before a row is what the later rows need (`MatrixProgress`), so that the last row empties them. `DemographyInv` carries the results from step to step: `SamplesRight` (a sample is that of the union of its windows, since accepted windows are disjoint: `CellsApart`), `FairSplit` of the residents, `Dealt` (age groups add up per building), `Agree` (buildings, blocks and zones of residents, age groups and jobs), which the calibration keeps because both margins of the matrix of a zone have its population as their sum, and `AuditRight` (what some blocks gain the others lose, so half the shifts are the arrivals: `ShiftsHalve`). From it follows that each result passes the checks it makes of itself (`LevelsAgree`, `AggregateAgrees`, `CalibrationAgrees`, `ProfileIsBuilt`), so `error` is never reached |
| the same | `RankingsAreHonest` | `ScoringAssumption` (`ContestInput`: what the configuration classes accept of profiles, weights and factors) | Arithmetic: normalised values grow in the direction of the policy (`PresentValueGrows`), so the weighted sums do. The places by a strict order are a permutation of 1..n (`PlacesAre`), so gained and lost places cancel out whatever the two orders. `AnalysisInv` keeps that each evaluation is what normalisation and weights of its run make of it, that the data set is read from such, and that every ranking so far is the one by its weights |
| the same | `GrowthIsWithinBudget`, `AnchorsAreAttached` | `RoadAssumption` (`RoadInput`: positive distances that obey the triangle inequality, and the checked policies) | Components are a recursive function; what is needed of it is that it is the smallest set around an anchor no pair leaves (`ComponentIs`). A shortest pair that leaves a set can be exchanged for a pair of any spanning tree without making it longer (`ShortestMayStay`), so `PrimRuns` keeps a minimum tree around what is chosen (`PrimIsMinimal`). `TriedInv` accounts the attempts: different pairs outside the baseline, spent within the budget; what stops the growth is in `StopInv`, since behind the head of an intent nothing is shorter (`HeadsAre`). Components are numbered by their first anchors, each once (`NthIs`), and `AttachedInv` has the k-th attachment in the k-th component |
| the same | `SuitabilityIsExact` (`SuitabilityExact`) | `SuitabilityAssumption` (`SuitabilityInput`: what the configuration classes accept, layers burned on the grid, degrees for every gradient) | `SuitInv`: the mask is what forbids a cell, each finished factor has been read from the whole grid (`ReadFrom`), the current one from the cells of the tiles read so far (`FactorInv`). A step adds one tile; that its values are those of the cells themselves rests on the margin of the window, which shows every neighbour that is in the grid (`WindowShows`), and on the derivative along an axis being, up to its sign, the rise between the known neighbours (`AxisIs`). The tiles leave no cell out (`TilesCoverGrid`), so the last tile makes the factor whole. Weighted values are at most the unit times the weights, so no score leaves its range (`ScoreIs`); valid, excluded and invalid cells share none (`StatisticsAre`) |
| `SettlementProofs` | `LoopIsAccounted`, `LoopKeepsItsRules`, `MetricsAreBalanced` (parts of `PlacementAccounts`) | `SupplyAssumption` (`SupplyInput`: what the configuration and input classes accept) | Arithmetic: demands served in order until the capacity is used get the benefit in all (`GivenIsBenefit`, by induction over the reached demands from the last one down), and less demand is less benefit (`BenefitFalls`). `SupplyInv` keeps the `Ledger` of the loop: what is gone is what was accepted; no free site offers more than any accepted one did, so benefits fall; a site with capacity left has emptied its reach. A selection is the next best of what remains until it is applied, so none is stale, and `Replays` (some replay of the accepted sites leaves what remains) grows with every site, so the metrics find no mismatch |
| the same | `AccessesAreExact` (`AccessExact`) | `AccessAssumption` (`AccessInput`: roads of positive length between nodes that are there, a batch size and limits that the policies accept) | `Metric` is a recursive function, in which ways grow node by node; what is needed of it is that a function on the nodes that climbs no road by more than the road's length climbs no way by more (`MetricIs`). So the search is judged along roads alone: `PopInv` says that each tentative entry is a way (`TentativeInv`), that the best of each open node waits in the heap (`FrontierInv`), that what roads of settled nodes lead to is known (`RoadsCovered`), and that no entry of the heap comes before a settled node (`HeapIsLater`). The last is kept because priorities grow along roads, with the heuristic too: its scale is at most any ratio of a length to a straight distance, so it climbs no road by more than the road (`PriorityIs`). It is not enough to know distances: the search without a goal settles in the order of distance *and* origin, which is why of equally near facilities the first wins (`SettledAreNearest`). `Tree` and `WaysLeadBack` give the path. `AccessInv` joins that with the queue of searches, which are those the subjects call for (`PlanFits`; batches leave no target out: `BatchesCover`), and with what each answered search has found (`FoundInv`), from which every check of the batch result passes (`BatchDoesFit`) |
| the same | `BuildingsKeepTheirRules` (`BuildingsFit`) | `BuildingAssumption` (`BuildingInput`: archetypes and parcels told apart, finitely many candidates, windows within the area of a source, pairs of different footprints) | `BuildingInv`: each source has an account of what was proposed, taken and refused (`Accounted`), for the current one also of what is still to be looked at (`Current`). A footprint refused for its distance or for the window stays `Unfit` as more is placed, because areas only add up (`WindowShrinks`), so running out of candidates means that none of them could be taken. `IndexInv`: the chunks and the index built once hold whatever is there, before and after chunks merge (`AddedHolds`), so nothing is taken too close. That all buildings are within all sites follows by induction over the sources (`PartsWithinBounds`) from the windows of each |
| `IngestJobProofs` | `IngestTypeCorrect`, `VersionAndJobAgree`, `AttemptsAreDistinct`, `ReadyVersionHasRows`, `ReadyRowsAreFrozen`, `ReadyVersionIsFinal` | `IngestAssumption` | `Numbered` (no attempt number exceeds the counter, none is shared), `Grounded` (whoever completes has replaced the rows or is a raster), `Locked` (while an INSERT is not committed no complete is under way) |
| `JobQueueProofs` | `QueueTypeCorrect`, `GenerationsAreLimited`, `RequestsAreIdempotent`, `DeliveryIsSafe` | `QueueAssumption` | `IndInv`: `OneAdmission` (at most one submitter holds the project), `Dense` (jobs are numbered without gaps, so an insertion overwrites none), `StillFits` (what was counted and found missing at the lock is so at the commit: until then generations only end). For the contract `RelayInv`: what is locked or marked is committed. Its safety half only; that owed jobs are handed over is liveness |
| `ArtifactCollectionProofs` | `PassesAreBounded`, `ReferencedStaysWhole`, `RunningRunsLoseNothing`, `PublicationIsFinal` | `CollectionAssumption` | `CollectionInv`: `Budget` (what a pass has spent and has still to look at fits its batch; rests on `LowestAreFew`: the elements with fewer than n below them are at most n), `LockInv` (locked rows are disjoint and temporary, and what is expired is locked), `Targeted` (a pass deletes only for runs that have ended, which is final), `Publication` (before its second transaction a publisher whose run has not ended has both ready files) |
| `ServingProofs` | `DisplayFollows`, `ComparisonFollows` | `WorkspaceAssumption` | `WorkspaceInv`: `DisplayInv` (what a panel lists is of the project it is mounted for, and whatever it shows, loads or inspects belongs to a run of that project, the pinned one if there is a pin, before and after each render and its effects; so an answer that arrives fits, or its request has been aborted). Nothing is assumed of the ids of a URL or a form: a panel looks for the pin among the runs it has listed (`ResolvedIs`), which is why one of another project displays nothing. The second half is `ChoiceInv`: chosen runs are of the open project, each once, and a comparison asked for is of them. The renders make it a case analysis over the nine parts; the lemmas on panels do it once for each kind of panel. That removing a run leaves none of it needs `LeastOf`: a set of positions has a least one |
| the same | `QuietPanelIsCurrent` | `RunPollingAssumption` | `PollInv`: an answer under way without an active run, with no action pending, is already what the rows are, since only the panel itself starts them again |
| the same | `ReferencesAreTrue`, `PayloadsAreOfOneResult` | `KeysAssumption` | `EntitiesInv`: both statements with the types of rows; each writer deletes what refers to the rows it replaces, or is refused |
| the same | `AnswersAreWhole` | `KeysAssumption`, `LayersAssumption` (the ids of a layer are finite sets of naturals) | No further invariant than `EntitiesInv`: the first limit + 1 rows being no more than limit means they are all (`AskingOneMore`). A demand row is dropped after the limit only if it has no payload, and `PayloadsAgree` has none or all dropped. Pages are a recursive function, unfolded along the ids from the last one down: each page takes the rows up to its greatest and the rest follow |
| the same | `ServedTilesAreFrozen` | `TilesAssumption` | `TilesInv`: what the three statements of a tile have read is still so when the tile is served, because a ready version, a finished run and its links do not change |
| the same | `ExportTypeCorrect`, `AttemptsAreFenced`, `OnlyTheNewestEnds`, `SucceededIsDownloadable`, `SuccessIsFinal` | `ExportAssumption` | `Fenced` (numbers are distinct and bounded, the newest runs), `Kept`: `Present` (whoever completes has found both ready files, and ready files never vanish), `Same` (all bytes of a GeoJSON export are equal, also those of late requests), `Verified` (in S3 what promote has verified, and what the job refers to, is the ready object, which no request replaces) |

Every case of a step lemma is one action or one group of actions that change the
same variables; helper lemmas (`NextSplit`) regroup `Next` accordingly.

Proved and checked by no run: `AttemptsAreFenced` and `AttemptsAreDistinct` (no two living
attempts share a number), on which fencing rests; `VersionAndJobAgree`; and that an end is
final and a request stops progress: `TerminalIsFrozen`, `CancellationStopsProgress`,
`MembershipIsFrozen`, `SuccessIsFinal`, `ReadyVersionIsFinal`, `PublicationIsFinal`.

Only model-checked: all liveness properties (`CalmRunSettles`, `CalmSettles`,
`OrphansCollected`, the fairness of `DeliveryContract`), because the
prover handles neither fairness nor ENABLED; and of the core the road graph, blocks
and constraints, and of the infrastructure the existing facilities
and candidates (they are sorted by an operator of the module `TLC`, which the prover does not
know), the geometry of the sites and the distances of the metrics. What those stages compute is
most of all geometry given by the cases, and their invariants relate whole sequences of grants,
cuts or placements; section 9 says which are worth a proof.

## 7. Disagreements between code and documents

Four runs check a sentence of the documentation and find a behaviour of the code
that contradicts it; `PROJECT.json` (`findings`) quotes the sentences.

* `generation_unconfigured`: a cancellation request that commits between `claim` and
  `fail_run` of a worker without a runtime factory leaves the run running for ever
  (`worker/tasks.py:227`).
* `batch_deferral`: a deferral costs one of ARQ's five executions; a child behind
  slow siblings is dropped while it is queued (`db/scenario_batch.py:320`).
* `ingest_raster_lost`: the cleanup after a failed normalization deletes the raster
  that another attempt has completed with (`services/raster_normalization.py:220`).
* `tiles_reprojected`: the reference system of a project changes between the rows of an
  ingest and its completion (`application/projects.py:89`). The version is ready with rows of
  the former system, neither can be changed any more, and every query of its layers compares
  a box of one system with rows of the other, which PostGIS refuses.

Met while modelling, and not made a run of their own:

* For a *manual* batch the limit may be exceeded by a claim that read the run's
  membership before `create` committed and so skips the capacity check;
  `MatrixWithinLimit` is therefore stated for batches that come with their runs.
* `job_admission.py:1-5` and `docs/JOB_ADMISSION.md` call the limits database-authoritative.
  An exact rerun inserts a job without counting, and a failed ingest or export becomes
  active again when it is claimed. `GenerationWithinLimit` therefore leaves the exact
  reruns out, and is stated for generations, which never become active again.
* The exact rerun locks the source run before the project (`exact_rerun.py:88`), the
  manual retry the project before the run: PostgreSQL may have to abort one of them.
* Blocks that are written again lose their payloads, while the totals stay in `metrics_json`:
  the demography and demand layers then answer with nothing instead of "not published"
  (`db/vector_layer_query_repository.py:203-213`). `PayloadsAgree` allows it. So does a
  rewritten facility lose its accessibility. While a facility is hosted, blocks and
  buildings cannot be written again (RESTRICT).
* With a `boundary_setback_m` above its default of zero the frontages of a parcel are not on
  the border of its envelope, and the building stage fails when it takes candidates
  (`buildings/placement.py:324`); it also fails when a bar archetype meets a frontage of more
  than two points. Both are outcomes of `Buildings`. The stage never passes the road axes
  the placement could take.
* A message marked dispatched is never sent again; when Redis loses its data the job
  stays queued.
* Over S3 the scan of the collector forgets its place: when the batch is full in the middle
  of a listing that is not truncated, the cursor of the namespace is reset and the other
  namespace is next (`s3_artifact_store.py:320-335`). In a namespace of less than a thousand
  objects the same oldest keys are looked at in every pass, and if all of them are referenced,
  an orphan behind them is never met; the method's first line calls itself a rotating scan.
  The scan has no model.
* For a zone without raster evidence the calibration keeps the population of every block
  but deals its age groups out anew (`demography/spatial_calibration.py:207`), where
  `docs/SPATIAL_DEMOGRAPHIC_CALIBRATION.md:17` promises an exact fallback.
* Pinning the run a panel already shows, or unpinning it, empties the layer, and nothing
  loads it again until the map is moved: the effect on the pin clears, but the viewport is
  loaded when the *selected run* changes (`ZoningPanel.tsx:128-132, 248-265`, and the other
  panels alike; the infrastructure keeps its read model "loading" instead, and the run list
  of the buildings, which shares its controller with the viewport, is aborted).
  `docs/COMPARE_UI.md:21-25` describes the pinned run as shown in every generated layer.
* The metrics of demography are cleared with the pin and the project, but neither when
  another run is chosen in the panel nor when its metrics cannot be loaded
  (`DemographyPanel.tsx:319-351, 416-419`): those of the former run stay beside the new
  one's layer, below its name, until an answer arrives, and for good after an
  error. No document says what that panel shows meanwhile. `DisplayFollowsWorkspace`
  therefore holds the details of roads, infrastructure and violations to the selected run,
  those of demography to the pin or, without one, to the project.
* A URL and the form with the two ids take any ids (`workspaceContext.ts:18-26`,
  `App.tsx:462-474`), also those of a version and a run of another project; the server is
  to refuse them (`docs/WORKSPACE_UI.md:36-37`). No property is about the ids in the
  selection; `DisplayFollowsWorkspace` says that such a pin puts nothing on display. A
  version of another project is asked for under the open one, and whether it is answered is
  open in the model.
* A comparison answered after the user has changed the version sets the version back:
  `compare` goes on with the selection of its render (`ComparePanel.tsx:124`,
  `App.tsx:458-460`). `ComparisonFollowsChoice` therefore speaks of project, run and
  choice and leaves the version of the same project open.
* A viewport request of the buildings that is in flight when project or version changes is
  not aborted (`BuildingsPanel.tsx:345-353`), and its answer fills the source of the new
  context, which `docs/WORKSPACE_UI.md:21-22` excludes. `DisplayFollowsWorkspace`
  leaves the buildings out.
* Outside the model: choosing another metric clears the demographic layer without
  loading it (`DemographyPanel.tsx:231-235`); and the polling effect of the upload form
  does not depend on `retry_pending`, so that an ingest that stays failed while its retry is
  given up is polled on (`UploadPanel.tsx:83-107`).

## 8. What is not modelled

* Of the modelled components: the checks of ownership, dataset versions and
  boundaries before a job exists; logging, progress percentages and messages; the
  formats of names and versions; geometry, which is success or a class of error.
* Of the store: path checks, `fsync`, and of S3 signatures, `open` and the scan. The
  collector runs over the local store only. Of the collector: dry
  run and `max_scan`, which bounds how much one scan looks at.
* Of admission: validation of boundary, configuration and dataset versions (a request that
  fails is `Rollback`); of the exact rerun: the verification of hashes.
* Of the core: coordinates. Voronoi partitions, straight skeletons, intersections, offsets
  and the areas they have, the shape of cuts, the raster search of a route itself and the
  tolerances of floating point are inputs, choices or outcomes of a model; so are the hashes
  that order proposals. Fingerprints, the A* over cells that routes a connection and the raw metrics of land
  use and buildings have no model. A crossing at two grades that lies exactly on a junction of
  others is one node for the code, because nodes are coordinates; `GradesStayApart` says so.
  The check of frontage is a report and filters no block.
* These, the ingest readers, the drawing of the web client and the HTTP API are most of the
  lines that `map` leaves out: it covers three tenths of the repository's, with nearly all
  of the code that keeps state.
* Of the web client: the upload and suitability panels, the layer tree, diagnostics, the map
  library, clicks on features, the view tabs (they hide panels and unmount none), truncation,
  and answers of runs whose rows the server changes meanwhile.
* Of rows, layers and tiles: the rectangle asked for (it contains everything), the properties
  of features, source roads a generated road refers to, the zone class of a building, the
  metric and comparison queries. A reader's
  statements are evaluated in one state, except those of a tile.
* Of the worker: a stage that raises the core's own `CancelledError` although nobody has
  requested a cancellation (`Raise` stands for every other exception).
* Of the blocks: a merge whose union is no polygon; two groups with a shared boundary merge
  into one. Of the building rows: a parcel key that is also the key of a block, which
  `generated_building_writer.py:332-336` refuses as ambiguous (`KeysAssumption`).
* Waiting for locks beyond the order the code takes them in: the code locks run,
  stage, artifact and batch, run in one order each (the exact rerun apart, section 7), so
  transactions are atomic steps.
* Clock values: an age is older or younger than a cutoff, an attempt stale or not.
* The components without a model of section 2.

## 9. Plan

Done, in this order: `GenerationLifecycle`, `RunContract` and their proofs;
`StagePlan`; `ScenarioBatch`; `IngestJob`; `ExportJob`; `ArtifactCollection`; `JobQueue`
and `DeliveryContract`, each with its proofs; the planning stages and their composition;
`Workspace` and `RunPolling`; `GeneratedEntities`, `LayerAnswers` and `PublishedTiles`;
`RoadGraph`, `Accessibility`, `Suitability`, `Constraints` and `Scoring`; polygonization,
frontages, envelopes, candidates and sites in the modules of their stages.

To come:

1. More of the core as theorems: `Blocks` keeps its pieces, and the cleanup of `RoadGraph`
   keeps the network.
2. The collector, publication and ingest over S3, whose scan rotates through two listings.
3. The upload form of the web client: an upload, its ingest and the polling of both.
4. Liveness of the polling under a server that answers.

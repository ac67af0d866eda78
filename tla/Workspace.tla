------------------------------- MODULE Workspace -------------------------------
(***************************************************************************)
(* The browser workspace (frontend/src): the selection of a project, a     *)
(* dataset version and a map run, the comparison panel, and one other      *)
(* part. The parts are independent of each other: the six panels of        *)
(* generated layers, the violations, the metrics, and the source layers of *)
(* App itself.                                                             *)
(*                                                                         *)
(* Handlers run one at a time; answers arrive in any order, late, or as    *)
(* errors. A handler, the render it causes and the effects of that render  *)
(* are one step. What an AbortController has aborted never has an effect,  *)
(* so an aborted request is forgotten. Tabs only hide what they do not     *)
(* show: every control can be reached, and every panel stays mounted.      *)
(***************************************************************************)
EXTENDS Integers, Sequences, SequencesExt

CONSTANTS
  Projects, Versions, Runs,
  ProjectOf,    \* owner of every version and run
  Parts,        \* the parts of the map that are looked at
  MinCompared, MaxCompared,  \* MIN_COMPARE_RUNS, MAX_COMPARE_RUNS
  None

ASSUME WorkspaceAssumption ==
  /\ ProjectOf \in [Versions \cup Runs -> Projects]
  /\ Parts \subseteq {"zoning", "roads", "parcels", "buildings", "demography",
                      "infrastructure", "violations", "metrics", "sources"}
  /\ MinCompared \in Nat \ {0} /\ MaxCompared \in Nat \ {0}
  /\ None \notin Projects \cup Versions \cup Runs

VARIABLES
  selection,  \* WorkspaceSelection: project, version, run (the pin of the map)
  part,       \* the part of the map this behaviour is about
  visible,    \* its visible layers: layerVisibility survives every panel
  panel,      \* its React state, requests and map sources: see Mounted
  orphans,    \* runs of viewport requests that outlived their panel
  chosen,     \* ComparePanel: runs to compare, the baseline first
  comparing,  \* the pending comparison and the selection its handler has seen
  compared    \* the runs of the comparison on display

workspaceVars ==
  <<selection, part, visible, panel, orphans, chosen, comparing, compared>>
compareVars == <<chosen, comparing, compared>>

RunsOf(project) == {r \in Runs : ProjectOf[r] = project}
VersionsOf(project) == {v \in Versions : ProjectOf[v] = project}

\* The layers of a part with sources of their own on the map: blocks and parcels,
\* facilities and demand, source layers and boundary. The metrics have none.
Layers ==
  CASE part \in {"parcels", "infrastructure", "sources"} -> {1, 2}
    [] part = "metrics" -> {}
    [] OTHER -> {1}
Nothing == [l \in {1, 2} |-> None]

-----------------------------------------------------------------------------
(* The part of the map. *)

\* A panel that has just been mounted: it asks for the runs of its project.
Mounted(project) ==
  [listing |-> project # None,  \* the run list is requested
   listed |-> {},               \* runs with a read model for this panel
   local |-> None,              \* the run chosen in the panel
   loading |-> None,            \* the viewport request: its run and the layers to come
   failed |-> FALSE,            \* the last viewport request failed
   inspecting |-> None,         \* request for diagnostics, metrics or details of a run
   detail |-> None,             \* whose diagnostics, metrics or details are on display
   model |-> "idle",            \* infrastructure: status of the read model
   shown |-> Nothing]           \* whose features each source on the map holds

\* Mutant: a pin without a read model falls back to the run chosen in the panel.
ResolveMapRunOrLocal(q, pin) == IF pin \in q.listed THEN pin ELSE q.local

\* The pin is authoritative: a run without a read model here is not replaced by another.
ResolveMapRun(q, pin) ==
  IF pin = None THEN q.local ELSE IF pin \in q.listed THEN pin ELSE None

Request(q, run, layers) ==
  [q EXCEPT !.loading = [run |-> run, layers |-> layers], !.failed = FALSE]
Aborted(q) == [q EXCEPT !.loading = None, !.failed = FALSE]

\* loadViewport of the panels, up to its first await.
LoadZones(q, run, seen) ==
  IF seen # {} /\ run # None THEN Request(q, run, {1})
  ELSE [Aborted(q) EXCEPT !.shown = Nothing]
LoadRoads(q, run, seen) == LoadZones(q, run, seen)
LoadParcels(q, run, seen) ==
  IF run = None THEN q
  ELSE IF seen = {} THEN [Aborted(q) EXCEPT !.shown = Nothing]
  ELSE [Request(q, run, seen) EXCEPT !.shown[1] = IF 1 \in seen THEN @ ELSE None]
LoadBuildings(q, run, seen) ==
  IF run = None THEN q
  ELSE IF seen = {} THEN [q EXCEPT !.shown = Nothing] ELSE Request(q, run, {1})
LoadDemography(q, run, seen) ==
  IF seen = {} \/ run = None THEN q ELSE Request(q, run, {1})
LoadInfrastructure(q, run, seen) ==
  LET wanted == IF q.model = "ready" THEN seen ELSE seen \ {2}
  IN  IF run = None THEN q
      ELSE IF wanted = {} THEN [Aborted(q) EXCEPT !.shown = Nothing]
      ELSE Request(q, run, wanted)
LoadViolations(q, run, seen) ==
  IF seen # {} /\ run # None THEN Request(q, run, {1}) ELSE [q EXCEPT !.shown = Nothing]
\* Layer 2 of the sources, the boundary, is not loaded by viewport.
LoadSources(q, version, seen) ==
  IF version = None THEN q
  ELSE IF seen \cap {1} = {} THEN Aborted(q) ELSE Request(q, version, {1})

Load(q, run, seen) ==
  CASE part = "zoning" -> LoadZones(q, run, seen)
    [] part = "roads" -> LoadRoads(q, run, seen)
    [] part = "parcels" -> LoadParcels(q, run, seen)
    [] part = "buildings" -> LoadBuildings(q, run, seen)
    [] part = "demography" -> LoadDemography(q, run, seen)
    [] part = "infrastructure" -> LoadInfrastructure(q, run, seen)
    [] part = "violations" -> LoadViolations(q, run, seen)
    [] OTHER -> LoadSources(q, run, seen)

\* Cleanups of the viewport effects that abort what is in flight.
AbortsOnReload == {"zoning", "roads", "parcels", "demography", "infrastructure", "violations"}
Reload(q, run, seen) ==
  Load(IF part \in AbortsOnReload THEN Aborted(q) ELSE q, run, seen)

\* The effects on [map, pinnedRunId]. That of the buildings aborts whatever request was
\* the last one, the run list included.
PinEffect(q) ==
  [Aborted(q) EXCEPT
     !.shown = Nothing,
     !.listing = @ /\ part # "buildings",
     !.inspecting = IF part \in {"roads", "infrastructure", "violations"} THEN None ELSE @,
     !.detail = IF part \in {"demography", "infrastructure", "violations"} THEN None ELSE @]

\* The effects on [projectId, selectedRunId]: diagnostics, metrics, details.
InspectRoads(q, run) == [q EXCEPT !.detail = None, !.inspecting = run]
InspectDemography(q, run) == [q EXCEPT !.inspecting = run]
InspectInfrastructure(q, run) ==
  [q EXCEPT !.detail = None, !.inspecting = run,
            !.model = IF run = None THEN "idle" ELSE "loading"]
InspectViolations(q, run) == [q EXCEPT !.detail = None, !.inspecting = run]
Inspect(q, run) ==
  CASE part = "roads" -> InspectRoads(q, run)
    [] part = "demography" -> InspectDemography(q, run)
    [] part = "infrastructure" -> InspectInfrastructure(q, run)
    [] part = "violations" -> InspectViolations(q, run)
    [] OTHER -> q

\* The panel q after the effects of a render, in which the pin and what is visible may be
\* new too. An effect runs exactly when a value it depends on has changed: the viewport
\* depends on the selected run, not on the pin it comes from.
Rendered(q, pin, seen) ==
  LET before == ResolveMapRun(panel, selection.run)
      run == ResolveMapRun(q, pin)
      cleared == IF pin # selection.run THEN PinEffect(q) ELSE q
      inspected == IF run # before THEN Inspect(cleared, run) ELSE cleared
  IN  IF run # before \/ seen # visible \/ inspected.model # panel.model
      THEN Reload(inspected, run, seen) ELSE inspected

\* App's own effects: the source layers of the version, the boundary of the project.
SourcesRendered(next, seen) ==
  LET fresh == next.version # selection.version
      cleared == IF fresh THEN [Aborted(panel) EXCEPT !.shown[1] = None] ELSE panel
      bounded == IF next.project = selection.project THEN cleared
                 ELSE [cleared EXCEPT !.shown[2] = None, !.inspecting = next.project]
  IN  IF fresh \/ seen # visible THEN LoadSources(bounded, next.version, seen) ELSE bounded

\* MetricsDashboard shows a run of its own and follows the pin where it can.
InspectMetrics(q, run) == [q EXCEPT !.detail = None, !.inspecting = run]
MetricsRendered(q, pin) ==
  LET run == IF pin \in q.listed /\ (pin # selection.run \/ q.listed # panel.listed)
             THEN pin ELSE q.local
  IN  IF run = panel.local THEN [q EXCEPT !.local = run]
      ELSE [InspectMetrics(q, run) EXCEPT !.local = run]

Effects(q, next, seen) ==
  CASE part = "sources" -> SourcesRendered(next, seen)
    [] part = "metrics" -> MetricsRendered(q, next.run)
    [] OTHER -> Rendered(q, next.run, seen)

\* defaultVisible of the layers.
InitiallyVisible ==
  CASE part = "demography" -> {}
    [] part = "infrastructure" -> {1}
    [] OTHER -> Layers

Opened(sel, seen) ==
  IF part = "sources"
  THEN LoadSources([Mounted(None) EXCEPT !.inspecting = sel.project], sel.version, seen)
  ELSE Mounted(sel.project)

-----------------------------------------------------------------------------
(* The workspace. *)

\* What a URL may name: with a project, any version and any run, also those of another
\* project. Whose they are is for the server to say.
Selections ==
  [project : Projects, version : Versions \cup {None}, run : Runs \cup {None}] \cup
  {[project |-> None, version |-> None, run |-> None]}

\* A page opens with the selection of its URL.
WorkspaceInit ==
  /\ selection \in Selections
  /\ part \in Parts
  /\ visible = InitiallyVisible
  /\ panel = Opened(selection, visible)
  /\ orphans = {}
  /\ chosen = <<>> /\ comparing = None /\ compared = None

\* A reload of the page: the URL has mirrored every selection.
ReloadPage ==
  /\ visible' = InitiallyVisible
  /\ panel' = Opened(selection, visible')
  /\ orphans' = {}
  /\ chosen' = <<>> /\ comparing' = None /\ compared' = None
  /\ UNCHANGED <<selection, part>>

\* The key of the map section: its panels are mounted anew. The viewport request of the
\* buildings is not aborted when they are unmounted.
Remount(project) ==
  /\ panel' = Mounted(project)
  /\ orphans' = orphans \cup IF part = "buildings" /\ panel.loading # None
                             THEN {panel.loading.run} ELSE {}

Remounts(next) ==
  CASE part = "sources" -> FALSE
    [] part = "metrics" -> next.project # selection.project
    [] OTHER -> <<next.project, next.version>> # <<selection.project, selection.version>>

Commit(next) ==
  /\ selection' = next
  /\ IF Remounts(next) THEN Remount(next.project)
     ELSE panel' = Effects(panel, next, visible) /\ UNCHANGED orphans
  /\ UNCHANGED <<part, visible>>

SelectMapRun(sel, run) == [sel EXCEPT !.run = run]

\* Mutant: a request under way survives the project.
ResetChosenOnly == chosen' = <<>> /\ compared' = None /\ UNCHANGED comparing

\* The comparison panel is keyed by the project.
ResetComparison == chosen' = <<>> /\ comparing' = None /\ compared' = None

ChooseProject(project) ==
  /\ project # selection.project
  /\ Commit([project |-> project, version |-> None, run |-> None])
  /\ ResetComparison

\* From the list of the project. Also the choice of the version that is already open clears
\* the pin.
ChooseVersion(version) ==
  /\ version \in VersionsOf(selection.project)
  /\ Commit([selection EXCEPT !.version = version, !.run = None])
  /\ UNCHANGED compareVars

\* The form with the two ids: any two, and the version may be left empty.
ApplyContext(project, version) ==
  /\ Commit([project |-> project, version |-> version, run |-> None])
  /\ IF project # selection.project THEN ResetComparison ELSE UNCHANGED compareVars

\* handleMapRunChange of RunsPanel, MetricsDashboard and the buttons of a comparison, whose
\* runs are those of the project.
PinRun(run) ==
  /\ run \in RunsOf(selection.project) \cup {None}
  /\ Commit(SelectMapRun(selection, run))
  /\ UNCHANGED compareVars

ToggleVisible(layer) ==
  /\ layer \in Layers
  /\ visible' = (visible \ {layer}) \cup ({layer} \ visible)
  /\ panel' = Effects(panel, selection, visible')
  /\ UNCHANGED <<selection, part, orphans, compareVars>>

-----------------------------------------------------------------------------
(* Handlers and answers of the part on the map. *)

OfMap == <<selection, part, visible, compareVars>>
PanelBecomes(q) == panel' = q /\ UNCHANGED <<OfMap, orphans>>
SelectedRun == ResolveMapRun(panel, selection.run)

ListAnswers ==
  /\ panel.listing
  /\ \E listed \in SUBSET RunsOf(selection.project), local \in Runs \cup {None} :
       /\ IF listed = {} THEN local = None ELSE local \in listed
       /\ PanelBecomes(Effects([panel EXCEPT !.listing = FALSE, !.listed = listed,
                                             !.local = local], selection, visible))
ListFails ==
  /\ panel.listing
  /\ PanelBecomes([panel EXCEPT !.listing = FALSE])

\* The selector of a panel; only the infrastructure clears the map before the new answer.
ChangeRun(run) ==
  /\ part # "metrics" /\ selection.run = None
  /\ run \in panel.listed \ {panel.local}
  /\ PanelBecomes(Rendered(
       IF part = "infrastructure"
       THEN [Aborted(panel) EXCEPT !.local = run, !.inspecting = None, !.detail = None,
                                   !.model = "loading", !.shown = Nothing]
       ELSE [panel EXCEPT !.local = run], selection.run, visible))

\* The dashboard's selector moves the pin with it.
ChangeMetricsRun(run) ==
  /\ part = "metrics"
  /\ run \in panel.listed \ {panel.local}
  /\ selection' = SelectMapRun(selection, run)
  /\ panel' = MetricsRendered([panel EXCEPT !.local = run], run)
  /\ UNCHANGED <<part, visible, orphans, compareVars>>

MoveMap ==
  /\ part # "metrics"
  /\ PanelBecomes(Load(panel, IF part = "sources" THEN selection.version ELSE SelectedRun,
                       visible))

RefreshRuns ==
  /\ part = "infrastructure"
  /\ selection.project # None /\ ~panel.listing
  /\ PanelBecomes(Mounted(selection.project))

RefreshReadModel ==
  /\ part = "infrastructure"
  /\ panel.model \in {"not_ready", "error"}
  /\ PanelBecomes(Rendered(InspectInfrastructure(panel, SelectedRun), selection.run, visible))

\* The tail of loadViewport, by what its requests were answered.
Loaded(q, shown) == [q EXCEPT !.loading = None, !.shown = shown]
LoadFailed(q) == [q EXCEPT !.loading = None, !.failed = TRUE]

ZonesAnswer(ok) ==
  PanelBecomes(IF ok THEN Loaded(panel, [panel.shown EXCEPT ![1] = panel.loading.run])
               ELSE LoadFailed(panel))
RoadsAnswer(ok) == ZonesAnswer(ok)
DemographyAnswer(ok) == ZonesAnswer(ok)
BuildingsAnswer(ok) == ZonesAnswer(ok)
\* First the blocks, then the parcels: each with an await of its own.
ParcelsAnswer(ok) ==
  LET run == panel.loading.run
      first == IF 1 \in panel.loading.layers THEN 1 ELSE 2
      answered == [panel EXCEPT !.shown[first] = run, !.loading.layers = @ \ {first}]
  IN  PanelBecomes(
        IF ~ok THEN LoadFailed(panel)
        ELSE IF answered.loading.layers # {} THEN answered
        ELSE Loaded(answered, [answered.shown EXCEPT ![2] = IF first = 2 THEN run ELSE None]))
\* Promise.allSettled: what failed or was not requested is emptied.
InfrastructureAnswer(answered) ==
  PanelBecomes([Loaded(panel, [l \in {1, 2} |-> IF l \in answered THEN panel.loading.run ELSE None])
                EXCEPT !.failed = answered # panel.loading.layers])
ViolationsAnswer(ok) ==
  PanelBecomes(IF ok THEN Loaded(panel, [panel.shown EXCEPT ![1] = panel.loading.run])
               ELSE [LoadFailed(panel) EXCEPT !.shown = Nothing])
SourcesAnswer(ok) == ZonesAnswer(ok)

ViewportAnswers(ok) ==
  /\ panel.loading # None
  /\ \/ part = "zoning" /\ ZonesAnswer(ok)
     \/ part = "roads" /\ RoadsAnswer(ok)
     \/ part = "demography" /\ DemographyAnswer(ok)
     \/ part = "buildings" /\ BuildingsAnswer(ok)
     \/ part = "parcels" /\ ParcelsAnswer(ok)
     \/ part = "violations" /\ ViolationsAnswer(ok)
     \/ part = "sources" /\ SourcesAnswer(ok)
     \/ /\ part = "infrastructure"
        /\ \E answered \in SUBSET panel.loading.layers :
             ok = (answered # {}) /\ InfrastructureAnswer(answered)

Inspected(detail) == [panel EXCEPT !.inspecting = None, !.detail = detail]
RoadsInspected(ok) ==
  PanelBecomes(Inspected(IF ok THEN panel.inspecting ELSE panel.detail))
DemographyInspected(ok) == RoadsInspected(ok)
MetricsInspected(ok) == RoadsInspected(ok)
\* The read model is ready, absent (409) or unknown (an error).
InfrastructureInspected ==
  \E model \in {"ready", "not_ready", "error"} :
    LET q == [Inspected(IF model = "ready" THEN panel.inspecting ELSE None)
              EXCEPT !.model = model,
                     !.shown[2] = IF model = "not_ready" THEN None ELSE @]
    IN  PanelBecomes(Rendered(q, selection.run, visible))
\* A new total reloads the viewport.
ViolationsInspected(ok) ==
  IF ok THEN \E q \in {Inspected(panel.inspecting)} :
               PanelBecomes(q) \/ PanelBecomes(Reload(q, SelectedRun, visible))
  ELSE PanelBecomes(Inspected(panel.detail))
BoundaryAnswers(ok) ==
  PanelBecomes([panel EXCEPT !.inspecting = None,
                             !.shown[2] = IF ok THEN panel.inspecting ELSE @])

DetailAnswers(ok) ==
  /\ panel.inspecting # None
  /\ \/ part = "roads" /\ RoadsInspected(ok)
     \/ part = "demography" /\ DemographyInspected(ok)
     \/ part = "metrics" /\ MetricsInspected(ok)
     \/ part = "infrastructure" /\ InfrastructureInspected
     \/ part = "violations" /\ ViolationsInspected(ok)
     \/ part = "sources" /\ BoundaryAnswers(ok)

\* A request of a panel that is gone still finds the source on the map.
OrphanAnswers(run, ok) ==
  /\ run \in orphans
  /\ orphans' = orphans \ {run}
  /\ panel' = IF ok THEN [panel EXCEPT !.shown[1] = run] ELSE panel
  /\ UNCHANGED OfMap

-----------------------------------------------------------------------------
(* ComparePanel. Every change of what is compared gives up the comparison and the pin. *)

\* filter: a run is chosen once.
ToggleComparedRun(run) ==
  IF Contains(chosen, run) THEN RemoveFirst(chosen, run) ELSE Append(chosen, run)

InvalidateComparison == comparing' = None /\ compared' = None

ToggleRun(run) ==
  /\ comparing = None
  /\ run \in RunsOf(selection.project)
  /\ Contains(chosen, run) \/ Len(chosen) < MaxCompared
  /\ chosen' = ToggleComparedRun(run)
  /\ InvalidateComparison
  /\ Commit(SelectMapRun(selection, None))

ChangeBaseline(run) ==
  /\ comparing = None
  /\ \E i \in 2..Len(chosen) : chosen[i] = run
  /\ chosen' = <<run>> \o RemoveFirst(chosen, run)
  /\ InvalidateComparison
  /\ Commit(SelectMapRun(selection, None))

RefreshComparison ==
  /\ comparing = None
  /\ selection.project # None
  /\ ResetComparison
  /\ Commit(SelectMapRun(selection, None))

\* compare goes on after its await with the handler, and so the selection, of its render.
Compare ==
  /\ selection.project # None
  /\ comparing = None
  /\ Len(chosen) \in MinCompared..MaxCompared
  /\ comparing' = [runs |-> chosen, selection |-> selection]
  /\ compared' = None
  /\ Commit(SelectMapRun(selection, None))
  /\ UNCHANGED chosen

CompareAnswers ==
  /\ comparing # None
  /\ compared' = comparing.runs
  /\ comparing' = None
  /\ Commit(SelectMapRun(comparing.selection, Head(comparing.runs)))
  /\ UNCHANGED chosen

CompareFails ==
  /\ comparing # None
  /\ comparing' = None
  /\ UNCHANGED <<selection, part, visible, panel, orphans, chosen, compared>>

WorkspaceNext ==
  \/ \E p \in Projects : ChooseProject(p)
  \/ \E v \in Versions : ChooseVersion(v)
  \/ \E p \in Projects, v \in Versions \cup {None} : ApplyContext(p, v)
  \/ \E r \in Runs \cup {None} : PinRun(r)
  \/ ReloadPage \/ MoveMap \/ RefreshRuns \/ RefreshReadModel
  \/ \E l \in {1, 2} : ToggleVisible(l)
  \/ \E r \in Runs : ChangeRun(r) \/ ChangeMetricsRun(r) \/ ToggleRun(r) \/ ChangeBaseline(r)
  \/ ListAnswers \/ ListFails
  \/ \E ok \in BOOLEAN : ViewportAnswers(ok) \/ DetailAnswers(ok)
  \/ \E r \in Runs, ok \in BOOLEAN : OrphanAnswers(r, ok)
  \/ RefreshComparison \/ Compare \/ CompareAnswers \/ CompareFails

WorkspaceSpec == WorkspaceInit /\ [][WorkspaceNext]_workspaceVars

-----------------------------------------------------------------------------
(* Properties. *)

\* What is on display belongs to the selection, whatever arrives late: the sources to the
\* open version and project, a generated or violations layer to the pinned run or, without
\* a pin, to the open project, metrics to the pinned run wherever it has metrics. A pin of
\* another project puts nothing on display. Details of roads, infrastructure and violations
\* are those of the selected run. Those of demography are only as good as its layer: without
\* a pin they stay those of the former run until the new ones arrive, and for good when the
\* request fails. The buildings are left out: their viewport request outlives the panel.
DisplayFollowsWorkspace ==
  LET ours == RunsOf(selection.project)
      owners == IF selection.run = None THEN ours ELSE {selection.run} \cap ours
  IN  /\ part = "sources" =>
           /\ panel.shown[1] \in {None, selection.version}
           /\ panel.shown[2] \in {None, selection.project}
      /\ part \notin {"sources", "buildings"} =>
           \A l \in {1, 2} : panel.shown[l] \in owners \cup {None}
      /\ part \in {"roads", "infrastructure", "violations"} =>
           panel.detail \in {SelectedRun, None}
      /\ part = "demography" => panel.detail \in owners \cup {None}
      /\ part = "metrics" =>
           /\ panel.detail \in {panel.local, None}
           /\ selection.run \in panel.listed => panel.local = selection.run

\* A pending or displayed comparison is of the runs that are chosen now, each once and all
\* of the open project. The handler that is to answer a pending one has seen that project,
\* so the baseline it pins is a run of the selection it commits (ComparePanel.tsx:119-130).
ComparisonFollowsChoice ==
  /\ comparing # None =>
       /\ comparing.runs = chosen /\ compared = None
       /\ comparing.selection.project = selection.project
  /\ compared # None => compared = chosen
  /\ \A i \in DOMAIN chosen :
       /\ chosen[i] \in RunsOf(selection.project)
       /\ \A k \in DOMAIN chosen : chosen[k] = chosen[i] => k = i
=============================================================================

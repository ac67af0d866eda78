------------------------------ MODULE RoadGraph ------------------------------
(***************************************************************************)
(* The graph of a road network (stages/roads.py:_build_graph): ends of     *)
(* roads that nearly meet are snapped together (endpoint_snapping.py), roads *)
(* are cut where they meet at one grade (semantic_noding.py), their pieces *)
(* become the edges of a graph (road_graph.py), duplicates, tiny edges and *)
(* generated dead ends are removed (road_graph_cleanup.py), components are *)
(* found by union-find, and the graph is classified and validated          *)
(* (road_classification.py, road_validation.py).                           *)
(*                                                                         *)
(* Points are numbered in the order of their coordinates and roads in that *)
(* of their ids. Two lines share at most single segments in a row, and a line *)
(* visits no point twice except its own start.                             *)
(***************************************************************************)
EXTENDS Integers, FiniteSets, SequencesExt, FiniteSetsExt, Functions

CONSTANT SurveyCases  \* the inputs: see SurveyInput

VARIABLES
  graph,      \* where the computation is: the call that is next, "error" or "done"
  survey,     \* roads, lengths, points that are near each other, and policies
  lines,      \* lines of the roads: road and points
  noded,      \* lines that were looked at, pairs of lines that met, that overlap, and
              \* crossings that are none at one grade
  cuts,       \* interior points at which each line is cut
  junctions,  \* points where roads meet: the roads of each
  built,      \* edges of the graph as built
  edges,      \* edges that are left
  passes,     \* passes of the removal of dead ends
  removed,    \* how many edges went, and for what; how many were only fixed
  parent,     \* union-find: parent of each node
  weight,     \* union-find: nodes below each root
  merged,     \* edges whose ends were united
  verdict     \* nodes, components, classes, metrics and issues of the final graph

graphVars == <<graph, survey, lines, noded, cuts, junctions, built, edges, passes, removed,
               parent, weight, merged, verdict>>

SnappingPolicy(c) == c.maxSnaps \in Nat
RoadCleanupPolicy(c) ==
  {c.tiny, c.dangling, c.maxEdges, c.maxNodes} \subseteq Nat /\ c.maxPasses \in Nat \ {0}
ClassPolicy(c) ==
  /\ 0 < c.collector /\ c.collector < c.arterial /\ c.maxSubjects \in Nat \ {0}
  /\ {c.baselineFloor, c.intentFloor} \subseteq {"local", "collector", "arterial"}
ValidationPolicy(c) ==
  c.maxComponents \in Nat \ {0} /\ c.deadEndPercent \in 0..100 /\ c.maxForbidden \in Nat

SurveyPolicy(c) ==
  /\ SnappingPolicy(c) /\ RoadCleanupPolicy(c) /\ ClassPolicy(c) /\ ValidationPolicy(c)
  /\ {c.maxMeetings, c.maxLines} \subseteq Nat /\ c.crossing \in Nat \ {0}

SurveyInput(c) ==
  /\ \A r \in Range(c.roads) :
       /\ r.lines # << >> /\ \A l \in Range(r.lines) : Len(l) >= 2
       /\ r.grade \in Nat /\ r.origin \in {"EXISTING", "BASELINE_GENERATED", "GROWTH_GENERATED"}
       /\ r.intent \in {"LOCAL", "COLLECTOR"} /\ r.class # ""
  /\ \A p \in c.near : p \in DOMAIN c.length
  /\ SurveyPolicy(c)

ASSUME SurveyAssumption == \A c \in SurveyCases : SurveyInput(c)

GraphInit ==
  /\ graph = "snap" /\ survey \in SurveyCases
  /\ lines = << >> /\ noded = [lines |-> 0, pairs |-> 0, overlaps |-> 0, suppressed |-> 0]
  /\ cuts = << >> /\ junctions = << >>
  /\ built = << >> /\ edges = << >> /\ passes = 0
  /\ removed = [duplicates |-> 0, tiny |-> 0, fixedTiny |-> 0, dangling |-> 0]
  /\ parent = << >> /\ weight = << >> /\ merged = 0 /\ verdict = << >>

First(l) == l[1]
Ends(l) == {First(l), Last(l)}
Span(p, q) == IF p = q THEN 0 ELSE survey.length[{p, q}]
LineLength(l) == FoldLeftDomain(LAMBDA sum, i : sum + IF i = 1 THEN 0 ELSE Span(l[i - 1], l[i]), 0, l)

\* The set of what is linked to x by a symmetric set of pairs, directly or not.
Linkage(x, links) ==
  LET grown[k \in 0..Cardinality(links)] ==
        IF k = 0 THEN {x}
        ELSE LET g == grown[k - 1] IN g \cup {q[2] : q \in {l \in links : l[1] \in g}}
  IN  grown[Cardinality(links)]

-----------------------------------------------------------------------------
(* EndpointRoadSnapper: clusters of ends within the tolerance of each other take the   *)
(* point of the first end, "end" before "start".                                       *)

Tips == UNION {{<<r, l, k>> : l \in DOMAIN survey.roads[r].lines, k \in {0, 1}} :
                 r \in DOMAIN survey.roads}
TipPoint(t) ==
  LET l == survey.roads[t[1]].lines[t[2]] IN IF t[3] = 1 THEN First(l) ELSE Last(l)
Close(s, t) == TipPoint(s) = TipPoint(t) \/ {TipPoint(s), TipPoint(t)} \in survey.near
Earlier(s, t) == \E i \in 1..3 : s[i] < t[i] /\ \A j \in 1..(i - 1) : s[j] = t[j]

SnappedPoint(t) ==
  LET cluster == Linkage(t, {q \in Tips \X Tips : Close(q[1], q[2])}) IN
  TipPoint(CHOOSE s \in cluster : \A u \in cluster \ {s} : Earlier(s, u))

SnappedLine(r, l) ==
  LET old == survey.roads[r].lines[l]
  IN  [i \in DOMAIN old |-> CASE i = 1 -> SnappedPoint(<<r, l, 1>>)
                              [] i = Len(old) -> SnappedPoint(<<r, l, 0>>)
                              [] OTHER -> old[i]]
SnappedLines ==
  FlattenSeq([r \in DOMAIN survey.roads |->
    [l \in DOMAIN survey.roads[r].lines |-> [road |-> r, points |-> SnappedLine(r, l)]]])

SnapEndpoints ==
  /\ graph = "snap"
  /\ LET pairs == {p \in Tips \X Tips : Earlier(p[1], p[2]) /\ Close(p[1], p[2])}
         snapped == SnappedLines
     IN  IF \/ Cardinality(pairs) > survey.maxSnaps
            \/ \E l \in Range(snapped) : Cardinality(Range(l.points)) = 1
         THEN graph' = "error" /\ UNCHANGED <<lines, cuts>>
         ELSE graph' = "node" /\ lines' = snapped /\ cuts' = [i \in DOMAIN snapped |-> {}]
  /\ UNCHANGED <<survey, noded, junctions, built, edges, passes, removed, parent, weight, merged,
                 verdict>>

-----------------------------------------------------------------------------
(* SemanticNoder. *)

Grade(i) == survey.roads[lines[i].road].grade
Shared(i, j) == Range(lines[i].points) \cap Range(lines[j].points)
Tip(i, p) == p \in Ends(lines[i].points)

\* Mutant: any crossing is a junction.
JoinsAlways(i, j, p) == TRUE
Joins(i, j, p) == (Tip(i, p) /\ Tip(j, p)) \/ Grade(i) = Grade(j)

\* Segments that two lines have in common.
Segments(l) == {{l[k], l[k + 1]} : k \in 1..(Len(l) - 1)}
Overlap(i, j) == Segments(lines[i].points) \cap Segments(lines[j].points) # {}

\* One line against the lines after it.
NodeLine ==
  /\ graph = "node" /\ noded.lines < Len(lines)
  /\ LET i == noded.lines + 1
         met == {j \in (i + 1)..Len(lines) : Shared(i, j) # {}}
         crossings == {q \in met \X UNION {Shared(i, j) : j \in met} : q[2] \in Shared(i, q[1])}
         joined == {q \in crossings : Joins(i, q[1], q[2])}
         cut(k) == {q[2] : q \in {x \in joined : k \in {i, x[1]} /\ ~Tip(k, x[2])}}
         roadsAt(p) == UNION {{lines[i].road, lines[q[1]].road} : q \in {x \in joined : x[2] = p}}
     IN  IF noded.pairs + Cardinality(met) > survey.maxMeetings \/ Len(lines) > survey.maxLines
         THEN graph' = "error" /\ UNCHANGED <<noded, cuts, junctions>>
         ELSE /\ noded' = [lines |-> i, pairs |-> noded.pairs + Cardinality(met),
                            overlaps |-> noded.overlaps + Cardinality({j \in met : Overlap(i, j)}),
                            suppressed |-> noded.suppressed + Cardinality(crossings \ joined)]
              /\ cuts' = [k \in DOMAIN lines |-> cuts[k] \cup cut(k)]
              /\ junctions' = [p \in DOMAIN junctions \cup {q[2] : q \in joined} |->
                   (IF p \in DOMAIN junctions THEN junctions[p] ELSE {}) \cup roadsAt(p)]
              /\ UNCHANGED graph
  /\ UNCHANGED <<survey, lines, built, edges, passes, removed, parent, weight, merged, verdict>>

\* A line in pieces, in its own direction.
Pieces(l, at) ==
  LET stops == SetToSortSeq({1, Len(l)} \cup {k \in DOMAIN l : l[k] \in at}, <)
  IN  [k \in 1..(Len(stops) - 1) |-> SubSeq(l, stops[k], stops[k + 1])]

-----------------------------------------------------------------------------
(* RoadGraphBuilder: every piece is an edge between the points at its ends. *)

BuiltEdges ==
  LET pieces == FlattenSeq([i \in DOMAIN lines |->
        LET ps == Pieces(lines[i].points, cuts[i])
        IN  [k \in DOMAIN ps |-> [road |-> lines[i].road, points |-> ps[k]]]])
  IN  [e \in DOMAIN pieces |->
         [id |-> e, road |-> pieces[e].road, points |-> pieces[e].points,
          length |-> LineLength(pieces[e].points),
          fixed |-> survey.roads[pieces[e].road].origin = "EXISTING"]]

\* What an edge and a graph must be: edges of some length, each known by its id.
EdgeFits(e) == e.length > 0 /\ e.id # 0
GraphHolds(es) ==
  /\ \A e \in Range(es) : EdgeFits(e)
  /\ Cardinality({e.id : e \in Range(es)}) = Len(es)

NodesOf(es) == UNION {Ends(e.points) : e \in Range(es)}

BuildGraph ==
  /\ graph = "node" /\ noded.lines = Len(lines)
  /\ LET pieces == BuiltEdges
     IN  IF \/ Len(pieces) > survey.maxEdges \/ Cardinality(NodesOf(pieces)) > survey.maxNodes
            \/ ~GraphHolds(pieces)
         THEN graph' = "error" /\ UNCHANGED <<built, edges>>
         ELSE graph' = "duplicates" /\ built' = pieces /\ edges' = pieces
  /\ UNCHANGED <<survey, lines, noded, cuts, junctions, passes, removed, parent, weight, merged,
                 verdict>>

-----------------------------------------------------------------------------
(* RoadGraphCleaner. *)

SameChain(e, f) == e.points = f.points \/ e.points = Reverse(f.points)
Preferred(e, f) == (e.fixed /\ ~f.fixed) \/ (e.fixed = f.fixed /\ e.id < f.id)

\* Of edges along the same points a fixed one stays, or the first.
RemoveDuplicates ==
  /\ graph = "duplicates"
  /\ LET kept == SelectSeq(edges, LAMBDA e :
           \A f \in Range(edges) : f.id # e.id /\ SameChain(e, f) => Preferred(e, f))
     IN  graph' = "tiny" /\ edges' = kept /\ removed' = [removed EXCEPT !.duplicates = Len(edges) - Len(kept)]
  /\ UNCHANGED <<survey, lines, noded, cuts, junctions, built, passes, parent, weight, merged, verdict>>

Tiny(e) == e.length <= survey.tiny /\ ~e.fixed

RemoveTiny ==
  /\ graph = "tiny"
  /\ LET kept == SelectSeq(edges, LAMBDA e : ~Tiny(e))
     IN  /\ graph' = "prune" /\ edges' = kept
         /\ removed' = [removed EXCEPT !.tiny = Len(edges) - Len(kept),
                          !.fixedTiny = Cardinality({e \in Range(kept) : e.length <= survey.tiny})]
  /\ UNCHANGED <<survey, lines, noded, cuts, junctions, built, passes, parent, weight, merged, verdict>>

\* A loop counts twice.
Degree(p, es) ==
  Cardinality({e \in Range(es) : First(e.points) = p})
  + Cardinality({e \in Range(es) : Last(e.points) = p})

Dangling(e, es) ==
  e.length <= survey.dangling /\ \E p \in Ends(e.points) : Degree(p, es) = 1

Prunable == {e \in Range(edges) : ~e.fixed /\ Dangling(e, edges)}

Prune ==
  /\ graph = "prune" /\ passes < survey.maxPasses /\ Prunable # {}
  /\ edges' = SelectSeq(edges, LAMBDA e : e \notin Prunable)
  /\ passes' = passes + 1
  /\ removed' = [removed EXCEPT !.dangling = @ + Cardinality(Prunable)]
  /\ UNCHANGED <<graph, survey, lines, noded, cuts, junctions, built, parent, weight, merged, verdict>>

\* RoadGraphCleanupDiagnostics.
RoadCleanupReport ==
  [input |-> Len(built), output |-> Len(edges), removed |-> removed, passes |-> passes,
   orphans |-> Cardinality(NodesOf(built)) - Cardinality(NodesOf(edges)),
   fixedDangling |-> Cardinality({e \in Range(edges) : e.fixed /\ Dangling(e, edges)}),
   dangling |-> Cardinality(Prunable), limitReached |-> Prunable # {}]

\* A node of some fixed edge is fixed.
FixedNodes(es) == UNION {Ends(e.points) : e \in {x \in Range(es) : x.fixed}}

PruneEnds ==
  /\ graph = "prune" /\ (passes = survey.maxPasses \/ Prunable = {})
  /\ graph' = "unite"
  /\ parent' = [p \in NodesOf(edges) |-> p]
  /\ weight' = [p \in NodesOf(edges) |-> 1]
  /\ UNCHANGED <<survey, lines, noded, cuts, junctions, built, edges, passes, removed, merged, verdict>>

-----------------------------------------------------------------------------
(* _build_diagnostics: union by size; halving paths changes no root. *)

Root(p) ==
  LET up[k \in 0..Cardinality(DOMAIN parent)] == IF k = 0 THEN p ELSE parent[up[k - 1]]
  IN  up[Cardinality(DOMAIN parent)]

\* Mutant: the end of the edge, not its root, is hung below the other root.
UnitedByNode(p, q) ==
  IF Root(p) = Root(q) THEN [parent |-> parent, weight |-> weight]
  ELSE [parent |-> [parent EXCEPT ![q] = Root(p)],
        weight |-> [weight EXCEPT ![Root(p)] = @ + weight[Root(q)]]]
United(p, q) ==
  LET big == IF weight[Root(p)] < weight[Root(q)] THEN Root(q) ELSE Root(p)
      small == IF big = Root(p) THEN Root(q) ELSE Root(p)
  IN  IF big = small THEN [parent |-> parent, weight |-> weight]
      ELSE [parent |-> [parent EXCEPT ![small] = big],
            weight |-> [weight EXCEPT ![big] = @ + weight[small]]]

Unite ==
  /\ graph = "unite" /\ merged < Len(edges)
  /\ LET l == edges[merged + 1].points
         united == United(First(l), Last(l))
     IN  parent' = united.parent /\ weight' = united.weight
  /\ merged' = merged + 1
  /\ UNCHANGED <<graph, survey, lines, noded, cuts, junctions, built, edges, passes, removed, verdict>>

-----------------------------------------------------------------------------
(* Classes of the roads that are left, and the validation of their graph. *)

RoadLength(r) == FoldLeft(LAMBDA sum, e : sum + IF e.road = r THEN e.length ELSE 0, 0, edges)
SumOf(es, Of(_)) == FoldLeft(LAMBDA sum, e : sum + Of(e), 0, es)

\* A road that is left, with what its origin makes known of it.
RoadSubject(r) ==
  LET road == survey.roads[r] IN
  [origin |-> road.origin, length |-> RoadLength(r),
   class |-> IF road.origin = "EXISTING" THEN road.class ELSE "",
   intent |-> IF road.origin = "GROWTH_GENERATED" THEN road.intent ELSE ""]
SubjectFits(s) ==
  /\ s.length > 0
  /\ (s.class # "") = (s.origin = "EXISTING")
  /\ (s.intent # "") = (s.origin = "GROWTH_GENERATED")

GeneratedRoadClass == <<"local", "collector", "arterial">>
RankOf(class) == CHOOSE k \in DOMAIN GeneratedRoadClass : GeneratedRoadClass[k] = class
Ruled(class, reason) == [class |-> class, generated |-> TRUE, reason |-> reason]
Floored(rule, floor, reason) ==
  IF RankOf(floor) > RankOf(rule.class) THEN Ruled(floor, reason) ELSE rule

GeneratedClass(s) ==
  LET byLength == IF s.length >= survey.collector THEN Ruled("collector", "COLLECTOR_LENGTH")
                  ELSE Ruled("local", "LOCAL_DEFAULT")
  IN  IF s.length >= survey.arterial THEN Ruled("arterial", "ARTERIAL_LENGTH")
      ELSE IF s.origin = "BASELINE_GENERATED"
           THEN Floored(byLength, survey.baselineFloor, "BASELINE_FLOOR")
      ELSE IF s.intent = "COLLECTOR"
           THEN Floored(byLength, survey.intentFloor, "COLLECTOR_INTENT_FLOOR")
      ELSE byLength

Classified(s) ==
  IF s.origin = "EXISTING"
  THEN [class |-> s.class, generated |-> FALSE, reason |-> "EXISTING_PRESERVED"]
  ELSE GeneratedClass(s)
ClassifiedFits(s, road) ==
  /\ road.generated = (s.origin # "EXISTING") /\ road.generated # (road.reason = "EXISTING_PRESERVED")
  /\ road.generated => road.class \in Range(GeneratedRoadClass)

ClassDiagnostics(roads) ==
  LET Count(Is(_)) == Cardinality({r \in DOMAIN roads : Is(roads[r])})
  IN  [subjects |-> Cardinality(DOMAIN roads),
       existing |-> Count(LAMBDA c : c.reason = "EXISTING_PRESERVED"),
       generated |-> Count(LAMBDA c : c.generated),
       classes |-> [k \in DOMAIN GeneratedRoadClass |->
                      Count(LAMBDA c : c.generated /\ c.class = GeneratedRoadClass[k])]]
ClassCountsAgree(counts) ==
  /\ counts.existing + counts.generated = counts.subjects
  /\ counts.classes[1] + counts.classes[2] + counts.classes[3] = counts.generated

Subjects == {e.road : e \in Range(edges)}
Classes == [r \in Subjects |-> Classified(RoadSubject(r))]
ClassesHold ==
  /\ Cardinality(Subjects) <= survey.maxSubjects
  /\ \A r \in Subjects : SubjectFits(RoadSubject(r)) /\ ClassifiedFits(RoadSubject(r), Classes[r])
  /\ ClassCountsAgree(ClassDiagnostics(Classes))

\* The components of the graph, by the roots of the union-find.
ComponentOf(root) ==
  LET below == SelectSeq(edges, LAMBDA e : Root(First(e.points)) = root)
  IN  [nodes |-> {p \in DOMAIN parent : Root(p) = root}, edges |-> Len(below),
       length |-> SumOf(below, LAMBDA e : e.length),
       fixed |-> Len(SelectSeq(below, LAMBDA e : e.fixed))]
UnionComponents == {ComponentOf(root) : root \in {Root(p) : p \in DOMAIN parent}}

\* RoadMetrics; what is left undivided here is a numerator and its denominator.
Metrics ==
  LET nodes == NodesOf(edges)
      chords == SelectSeq(edges, LAMBDA e : First(e.points) # Last(e.points))
  IN  [nodes |-> Cardinality(nodes), edges |-> Len(edges),
       components |-> Cardinality(UnionComponents),
       length |-> SumOf(edges, LAMBDA e : e.length),
       generated |-> SumOf(edges, LAMBDA e : IF e.fixed THEN 0 ELSE e.length),
       degrees |-> MapThenSumSet(LAMBDA p : Degree(p, edges), nodes),
       maxDegree |-> Max({0} \cup {Degree(p, edges) : p \in nodes}),
       intersections |-> Cardinality({p \in nodes : Degree(p, edges) >= survey.crossing}),
       circuity |-> <<SumOf(chords, LAMBDA e : e.length),
                      SumOf(chords, LAMBDA e : Span(First(e.points), Last(e.points)))>>,
       circuityEdges |-> Len(chords)]

DeadEnds == {p \in NodesOf(edges) : Degree(p, edges) = 1}
Forbidden ==
  {e.id : e \in {x \in Range(edges) : ~x.fixed /\ Range(x.points) \cap survey.forbidden # {}}}

Issues ==
  {i \in {"DISCONNECTED_COMPONENTS", "DEAD_END_RATIO", "FORBIDDEN_CROSSING"} :
     \/ /\ i = "DISCONNECTED_COMPONENTS"
        /\ Cardinality(UnionComponents) > survey.maxComponents
     \/ /\ i = "DEAD_END_RATIO"
        /\ 100 * Cardinality(DeadEnds) > survey.deadEndPercent * Cardinality(NodesOf(edges))
     \/ i = "FORBIDDEN_CROSSING" /\ Cardinality(Forbidden) > survey.maxForbidden}

Judge ==
  /\ graph = "unite" /\ merged = Len(edges)
  /\ IF ~ClassesHold
     THEN graph' = "error" /\ UNCHANGED verdict
     ELSE /\ graph' = "done"
          /\ verdict' = [cleanup |-> RoadCleanupReport, fixed |-> FixedNodes(edges), classes |-> Classes,
                         components |-> UnionComponents, issues |-> Issues, metrics |-> Metrics]
  /\ UNCHANGED <<survey, lines, noded, cuts, junctions, built, edges, passes, removed, parent,
                 weight, merged>>

GraphNext ==
  \/ SnapEndpoints \/ NodeLine \/ BuildGraph \/ RemoveDuplicates \/ RemoveTiny \/ Prune
  \/ PruneEnds \/ Unite \/ Judge

-----------------------------------------------------------------------------

\* semantic_noding.py:111 promises that interior crossings are junctions only at one
\* grade, while a bridge or tunnel stays connected to its approaches by their common
\* end, although the graph knows nothing of grades (road_graph.py joins whatever ends at
\* one point). So lines that meet at one grade or end to end have a common node there,
\* after snapping made ends near each other one point; and of two others none has an end
\* at the crossing, unless some third line ends or cuts there. Each such crossing is
\* reported once.
GradesStayApart ==
  graph = "duplicates" =>
    LET EndsAt(i, p) == p \in UNION {Ends(l) : l \in Range(Pieces(lines[i].points, cuts[i]))}
        Through(i, p) == ~Tip(i, p) /\ \A k \in DOMAIN lines \ {i} :
                           p \in Range(lines[k].points) => Grade(k) # Grade(i)
    IN  /\ \A i, j \in DOMAIN lines : i # j => \A p \in Shared(i, j) :
             IF Grade(i) = Grade(j) \/ (Tip(i, p) /\ Tip(j, p))
             THEN EndsAt(i, p) /\ EndsAt(j, p) /\ {lines[i].road, lines[j].road} \subseteq junctions[p]
             ELSE Through(i, p) => ~EndsAt(i, p)
        /\ \A s, t \in Tips : Close(s, t) =>
             \E p \in NodesOf(built) : \A u \in {s, t} :
               p \in UNION {Ends(d.points) : d \in {x \in Range(built) : x.road = u[1]}}
        /\ noded.suppressed = Cardinality(
             {q \in (DOMAIN lines) \X (DOMAIN lines) \X UNION {Range(l.points) : l \in Range(lines)} :
                /\ q[1] < q[2] /\ q[3] \in Shared(q[1], q[2]) /\ Grade(q[1]) # Grade(q[2])
                /\ ~(Tip(q[1], q[3]) /\ Tip(q[2], q[3]))})

\* road_graph_cleanup.py:79 promises a cleanup that is neutral to connectivity: a generated
\* dead end goes pass by pass, but two nodes that stay are connected afterwards exactly
\* if they were without the tiny edges; no fixed road is lost but to one along the same
\* points, nor a fixed node; the report accounts for every edge; and the components the
\* validation counts, with their edges and lengths, are those of the edges that stay.
CleanupKeepsNetwork ==
  graph = "done" =>
    LET kept == SelectSeq(built, LAMBDA e : ~Tiny(e))
        links(es) == UNION {{<<First(e.points), Last(e.points)>>, <<Last(e.points), First(e.points)>>} :
                              e \in Range(es)}
        Connected(p, es) == Linkage(p, links(es))
        Before(p) == Connected(p, kept)
        After(p) == Connected(p, edges)
    IN  /\ \A p \in NodesOf(edges) : After(p) = Before(p) \cap NodesOf(edges)
        /\ verdict.components =
             {LET inside == SelectSeq(edges, LAMBDA e : First(e.points) \in After(p))
              IN  [nodes |-> After(p), edges |-> Len(inside), length |-> SumOf(inside, LAMBDA e : e.length),
                   fixed |-> Len(SelectSeq(inside, LAMBDA e : e.fixed))] : p \in NodesOf(edges)}
        /\ \A e \in Range(built) : e.fixed => \E f \in Range(edges) : f.fixed /\ SameChain(e, f)
        /\ verdict.fixed = FixedNodes(built)
        /\ verdict.cleanup.output = verdict.cleanup.input
             - (removed.duplicates + removed.tiny + removed.dangling)
        /\ verdict.cleanup.limitReached => passes = survey.maxPasses
        /\ verdict.metrics.length = MapThenSumSet(LAMBDA c : c.length, verdict.components)
=============================================================================

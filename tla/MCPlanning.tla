------------------------------ MODULE MCPlanning ------------------------------
(***************************************************************************)
(* The registry's plan and the stages of the core, on small inputs. A      *)
(* stage is a sequential computation that shares no state with another, so *)
(* every behaviour here is one of them while the others are idle.          *)
(***************************************************************************)
EXTENDS StagePlan, Suitability, Constraints, Scoring, Zoning, Roads, RoadGraph, Blocks,
        Buildings, Infrastructure, Accessibility, Demography

-----------------------------------------------------------------------------
(* Suitability: grids of two rows or three with gaps, read in tiles of one to three    *)
(* cells; scores in sixths; slopes with windows across the edges of tiles, land use,   *)
(* distances to roads; an unweighted factor, and a layer for each reason to refuse.    *)

MCElevations ==
  {[height |-> 2, width |-> 3, rows |-> <<<<0, 2, NoData>>, <<1, 4, 5>>>>],
   [height |-> 3, width |-> 3, rows |-> <<<<0, 2, 3>>, <<NoData, 1, 5>>, <<4, 4, NoData>>>>],
   [height |-> 3, width |-> 3, rows |-> <<<<3, 1, 0>>, <<2, 5, 1>>, <<0, 3, 2>>>>],
   [height |-> 1, width |-> 3, rows |-> <<<<0, 1, 2>>>>]}
MCFactor(k, w, f, l, h) == [code |-> k, weight |-> w, form |-> f, low |-> l, high |-> h]
MCFactors ==
  {<<MCFactor("slope", 2, "INVERTED", 0, 6), MCFactor("landuse", 1, "IDENTITY", 0, 1)>>,
   <<MCFactor("roads", 1, "INVERTED", 1, 3), MCFactor("slope", 0, "INVERTED", 0, 6),
     MCFactor("landuse", 3, "MIN_MAX", 1, 4)>>,
   <<MCFactor("slope", 1, "MIN_MAX", 1, 7)>>, <<MCFactor("roads", 1, "IDENTITY", 0, 1)>>,
   <<MCFactor("unknown", 1, "IDENTITY", 0, 1)>>}
MCDegrees == [g \in 0..200 |-> CHOOSE x \in 0..14 : x * x <= g /\ (x + 1) * (x + 1) > g]
MCSuitabilityCases ==
  LET rows(e) == {<<r, k>> : r \in 0..(e.height - 1), k \in 0..(e.width - 1)}
      cases ==
        {[height |-> e.height, width |-> e.width, tile |-> t,
          elevation |-> [p \in rows(e) |-> e.rows[p[1] + 1][p[2] + 1]],
          factors |-> f, missing |-> m, burn |-> b,
          degrees |-> MCDegrees,
          inside |-> rows(e) \ {<<0, 0>>},
          vectors |-> <<[code |-> "water", shapes |-> 2, centre |-> {<<1, 1>>} \cap rows(e),
                         touched |-> {<<1, 1>>, <<1, 2>>} \cap rows(e)]>>,
          masks |-> <<[code |-> "steep", cells |-> k, aligned |-> TRUE]>>,
          maxCells |-> 9, maxShapes |-> 2, maxFactorCells |-> 9,
          landuse |-> [p \in rows(e) |-> <<"field", "wood", "">>[1 + ((p[1] + 2 * p[2]) % 3)]],
          classScore |-> ("field" :> 4), defaultScore |-> d,
          roadDistance |-> n, minimum |-> 2, preferred |-> 4] :
           e \in MCElevations, t \in 1..3, f \in MCFactors, m \in {"INVALIDATE", "ONE_SIDED"},
           b \in {"CELL_CENTER", "ANY_TOUCH"}, k \in {{}, {<<0, 1>>, <<1, 0>>}},
           d \in {NoData, 2}, n \in {<< >>, [p \in (0..2) \X (0..2) |-> 3 * p[1] + p[2]]}}
      some == CHOOSE c \in cases : c.height = 3
  IN  {c \in cases : c.masks[1].cells \subseteq DOMAIN c.elevation}
      \cup {[some EXCEPT !.maxCells = 8], [some EXCEPT !.maxShapes = 1],
            [some EXCEPT !.maxFactorCells = 8], [some EXCEPT !.masks[1].code = "water"],
            [some EXCEPT !.masks[1].aligned = FALSE]}

-----------------------------------------------------------------------------
(* Constraints: shapes of up to four cells on a grid of four by four, two exclusions   *)
(* of three, two bands of setbacks, a raster of two rows with gaps read in one or two  *)
(* windows, the four bounds and two preferences with values at and beside the limits,  *)
(* and a rule with evidence of its own; each reason to refuse.                         *)

MCShapes == {{<<0, 0>>}, {<<1, 1>>, <<1, 2>>}, {<<0, 0>>, <<0, 1>>, <<0, 2>>, <<1, 0>>},
             {<<3, 3>>}, {<<2, 0>>, <<3, 0>>}}
MCRule(k, code) ==
  [stage |-> "place", scope |-> "BUILDING", code |-> code, kind |-> k, severity |-> "HARD", weight |-> 0]
MCDocket(rules, stage, scope, subject) ==
  [rules |-> rules, bounds |-> << >>, preferences |-> << >>, stage |-> stage, scope |-> scope,
   subject |-> subject, maxProblems |-> 2, maxResults |-> 7,
   run |-> [exists |-> TRUE, status |-> "running", srid |-> 1]]
MCExclusionDockets ==
  {MCDocket(<<[boundary |-> (0..3) \X (0..3) \ {<<3, 3>>}, exclusions |-> <<e, f>>,
               maxCandidates |-> m] @@ MCRule("exclusion", 1)>>,
            "place", "BUILDING", [kind |-> "exclusion", cells |-> c]) :
     c \in MCShapes, e \in MCShapes, f \in MCShapes, m \in {1, 2}}
MCSetbackDockets ==
  {MCDocket(<<[bands |-> <<[minimum |-> d, features |-> f], [minimum |-> 2, features |-> <<g, {<<3, 2>>}>>]>>,
               maxCandidates |-> m] @@ MCRule("setback", 1)>>,
            "place", "BUILDING", [kind |-> "setback", cells |-> c]) :
     c \in MCShapes, d \in {0, 1, 3}, f \in {<< >>, <<{<<2, 2>>}>>}, g \in MCShapes, m \in {1, 3}}
MCRasterDockets ==
  {MCDocket(<<[raster |-> [p \in (0..1) \X (0..2) |-> (<<<<3, g, 5>>, <<2, 4, Lacking>>>>)[p[1] + 1][p[2] + 1]],
               height |-> 2, width |-> 3, threshold |-> t, comparison |-> k, nodata |-> n,
               maxWindows |-> 2, maxSamples |-> 6] @@ MCRule("raster", 1)>>,
            "place", "BUILDING", [kind |-> "raster", windows |-> w]) :
     g \in {1, Lacking}, t \in {2, 4}, k \in {"AT_MOST", "AT_LEAST"}, n \in {"REJECT", "IGNORE"},
     w \in LET at(r, c, h, l) == [row |-> r, column |-> c, height |-> h, width |-> l]
           IN  {<<at(0, 0, 2, 3)>>, <<at(0, 1, 1, 1), at(1, 2, 1, 1)>>, <<at(1, 0, 1, 2), at(0, 1, 2, 1)>>,
                <<at(1, 1, 1, 1), at(1, 1, 2, 1)>>, <<at(0, 0, 2, 3), at(0, 0, 1, 1)>>,
                <<at(0, 0, 1, 1), at(0, 0, 1, 1), at(0, 0, 1, 1)>>}}
MCEvidence(code, fails, srid, polygons) ==
  [returned |-> code, hit |-> IF fails THEN <<"other">> ELSE << >>,
   problem |-> IF srid = 0 THEN {} ELSE {[srid |-> srid, polygons |-> polygons]}]
  @@ [MCRule("other", code) EXCEPT !.stage = "final_validation", !.scope = "TERRITORY"]
MCFinalDockets ==
  LET bound(m, l, h) == [metric |-> m, minimum |-> l, maximum |-> h]
      bounds == <<bound(4, 1, 2), bound(1, Unbounded, 2), bound(3, 1, Unbounded), bound(2, 2, 2)>>
      preferences == <<[weight |-> 3] @@ bound(2, 1, 1), [weight |-> 2] @@ bound(1, 2, Unbounded)>>
      others == {<< >>} \cup {<<MCEvidence(9, f, g, {{<<0, 0>>, <<0, 1>>}}),
                                MCEvidence(10, TRUE, 1, x)>> :
                                f \in BOOLEAN, g \in 0..2, x \in {{}, {{<<0, 1>>}, {<<2, 2>>}}}}
      final == {[MCDocket(o \o <<MCRule("exclusion", 1)>>, "final_validation", "TERRITORY",
                          [kind |-> "aggregate", amounts |-> <<u, v, w, 2>>])
                   EXCEPT !.bounds = bounds, !.preferences = preferences] :
                  o \in others, u \in 1..3, v \in 1..3, w \in {0, 1, Lacking}}
      some == CHOOSE c \in final : c.subject.amounts = <<1, 2, 1, 2>> /\ c.rules = <<MCRule("exclusion", 1)>>
  IN  final \cup
      {[some EXCEPT !.bounds = Tail(bounds)], [some EXCEPT !.bounds = << >>],
       [some EXCEPT !.preferences = preferences \o preferences],
       [some EXCEPT !.rules = <<MCEvidence(1, FALSE, 0, {})>>],
       [some EXCEPT !.rules = <<[MCEvidence(9, FALSE, 0, {}) EXCEPT !.returned = 8]>>],
       [some EXCEPT !.scope = "BUILDING"], [some EXCEPT !.maxResults = 5],
       [some EXCEPT !.run.status = "succeeded"], [some EXCEPT !.run.exists = FALSE]}
      \cup {[c EXCEPT !.maxProblems = 1] : c \in {d \in final : d.subject.amounts = <<1, 2, 1, 2>>}}
MCConstraintCases == MCExclusionDockets \cup MCSetbackDockets \cup MCRasterDockets \cup MCFinalDockets

-----------------------------------------------------------------------------
(* Scoring: three metrics, one for each direction, values at, beside and beyond the    *)
(* bounds or missing; three runs, three perturbations; each reason to refuse.          *)

MCPolicy(d, l, u, m, c) ==
  [direction |-> d, lower |-> l, upper |-> u, from |-> 2, to |-> 3, missing |-> m, clamp |-> c]
MCProfile(m, c) ==
  <<MCPolicy("HIGHER", 0, 4, m, c), MCPolicy("LOWER", 1, 3, "REJECT", "CLAMP"),
    MCPolicy("TARGET", 0, 6, "REJECT", "CLAMP")>>
MCScoringCases ==
  LET raws == {<<a, b, c>> : a \in {0, 3, 5, Absent}, b \in {2, 3}, c \in {1, 2, 4}}
      run(raw, w) == [raw |-> raw, weights |-> w, config |-> "c1", profile |-> "p1", status |-> "running"]
      cases == {[profile |-> MCProfile(m, c),
                 runs |-> <<run(a, w), run(b, w), run(<<3, 2, 5>>, w)>>,
                 perturbations |-> <<<<0, 1, 3>>, <<2, 2, 2>>, <<3, 1, 0>>>>,
                 request |-> <<3, 1, 2>>, maxRuns |-> 3] :
                  a \in raws, b \in {r \in raws : r[2] = 2}, m \in {"AS_WORST", "PROPAGATE"},
                  w \in {<<1, 2, 3>>, <<0, 2, 1>>}, c \in {"CLAMP", "REJECT"}}
      some == CHOOSE c \in cases : c.runs[1] = run(<<3, 2, 1>>, <<1, 2, 3>>)
                                    /\ c.runs[2] = run(<<3, 2, 2>>, <<1, 2, 3>>)
  IN  {c \in cases : c.profile[1].clamp = "CLAMP" \/ c.runs[2].raw = <<5, 2, 1>>}
      \cup {[some EXCEPT !.runs[2].raw = <<3, 2>>], [some EXCEPT !.runs[2].weights = <<1, 2>>],
            [some EXCEPT !.runs[2].status = "succeeded"], [some EXCEPT !.runs[1].status = "missing"], [some EXCEPT !.runs[2].weights = <<2, 4, 6>>],
            [some EXCEPT !.runs[2].config = "c2"], [some EXCEPT !.runs[2].profile = "p2"],
            [some EXCEPT !.runs[2].raw[2] = Absent], [some EXCEPT !.request = <<1, 4>>],
            [some EXCEPT !.maxRuns = 2], [some EXCEPT !.perturbations[2] = <<1, 2>>],
            [some EXCEPT !.perturbations[2] = <<0, 0, 0>>]}

-----------------------------------------------------------------------------
(* Zoning: seven raster cells, five cells of the partition in a line, a ring, a star,  *)
(* with chords, or in two parts; areas of 1 to 3; shares of a quarter of the land.     *)

Line(n) == {{i, i + 1} : i \in 1..(n - 1)}
MCPlats(n) ==
  {[borders |-> b, area |-> [i \in 1..n |-> 1 + ((i * k) % 3)]] :
     k \in 0..2,
     b \in {Line(n), Line(n) \cup {{1, n}}, {{1, i} : i \in 2..n},
            Line(n) \cup {{1, 4}, {2, 5}}, {{1, 2}, {3, 4}}}}
MCPolicies == {<< >>, ({1, 2} :> "FORBIDDEN") @@ ({2, 3} :> "PREFERRED"),
               ({1, 3} :> "DISCOURAGED") @@ ({1, 4} :> "PREFERRED")}
MCZoningCases ==
  {[share |-> s, minimum |-> m, policy |-> p, score |-> <<0, 2, -1, 2, 1, 0, 1>>,
    count |-> 5, limit |-> l, rejected |-> {4}, plats |-> MCPlats(5)] :
     s \in {<<4, 0, 0, 0>>, <<2, 1, 1, 0>>, <<1, 1, 1, 1>>, <<0, 1, 0, 3>>, <<1, 2, 1, 0>>},
     m \in {<<1, 1, 1, 1>>, <<3, 4, 2, 3>>, <<2, 5, 2, 2>>}, p \in MCPolicies, l \in {1, 6}}
  \cup {[share |-> <<1, 1, 1, 1>>, minimum |-> <<1, 1, 1, 1>>, policy |-> << >>,
         score |-> <<0, -1>>, count |-> 2, limit |-> 1, rejected |-> {}, plats |-> {}]}

-----------------------------------------------------------------------------
(* Roads: two rows of three raster cells, four anchors at most; fixed nodes on a cell, *)
(* off the centre of one, or excluded; detours that fit the budget and that do not.    *)

Between(i, j) == Max({i, j}) - Min({i, j})
Apart(a, b) ==
  LET dx == Between((a - 1) % 3, (b - 1) % 3)
  IN  IF (a - 1) \div 3 = (b - 1) \div 3 THEN 30 * dx ELSE <<40, 50, 72>>[dx + 1]
MCReach(nodes) ==
  [e \in (1..6) \X DOMAIN nodes |->
     CASE nodes[e[2]] = 0 -> 10
       [] nodes[e[2]] = 6 -> Apart(e[1], 6) + 5
       [] OTHER -> Apart(e[1], nodes[e[2]])]
MCFixed ==
  {[mode |-> "FROM_SCRATCH", refs |-> FALSE, policy |-> FALSE, nodes |-> << >>],
   [mode |-> "EXPANSION", refs |-> TRUE, policy |-> TRUE, nodes |-> <<1, 6, 0>>],
   [mode |-> "EXPANSION", refs |-> TRUE, policy |-> TRUE, nodes |-> <<4>>],
   [mode |-> "EXPANSION", refs |-> FALSE, policy |-> TRUE, nodes |-> <<4>>]}
MCRoadCases ==
  LET cases ==
        {[score |-> <<4, 1, 3, 2, 0, 3>>, sampled |-> s, minimum |-> 1,
          zone |-> <<1, 1, 2, 2, 1, 3>>, class |-> k, allowed |-> {1, 3}, maxAnchors |-> 4,
          region |-> r, distance |-> [p \in kSubset(2, 1..6) |-> Apart(Min(p), Max(p))],
          detours |-> {0, 35}, maxBaseline |-> 5, maxPairs |-> 6, budget |-> b,
          maxIterations |-> 3, mode |-> f.mode, refs |-> f.refs, policy |-> f.policy,
          nodeCell |-> f.nodes, reach |-> MCReach(f.nodes), maxReach |-> 40,
          maxAttachments |-> 3] :
           s \in {1..6, {1, 3, 4, 6}}, k \in {<<1, 3, 1>>, <<1, 1, 1>>},
           r \in {<<1, 1, 1, 1, 1, 1>>, <<1, 1, 1, 2, 1, 2>>}, b \in {65, 130}, f \in MCFixed}
      some == CHOOSE c \in cases : c.mode = "EXPANSION" /\ c.refs
  IN  cases \cup {[some EXCEPT !.maxBaseline = b, !.maxPairs = 5, !.maxAttachments = 1] : b \in {3, 4}}

-----------------------------------------------------------------------------
(* Road graphs: six points in a row ten apart; crossings at one grade and at two, ends  *)
(* chained by nearness, doubled roads, a ring, a road in two lines; every mix of        *)
(* origins; one survey at each limit.                                                   *)

MCRoad(l, g) == [lines |-> l, grade |-> g]
MCSurveys ==
  {[roads |-> <<MCRoad(<<<<1, 3, 5>>>>, g), MCRoad(<<<<2, 3, 4>>>>, h), MCRoad(<<l>>, 0)>>,
    near |-> {{5, 6}}] : g, h \in {0, 1}, l \in {<<3, 6>>, <<6, 2>>, <<5, 6>>}}
  \cup {[roads |-> <<MCRoad(<<<<1, 2>>>>, 0), MCRoad(<<<<3, 5>>>>, 1), MCRoad(<<<<4, 6>>>>, 0),
                     MCRoad(<<<<5, 6>>>>, 0)>>, near |-> {{2, 3}, {3, 4}}]}
  \cup {[roads |-> <<MCRoad(<<<<1, 2, 3>>>>, 0), MCRoad(<<<<3, 2>>>>, g), MCRoad(<<<<3, 4>>>>, 0),
                     MCRoad(<<<<4, 5>>>>, 0)>>, near |-> n] : g \in {0, 1}, n \in {{}, {{5, 1}}}}
  \cup {[roads |-> <<MCRoad(<<<<1, 2, 3, 1>>>>, 0), MCRoad(<<<<1, 4>>>>, 0),
                     MCRoad(<<<<4, 5>>, <<5, 6>>>>, 0)>>, near |-> n] : n \in {{}, {{4, 5}}}}
MCSurveyCases ==
  LET cases ==
        {[roads |-> [r \in DOMAIN s.roads |->
            s.roads[r] @@ [origin |-> o[(r % 3) + 1], intent |-> t, class |-> "primary"]],
          near |-> s.near, length |-> [p \in kSubset(2, 1..6) |-> 10 * Between(Min(p), Max(p))],
          tiny |-> y, dangling |-> d, maxSnaps |-> 6, maxMeetings |-> 6, maxEdges |-> 7,
          maxNodes |-> 6, maxPasses |-> m, collector |-> 20, arterial |-> 40,
          baselineFloor |-> "collector", intentFloor |-> "collector", maxComponents |-> 1,
          forbidden |-> {2}, maxForbidden |-> 0, maxLines |-> 4, maxSubjects |-> 4, crossing |-> 3,
          deadEndPercent |-> 50] :
           s \in MCSurveys, t \in {"LOCAL", "COLLECTOR"}, y \in {0, 10}, d \in {0, 10, 30},
           o \in {<<"EXISTING", "BASELINE_GENERATED", "GROWTH_GENERATED">>,
                  <<"GROWTH_GENERATED", "GROWTH_GENERATED", "GROWTH_GENERATED">>,
                  <<"BASELINE_GENERATED", "EXISTING", "EXISTING">>}, m \in {1, 3}}
      some == CHOOSE c \in cases : Len(c.roads) = 4 /\ c.near # {}
  IN  cases \cup {[some EXCEPT !.maxSnaps = 0], [some EXCEPT !.maxMeetings = 0],
                  [some EXCEPT !.maxEdges = 3], [some EXCEPT !.maxLines = 3], [some EXCEPT !.maxSubjects = 1]}

-----------------------------------------------------------------------------
(* Blocks: two faces of three pieces side by side and one piece without any neighbour, *)
(* which is a face only when a road runs round it; a road that ends inside a face and  *)
(* one that repeats another.                                                           *)

MCBoundary ==
  ({1, 2} :> 2) @@ ({2, 3} :> 1) @@ ({1, 3} :> 1) @@ ({3, 4} :> 2)
  @@ ({4, 5} :> 1) @@ ({5, 6} :> 3) @@ ({2, 5} :> 1) @@ ({4, 6} :> 2)
  @@ ({0, 1} :> 3) @@ ({0, 6} :> 2) @@ ({0, 7} :> 1)
MCStreets(ends) ==
  <<{0, 1}, {3, 4}, {2, 5}, {0, 6}>> \o (IF ends THEN <<{1, 2}, {3, 4}>> ELSE <<{0, 7}>>)
MCBlockCases ==
  {[size |-> s, boundary |-> MCBoundary, edges |-> MCStreets(o = 2), near |-> {2, 7},
    developable |-> IF d = 1 THEN 1..7 ELSE 1..6, excluded |-> x, maxArea |-> 4, maxDepth |-> d,
    minArea |-> m, maxOperations |-> o, within |-> w, unmergeable |-> u,
    minBlockFrontage |-> 3, zoneLand |-> <<{1, 2, 3, 4}, {4, 5, 6, 7}>>,
    residential |-> IF w /\ d = 1 THEN {1} ELSE {},
    minParcel |-> 3, maxParcels |-> 2, targetFrontage |-> 3, minFrontage |-> 2] :
     s \in {<<1, 2, 3, 2, 2, 1, 1>>, <<3, 1, 2, 1, 1, 3, 2>>}, x \in {{}, {5}}, d \in {1, 2},
     m \in {2, 4}, o \in {2, 6}, w \in BOOLEAN, u \in {"KEEP", "DROP"}}

-----------------------------------------------------------------------------
(* Buildings: footprints 1 and 2 on the grid and 3 along the frontages of the first     *)
(* parcel of a block, 4 on the second, 5 and 6 on a block without parcels, 7 fixed.     *)

MCFront(r, f, straight, edge) ==
  [road |-> r, prints |-> f, length |-> Len(f), straight |-> straight, bent |-> FALSE,
   edge |-> edge, angle |-> 0]
MCRing(f) == [print |-> f, outer |-> 1, inner |-> 1, holes |-> 1, pieces |-> 1,
                courts |-> 0]
MCPlot(size, grid, kerbs, f) ==
  [size |-> size, masked |-> size, inset |-> size - 2, parts |-> 1, failing |-> {},
   width |-> 2, height |-> 2, angle |-> 1, grid |-> grid, middle |-> 4, fronts |-> kerbs,
   ring |-> MCRing(f)]
MCArchetype(n, s, x, z, w) ==
  [name |-> n, strategy |-> s, spec |-> s, scope |-> x, zones |-> z, weight |-> w,
   multiplier |-> 2]

MCBuildingCases ==
  LET every == {"UPRIGHT", "TURNED", "ALONG", "ACROSS"}
      first == MCPlot(10, {1, 2}, <<MCFront(1, <<3>>, TRUE, TRUE)>>, 1)
      second == MCPlot(8, {}, << >>, 4)
      lots == <<{[part |-> 1, plot |-> first], [part |-> 2, plot |-> second]}, {}>>
      plots == <<MCPlot(20, {1, 2, 3, 4}, << >>, 3), MCPlot(10, {5, 6}, << >>, 5)>>
      rules == {[zone |-> z, name |-> n, min |-> 1, max |-> n] : z \in 1..2, n \in 1..2}
      cases ==
        {[area |-> <<2, 2, 2, 3, 3, 2, 4>>, near |-> n,
          boxed |-> n \cup {{3, 4}, {1, 3}}, zone |-> z, parcels |-> lots, plot |-> plots,
          fits |-> [f \in 1..7 |-> IF f \in w THEN every ELSE {"UPRIGHT"}],
          profiles |-> p, rules |-> rules, evaluators |-> {1},
          targets |-> t, mode |-> m.mode, refs |-> m.mode = "EXPANSION",
          existing |-> m.existing, baseAt |-> m.at, baseCover |-> m.cover,
          baseFloor |-> m.cover, priorFootprint |-> m.cover, priorGfa |-> 2 * m.cover,
          setback |-> 0, minArea |-> 1, apart |-> 2, maxAxis |-> 1, spacing |-> 1,
          byGrid |-> TRUE, byFrontage |-> TRUE, maxParts |-> 1, maxScan |-> 4,
          maxSamples |-> 2, maxCandidates |-> 4, maxSources |-> 3, maxLooked |-> l,
          maxFootprints |-> 5, maxBoxed |-> x] :
           n \in {{{1, 2}, {2, 3}, {1, 4}, {4, 5}, {6, 7}}, {{4, 5}, {6, 7}, {1, 4}}},
           z \in {<<1, 1>>, <<1, 2>>}, w \in {1..7, {2, 3, 5}},
           p \in {<<MCArchetype(1, "RECTANGULAR_POINT", "PARCEL", {1}, 1),
                    MCArchetype(2, "PERIMETER", "BLOCK", {1, 2}, 2)>>,
                  <<MCArchetype(1, "BAR", "PARCEL_OR_BLOCK", {1, 2}, 2),
                    MCArchetype(2, "COURTYARD", "BLOCK", {1, 2}, 1)>>,
                  <<MCArchetype(1, "RECTANGULAR_POINT", "BLOCK", {1, 2}, 1)>>},
           t \in {[k \in 1..2 |-> [low |-> 30, high |-> 60, farLow |-> 50, farHigh |-> 110]],
                  [k \in 1..2 |-> [low |-> 60, high |-> 70, farLow |-> 0, farHigh |-> 150]]},
           m \in {[mode |-> "FROM_SCRATCH", existing |-> {}, at |-> 0, cover |-> 0],
                  [mode |-> "EXPANSION", existing |-> {7}, at |-> 1, cover |-> 4],
                  [mode |-> "EXPANSION", existing |-> {7}, at |-> 1, cover |-> 7]},
           l \in {2, 4}, x \in {1, 3}}
      some == CHOOSE c \in cases :
                c.mode = "FROM_SCRATCH" /\ c.zone = <<1, 2>> /\ c.maxLooked = 4
                /\ Len(c.profiles) = 2 /\ c.profiles[1].strategy = "BAR" /\ c.maxBoxed = 3
                /\ c.targets[1].low = 30 /\ c.fits[1] = every
      with(plot) == [some EXCEPT !.parcels = <<{[part |-> 1, plot |-> plot]}, {}>>]
      ringed(ring) == [some EXCEPT !.parcels = <<{}, {}>>, !.plot[1].ring = ring,
                        !.profiles = <<MCArchetype(2, "PERIMETER", "BLOCK", {1, 2}, 2)>>]
      old == [some EXCEPT !.mode = "EXPANSION", !.refs = TRUE, !.existing = {7}]
      grown == {[old EXCEPT !.existing = {}], [old EXCEPT !.priorFootprint = 27]}
      limits == {[some EXCEPT !.maxSources = 1], [some EXCEPT !.maxFootprints = 2],
                 [some EXCEPT !.maxScan = 3], [some EXCEPT !.maxCandidates = 2],
                 [some EXCEPT !.zone = <<0, 0>>], [some EXCEPT !.rules = {r \in rules : r.zone = 1}],
                 [some EXCEPT !.targets = [k \in {1} |-> @[k]]],
                 [some EXCEPT !.profiles[1].spec = "COURTYARD"],
                 [some EXCEPT !.profiles[2].scope = "PARCEL_OR_BLOCK"]}
      envelopes == {with([first EXCEPT !.masked = 0, !.inset = 0]),
                    with([first EXCEPT !.failing = {1}]), with([first EXCEPT !.parts = 2]),
                    [with(second) EXCEPT !.setback = 1, !.minArea = 7],
                    [with([second EXCEPT !.inset = 0]) EXCEPT !.setback = 1],
                    [with([first EXCEPT !.fronts[1].edge = FALSE]) EXCEPT !.setback = 1]}
      along == {with([first EXCEPT !.fronts = f]) :
                   f \in {<<MCFront(1, <<3>>, FALSE, TRUE)>>,
                          <<MCFront(1, <<3>>, FALSE, TRUE), MCFront(1, <<4>>, TRUE, TRUE)>>,
                          <<MCFront(1, <<3, 4, 2>>, TRUE, TRUE)>>,
                          <<[MCFront(1, <<3>>, TRUE, TRUE) EXCEPT !.bent = TRUE]>>}}
      courts == {ringed([MCRing(3) EXCEPT !.outer = 0]), ringed([MCRing(3) EXCEPT !.inner = 0]),
                ringed([MCRing(3) EXCEPT !.inner = 2]), ringed([MCRing(3) EXCEPT !.courts = 1])}
      only == {[c EXCEPT !.byGrid = g, !.byFrontage = ~g, !.maxAxis = a] :
                 c \in along, g \in BOOLEAN, a \in {1, 2}}
  IN  cases \cup grown \cup limits \cup envelopes \cup along \cup courts \cup only

-----------------------------------------------------------------------------
(* Infrastructure: four network nodes on a line, three demands, up to four sources. In  *)
(* the small cases sources are skipped, barred, clipped, doubled or too many, records   *)
(* have no rule or one of another type, and demand is served twice or nowhere.          *)

MCKinds == <<"parcel", "block", "building", "block">>
MCSource(k, i, z, l, r, n) ==
  [kind |-> k, id |-> i, zone |-> z, left |-> l, right |-> r, node |-> n]
MCSources(nodes, small) ==
  [i \in DOMAIN nodes |->
     MCSource(MCKinds[i], i, "mixed", 4, IF i \in small THEN 1 ELSE 4, nodes[i])]
MCRecord(i, u, c, n) == [id |-> i, use |-> u, capacity |-> c, node |-> n]
MCServed(v) == [i \in DOMAIN v |-> [block |-> i, amount |-> v[i]]]
MCDistances == [e \in (1..4) \X (1..4) |-> 10 * Between(e[1], e[2])]
MCSupplyCases ==
  LET cases ==
        {[signal |-> s, signalKind |-> "population", rate |-> 2, served |-> MCServed(v),
          blockNode |-> <<1, 2, b>>, sources |-> MCSources(k, f), hosts |-> 1..4,
          records |-> <<MCRecord(1, "school", 2, 2)>>,
          rules |-> [school |-> [known |-> TRUE, capacity |-> 0]], skipUnmapped |-> TRUE,
          distance |-> MCDistances,
          maxDistance |-> 10, capacity |-> p, minimumArea |-> 8, targetArea |-> 8,
          enabled |-> DOMAIN SourceRank, allowed |-> {"mixed"}, rounds |-> 3,
          maxFacilities |-> n, maxIterations |-> i, batch |-> 2, maxInputs |-> 4,
          maxCandidates |-> 4, maxItems |-> 3, maxResults |-> 9, maxCalls |-> 4] :
           s \in {<<1, 2, 3>>, <<2, 0, 1>>, <<0, 2, 2>>},
           v \in {<<0, 0, 0>>, <<1, 0, 0>>, <<0, 4, 0>>, <<2, 0, 1>>}, b \in {0, 2, 3},
           k \in {<<1, 3, 4>>, <<2, 2, 3>>, <<2, 0>>, <<1, 2, 3, 4>>}, p \in {2, 5},
           f \in {{3, 4}, {2, 3, 4}, {1, 3}}, n \in {2, 3}, i \in {1, 3}}
      some == {c \in cases :
                 /\ c.signal = <<1, 2, 3>> /\ c.blockNode = <<1, 2, 3>> /\ c.capacity = 5
                 /\ Len(c.sources) = 3 /\ c.maxFacilities = 3 /\ c.maxIterations = 3}
      plain == {c \in some : \A v \in Range(c.served) : v.amount = 0}
      large == [n \in 1..3 |-> MCSource(<<"block", "parcel", "block">>[n], n, "mixed", 8, 4 * n, n)]
      sited == {[c EXCEPT !.sources = l, !.targetArea = a, !.rounds = r, !.minimumArea = 6] :
                  c \in plain, l \in {large, SubSeq(large, 1, 2)},
                  a \in {6, 8, 10, 13, 20}, r \in {2, 3}}
      zoned == {[c EXCEPT !.sources = [i \in DOMAIN c.sources |->
                     [c.sources[i] EXCEPT !.zone = z[i]]], !.enabled = e, !.hosts = h] :
                  c \in plain, e \in SUBSET DOMAIN SourceRank \ {{}},
                  z \in {<<"", "mixed", "mixed">>, <<"mixed", "", "green">>,
                         <<"green", "mixed", "mixed">>}, h \in {{}, 1..4}}
      doubled == {[c EXCEPT !.sources[2].kind = "parcel", !.sources[2].id = 1] : c \in plain}
      limits == UNION {{[c EXCEPT !.maxInputs = 2], [c EXCEPT !.maxCandidates = 2],
                        [c EXCEPT !.maxItems = 2],
                        [c EXCEPT !.served = Append(@, [block |-> 1, amount |-> 1])],
                        [c EXCEPT !.served = Append(@, [block |-> 4, amount |-> 1])]} : c \in plain}
      known == {[c EXCEPT !.records = r, !.rules = u, !.skipUnmapped = k, !.signalKind = s] :
                  c \in some,
                  r \in {<< >>, <<MCRecord(2, "school", 0, 1), MCRecord(1, "kiosk", 3, 2)>>,
                         <<MCRecord(3, "school", 4, 3), MCRecord(1, "school", 0, 2)>>,
                         <<MCRecord(1, "school", 1, 2), MCRecord(1, "school", 2, 2)>>},
                  u \in {[school |-> [known |-> TRUE, capacity |-> 3]],
                         [school |-> [known |-> TRUE, capacity |-> 0],
                          kiosk |-> [known |-> FALSE, capacity |-> 0]]},
                  k \in BOOLEAN, s \in {"age_group", "jobs"}}
  IN  cases \cup sited \cup zoned \cup doubled \cup limits \cup known

-----------------------------------------------------------------------------
(* Accessibility: four nodes on a line, whose roads make the shortest way one of many  *)
(* pieces, double a road or leave a node alone, or no node; two demands, up to three    *)
(* sites, some beyond the tolerance.                                                   *)

MCStreet(e, l) == [ends |-> e, length |-> l]
MCNets ==
  {[at |-> <<0, 10, 20, 30>>, roads |-> r] :
     r \in {<<MCStreet({1, 2}, 30), MCStreet({1, 3}, 10), MCStreet({2, 3}, 10),
              MCStreet({3, 4}, 10)>>,
            <<MCStreet({1, 2}, 40), MCStreet({1, 2}, 10), MCStreet({2, 3}, 20),
              MCStreet({3, 4}, 20), MCStreet({1, 4}, 20), MCStreet({4}, 5)>>,
            <<MCStreet({1, 4}, 10), MCStreet({2, 4}, 10), MCStreet({1, 2}, 20)>>,
            <<MCStreet({1, 2}, 40), MCStreet({1, 3}, 10), MCStreet({3, 4}, 10),
              MCStreet({2, 4}, 10)>>}}
  \cup {[at |-> << >>, roads |-> << >>]}
MCAccessCases ==
  LET cases ==
        {[at |-> n.at, roads |-> n.roads, mode |-> k, tolerance |-> 6, reach |-> r,
          demandAt |-> <<a, b>>, siteAt |-> s, batch |-> 1, maxBatch |-> 5, maxSubjects |-> 5,
          maxDemands |-> 2, maxCandidates |-> 3, maxResults |-> 4, maxCalls |-> 4,
          maxVisited |-> v, distinct |-> TRUE, current |-> TRUE, algorithm |-> "dijkstra",
          sources |-> {1}, target |-> 1] :
           n \in MCNets, k \in {"existing", "candidates"}, r \in {20, 30},
           a \in {-10, 5, 21}, b \in {5, 12, 30},
           s \in {<<0, 25>>, <<30, 5>>, <<13, 40>>, <<29, 28, 1>>}, v \in {3, 4}}
      some == CHOOSE c \in cases :
                c.mode = "candidates" /\ c.siteAt = <<0, 25>> /\ c.demandAt = <<5, 12>>
  IN  cases \cup
        {[some EXCEPT !.maxBatch = 3], [some EXCEPT !.maxDemands = 1], [some EXCEPT !.maxCalls = 1],
         [some EXCEPT !.maxCandidates = 1], [some EXCEPT !.mode = "existing", !.maxSubjects = 3],
         [some EXCEPT !.distinct = FALSE], [some EXCEPT !.current = FALSE]}
        \cup {[c EXCEPT !.mode = "path", !.algorithm = a, !.sources = f, !.target = t] :
               c \in {x \in cases : x.mode = "existing" /\ x.siteAt = <<0, 25>>
                                  /\ x.demandAt = <<5, 12>>},
               a \in {"dijkstra", "astar"}, f \in {{1}, {4}, {2, 3}}, t \in 1..4}

-----------------------------------------------------------------------------
(* Demography: four buildings in three blocks of two zones.                            *)

MCBuildings == 1..4
MCBlockOf == <<1, 1, 2, 3>>
MCZoneOf == <<1, 1, 2>>
\* A raster of two rows, whose columns are the blocks; the first is read in two windows.
MCPixels(v) == [x \in (0..1) \X (0..2) |-> v[x[2] + 1][x[1] + 1]]
MCWindow(r, c, h, w) == [row |-> r, col |-> c, height |-> h, width |-> w]
MCWindows ==
  <<<<MCWindow(0, 0, 1, 1), MCWindow(1, 0, 1, 1)>>, <<MCWindow(0, 1, 2, 1)>>,
    <<MCWindow(0, 2, 2, 1)>>>>
MCRasters ==
  {[raster |-> r[1], values |-> r[2], kind |-> r[3], weight |-> r[4]] :
     r \in {<<FALSE, <<<<-1, -1>>, <<-1, -1>>, <<-1, -1>>>>, "cell", 0>>,
            <<TRUE, <<<<1, 0>>, <<5, -1>>, <<0, 0>>>>, "density", 1>>,
            <<TRUE, <<<<1, 0>>, <<1, 1>>, <<-1, -1>>>>, "cell", 2>>}}
MCTargets ==
  {[target |-> [kind |-> "total", value |-> v], baseline |-> 0, mode |-> "scratch"] : v \in {3, 5, 7}}
  \cup {[target |-> [kind |-> "growth", value |-> v], baseline |-> 3, mode |-> "expansion"] :
          v \in -1..1}
MCSettlements ==
  {[use |-> u, gfa |-> f, occupancy |-> 2, perPerson |-> 1, mixed |-> 1, weights |-> w,
    working |-> 1, target |-> t.target, baseline |-> t.baseline, known |-> t.baseline > 0,
    mode |-> t.mode, fixed |-> FALSE, perJob |-> [x \in JobUses |-> IF x = "public" THEN 2 ELSE 1],
    area |-> <<1, 2, 3>>, maxBuildings |-> 4, maxBlocks |-> 3, maxCalibrated |-> 3,
    raster |-> r.raster, height |-> 2, width |-> 3, cellArea |-> 3, kind |-> r.kind,
    pixels |-> MCPixels(r.values), windows |-> MCWindows, reject |-> FALSE, maxSubjects |-> 3,
    maxWindows |-> 2, maxCells |-> 6, rasterWeight |-> r.weight, minimumValid |-> 2] :
     u \in {<<"residential", "residential", "mixed", "residential">>,
            <<"mixed", "public", "residential", "commercial">>},
     f \in [MCBuildings -> {0, 1, 3}], t \in MCTargets, w \in {<<1, 1>>, <<2, 5, 1>>},
     r \in MCRasters}

\* Every pair of windows on the raster, and every input that is turned down.
MCDemographyCases ==
  LET some == CHOOSE c \in MCSettlements :
                c.kind = "density" /\ c.gfa = <<3, 3, 1, 3>> /\ c.mode = "scratch"
                  /\ c.target.value = 7
      grown == CHOOSE c \in MCSettlements :
                 c.gfa = <<3, 3, 1, 3>> /\ c.target = [kind |-> "growth", value |-> 1] /\ ~c.raster
      windows == {MCWindow(r, c, h, w) : r \in 0..1, c \in 0..2, h \in 1..2, w \in 1..2}
  IN  MCSettlements
        \cup {[some EXCEPT !.windows[1] = <<v, w>>, !.maxCells = 12] : v, w \in windows}
        \cup {[some EXCEPT !.reject = TRUE], [some EXCEPT !.maxSubjects = 2],
              [some EXCEPT !.maxWindows = 1], [some EXCEPT !.maxCells = 5],
              [some EXCEPT !.windows = <<MCWindows[1], MCWindows[2]>>],
              [some EXCEPT !.maxCalibrated = 2], [some EXCEPT !.maxBuildings = 3],
              [some EXCEPT !.maxBlocks = 2], [some EXCEPT !.fixed = TRUE],
              [some EXCEPT !.pixels = [x \in DOMAIN @ |-> -1]],
              [grown EXCEPT !.maxBlocks = 2], [grown EXCEPT !.mode = "scratch"],
              [grown EXCEPT !.known = FALSE, !.baseline = 0],
              [grown EXCEPT !.known = FALSE, !.baseline = 0, !.fixed = TRUE],
              [grown EXCEPT !.target = [kind |-> "total", value |-> 2]]}

-----------------------------------------------------------------------------
(* One of the machines runs; the others stay where they are. *)

PlanIdle ==
  /\ phase = "idle" /\ deps = << >> /\ requested = {} /\ mark = << >> /\ path = << >>
  /\ cycle = << >> /\ indegree = << >> /\ ready = {} /\ order = << >> /\ reason = << >>
  /\ blockedBy = << >>
SuitIdle ==
  /\ suiting = "idle" /\ terrain = << >> /\ excluded = {} /\ factorAt = 0 /\ tileAt = 0
  /\ values = << >> /\ measured = << >> /\ weighted = << >>
ConstraintsIdle ==
  /\ judging = "idle" /\ docket = << >> /\ ruleBook = {} /\ findings = << >>
  /\ tally = << >> /\ keptReport = {}
ScoringIdle ==
  /\ scoring = "idle" /\ contest = << >> /\ composite = << >> /\ evaluations = << >>
  /\ dataset = << >> /\ baseline = << >> /\ scenarios = << >>
ZoningIdle ==
  /\ zoning = "idle" /\ given = [count |-> 0] /\ seeds = << >> /\ plat = << >>
  /\ label = << >> /\ dealt = << >> /\ moves = 0 /\ best = << >> /\ refs = << >>
RoadsIdle ==
  /\ road = "idle" /\ site = << >> /\ anchors = {} /\ spanning = << >> /\ routed = << >>
  /\ tried = << >> /\ preferred = "" /\ halt = "" /\ attached = << >>
GraphIdle ==
  /\ graph = "idle" /\ survey = << >> /\ lines = << >> /\ noded = << >> /\ cuts = << >>
  /\ junctions = << >> /\ built = << >> /\ edges = << >> /\ passes = 0 /\ parent = << >>
  /\ weight = << >> /\ merged = 0 /\ verdict = << >> /\ removed = << >>
BlocksIdle ==
  /\ parceling = "idle" /\ tract = << >> /\ clipped = << >> /\ pending = << >>
  /\ drafts = << >> /\ groups = << >> /\ links = << >> /\ version = << >> /\ heap = {}
  /\ unresolved = {} /\ dropped = {} /\ events = << >> /\ associated = << >>
  /\ parcels = << >> /\ splits = << >> /\ rings = << >> /\ fronts = << >>
BuildingsIdle ==
  /\ building = "idle" /\ estate = << >> /\ sites = << >> /\ opened = << >> /\ open = {}
  /\ looked = Untouched /\ placed = {} /\ base = {} /\ chunks = << >> /\ ledger = << >>
SupplyIdle ==
  /\ supply = "idle" /\ town = << >> /\ covers = << >> /\ remaining = << >>
  /\ accepted = << >> /\ selection = None /\ stopped = "" /\ metrics = << >>
  /\ facilities = << >> /\ offered = << >> /\ skipped = << >>
AccessIdle ==
  /\ access = "idle" /\ net = << >> /\ snapped = << >> /\ searches = << >>
  /\ frontier = {} /\ tentative = << >> /\ settled = << >> /\ found = {}
  /\ outcome = << >>
DemographyIdle ==
  /\ step = "idle" /\ in = << >> /\ samples = << >> /\ capacity = << >> /\ residents = << >>
  /\ ages = << >> /\ jobs = << >> /\ blocks = << >> /\ zones = << >> /\ audit = << >>
  /\ profile = << >>

\* The registry: stage 1 alone names a missing stage, and skips (at most two) are
\* requested only of a registry that can be ordered.
PlanInit ==
  /\ Init
  /\ \A s \in Stages \ {1} : deps[s] \subseteq Stages
  /\ Cardinality(requested) <= 2
  /\ requested = {} \/ (deps[1] \subseteq Stages /\ Acyclic)

MCInit ==
  \E machine \in {"plan", "suitability", "constraints", "scoring", "zoning", "roads",
                   "graph", "blocks", "buildings", "supply",
                   "access", "demography"} :
    /\ IF machine = "plan" THEN PlanInit ELSE PlanIdle
    /\ IF machine = "suitability" THEN SuitInit ELSE SuitIdle
    /\ IF machine = "constraints" THEN ConstraintInit ELSE ConstraintsIdle
    /\ IF machine = "scoring" THEN ScoringInit ELSE ScoringIdle
    /\ IF machine = "zoning" THEN ZoningInit ELSE ZoningIdle
    /\ IF machine = "roads" THEN RoadInit ELSE RoadsIdle
    /\ IF machine = "graph" THEN GraphInit ELSE GraphIdle
    /\ IF machine = "blocks" THEN BlockInit ELSE BlocksIdle
    /\ IF machine = "buildings" THEN BuildingInit ELSE BuildingsIdle
    /\ IF machine = "supply" THEN SupplyInit ELSE SupplyIdle
    /\ IF machine = "access" THEN AccessInit ELSE AccessIdle
    /\ IF machine = "demography" THEN DemographyInit ELSE DemographyIdle

MCNext ==
  \/ /\ Next
     /\ UNCHANGED <<suitVars, constraintVars, scoringVars, zoningVars, roadVars,
                   graphVars, blockVars, buildingVars, supplyVars, accessVars,
                   demography>>
  \/ /\ SuitNext
     /\ UNCHANGED <<vars, constraintVars, scoringVars, zoningVars, roadVars,
                   graphVars, blockVars, buildingVars, supplyVars, accessVars,
                   demography>>
  \/ /\ ConstraintNext
     /\ UNCHANGED <<vars, suitVars, scoringVars, zoningVars, roadVars, graphVars,
                   blockVars, buildingVars, supplyVars, accessVars, demography>>
  \/ /\ ScoringNext
     /\ UNCHANGED <<vars, suitVars, constraintVars, zoningVars, roadVars, graphVars,
                   blockVars, buildingVars, supplyVars, accessVars, demography>>
  \/ /\ ZoningNext
     /\ UNCHANGED <<vars, suitVars, constraintVars, scoringVars, roadVars, graphVars,
                   blockVars, buildingVars, supplyVars, accessVars, demography>>
  \/ /\ RoadNext
     /\ UNCHANGED <<vars, suitVars, constraintVars, scoringVars, zoningVars,
                   graphVars, blockVars, buildingVars, supplyVars, accessVars,
                   demography>>
  \/ /\ GraphNext
     /\ UNCHANGED <<vars, suitVars, constraintVars, scoringVars, zoningVars,
                   roadVars, blockVars, buildingVars, supplyVars, accessVars, demography>>
  \/ /\ BlockNext
     /\ UNCHANGED <<vars, suitVars, constraintVars, scoringVars, zoningVars,
                   roadVars, graphVars, buildingVars, supplyVars, accessVars, demography>>
  \/ /\ BuildingNext
     /\ UNCHANGED <<vars, suitVars, constraintVars, scoringVars, zoningVars,
                   roadVars, graphVars, blockVars, supplyVars, accessVars, demography>>
  \/ /\ SupplyNext
     /\ UNCHANGED <<vars, suitVars, constraintVars, scoringVars, zoningVars,
                   roadVars, graphVars, blockVars, buildingVars, accessVars, demography>>
  \/ /\ AccessNext
     /\ UNCHANGED <<vars, suitVars, constraintVars, scoringVars, zoningVars,
                   roadVars, graphVars, blockVars, buildingVars, supplyVars, demography>>
  \/ /\ DemographyNext
     /\ UNCHANGED <<vars, suitVars, constraintVars, scoringVars, zoningVars,
                   roadVars, graphVars, blockVars, buildingVars, supplyVars, accessVars>>

allVars == <<vars, suitVars, constraintVars, scoringVars, zoningVars, roadVars, graphVars,
             blockVars, buildingVars, supplyVars, accessVars, demography>>

MCSpec == MCInit /\ [][MCNext]_allVars
=============================================================================

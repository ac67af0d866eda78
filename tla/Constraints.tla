---------------------------- MODULE Constraints ----------------------------
(***************************************************************************)
(* The constraint engine and its rules (constraints/*.py,                  *)
(* domain/constraints.py), the metrics made of its report                  *)
(* (metrics/constraints.py) and the report kept with the run               *)
(* (db/run_validation_writer.py).                                          *)
(*                                                                         *)
(* A geometry is a set of unit cells, closed: two geometries intersect if  *)
(* cells of theirs touch. An index answers with the geometries whose       *)
(* bounding box meets a box; the rules look at nothing else. Codes are     *)
(* numbered in the order of their names.                                   *)
(***************************************************************************)
EXTENDS Integers, FiniteSets, SequencesExt, FiniteSetsExt, Functions

CONSTANT ConstraintCases  \* the inputs: see DocketInput

VARIABLES
  judging,    \* "register", "evaluate", "adapt", "persist", "refused" or "done"
  docket,     \* registrations, the call's stage, scope and subject, limits, the run's row
  ruleBook,   \* registered rules
  findings,   \* results so far, in the order of evaluation
  tally,      \* metrics of the report, once it is adapted
  keptReport  \* the report stored with the run, or no element

constraintVars == <<judging, docket, ruleBook, findings, tally, keptReport>>

Unbounded == -1
Lacking == -1    \* no value, no sample
AggregateMetrics == 1..4

\* AggregateMetricBound and SoftAggregatePreference take two bounds in order, or one.
Limits(b) ==
  /\ b.minimum # Unbounded \/ b.maximum # Unbounded
  /\ b.minimum # Unbounded /\ b.maximum # Unbounded => b.minimum <= b.maximum

DocketInput(c) ==
  /\ c.subject.kind \in {"exclusion", "setback", "raster", "aggregate", "other"}
  /\ c.subject.kind \in {"exclusion", "setback"} => c.subject.cells # {}
  /\ c.subject.kind = "raster" => c.subject.windows # << >>
  /\ \A b \in Range(c.bounds) \cup Range(c.preferences) : Limits(b) /\ b.metric \in AggregateMetrics
  /\ \A p \in Range(c.preferences) : p.weight > 0
  /\ c.maxProblems > 0 /\ c.maxResults > 0

ASSUME ConstraintAssumption == \A c \in ConstraintCases : DocketInput(c)

ConstraintInit ==
  /\ judging = "register" /\ docket \in ConstraintCases
  /\ ruleBook = {} /\ findings = << >> /\ tally = << >> /\ keptReport = {}

JudgingRefused ==
  /\ judging' = "refused"
  /\ UNCHANGED <<docket, ruleBook, findings, tally, keptReport>>

-----------------------------------------------------------------------------
(* The registry. *)

\* Final validation takes a bound for each aggregate metric, once, or none at all is built.
BoundsRefused ==
  /\ docket.bounds # << >>
  /\ \/ Len(docket.bounds) # Cardinality(AggregateMetrics)
     \/ {b.metric : b \in Range(docket.bounds)} # AggregateMetrics
PreferencesRefused ==
  ~IsInjective([i \in DOMAIN docket.preferences |-> docket.preferences[i].metric])

\* Bounds are named aggregate.<metric> and preferences preference.<metric>.
BuiltRule(b, severity) ==
  [stage |-> "final_validation", scope |-> "TERRITORY", kind |-> "aggregate",
   code |-> b.metric + IF severity = "HARD" THEN 0 ELSE Cardinality(AggregateMetrics),
   severity |-> severity, minimum |-> b.minimum, maximum |-> b.maximum, metric |-> b.metric,
   weight |-> IF severity = "HARD" THEN 0 ELSE b.weight]
Registrations ==
  docket.rules \o [i \in DOMAIN docket.bounds |-> BuiltRule(docket.bounds[i], "HARD")]
               \o [i \in DOMAIN docket.preferences |-> BuiltRule(docket.preferences[i], "SOFT")]

Binding(r) == <<r.stage, r.scope, r.code>>

\* One rule for each stage, scope and code.
Register ==
  /\ judging = "register"
  /\ IF BoundsRefused \/ PreferencesRefused \/ ~IsInjective([i \in DOMAIN Registrations |-> Binding(Registrations[i])])
     THEN JudgingRefused
     ELSE /\ ruleBook' = Range(Registrations)
          /\ judging' = "evaluate"
          /\ UNCHANGED <<docket, findings, tally, keptReport>>

\* The rules of exactly the stage and scope asked for, in the order of their codes.
Asked == {r \in ruleBook : r.stage = docket.stage /\ r.scope = docket.scope}
RulesFor ==
  [i \in 1..Cardinality(Asked) |->
     CHOOSE r \in Asked : Cardinality({s \in Asked : s.code < r.code}) = i - 1]

-----------------------------------------------------------------------------
(* Cells, boxes and distances. *)

Meeting(a, b) ==
  \E p \in a, q \in b : p[1] - q[1] \in -1..1 /\ p[2] - q[2] \in -1..1
AxisGap(x, y) == IF x > y + 1 THEN x - y - 1 ELSE IF y > x + 1 THEN y - x - 1 ELSE 0
\* The square of the distance between two geometries.
SquaredGap(a, b) ==
  Min({AxisGap(p[1], q[1]) * AxisGap(p[1], q[1]) + AxisGap(p[2], q[2]) * AxisGap(p[2], q[2]) : p \in a, q \in b})

Lowest(a, k) == Min({p[k] : p \in a})
Highest(a, k) == Max({p[k] : p \in a}) + 1
\* Whether the box around a, widened by a distance on each side, meets the box around b.
\* Mutant: not widened.
BareBoxMeets(a, distance, b) ==
  \A k \in {1, 2} : Lowest(b, k) <= Highest(a, k) /\ Lowest(a, k) <= Highest(b, k)
BoxMeets(a, distance, b) ==
  \A k \in {1, 2} : Lowest(b, k) <= Highest(a, k) + distance /\ Lowest(a, k) - distance <= Highest(b, k)

-----------------------------------------------------------------------------
(* The rules. Each answers "error", or the place of the first hit, << >> for none. *)

Subject == docket.subject

\* GeometryExclusionIndex.check: outside the boundary, or the first exclusion in the order
\* of the list, water before protected, among those the index finds.
ExclusionHit(r) ==
  LET found == {i \in DOMAIN r.exclusions : BoxMeets(Subject.cells, 0, r.exclusions[i])}
      hits == {i \in found : Meeting(Subject.cells, r.exclusions[i])}
  IN  IF ~(Subject.cells \subseteq r.boundary) THEN <<"outside">>
      ELSE IF Cardinality(found) > r.maxCandidates THEN "error"
      ELSE IF hits = {} THEN << >> ELSE <<"exclusion", Min(hits)>>

\* DistanceSetbackIndex.check: the bands in order, without a distance or geometries left
\* out; the limit counts the candidates of all bands up to the one with a hit.
SetbackHit(r) ==
  LET active(b) == r.bands[b].minimum > 0 /\ r.bands[b].features # << >>
      found(b) == {i \in DOMAIN r.bands[b].features :
                     active(b) /\ BoxMeets(Subject.cells, r.bands[b].minimum, r.bands[b].features[i])}
      hits(b) == {i \in found(b) :
                    SquaredGap(Subject.cells, r.bands[b].features[i]) < r.bands[b].minimum * r.bands[b].minimum}
      examined(b) == FoldFunctionOnSet(+, 0, [k \in DOMAIN r.bands |-> Cardinality(found(k))], 1..b)
      ending == {b \in DOMAIN r.bands : examined(b) > r.maxCandidates \/ hits(b) # {}}
  IN  IF ending = {} THEN << >>
      ELSE IF examined(Min(ending)) > r.maxCandidates THEN "error"
      ELSE <<"setback", Min(ending), Min(hits(Min(ending)))>>

\* RasterThresholdEvaluator.check: the windows' samples row by row, until one is missing
\* and missing ones are rejected, or one is beyond the threshold.
WindowSamples(r, w) ==
  [i \in 1..(w.height * w.width) |->
     r.raster[<<w.row + ((i - 1) \div w.width), w.column + ((i - 1) % w.width)>>]]
Bad(r, v) ==
  IF v = Lacking THEN r.nodata = "REJECT"
  ELSE IF r.comparison = "AT_MOST" THEN v > r.threshold ELSE v < r.threshold
RasterHit(r) ==
  LET windows == Subject.windows
      outside(w) == w.row + w.height > r.height \/ w.column + w.width > r.width
      bad(w) == {i \in 1..(w.height * w.width) : ~outside(w) /\ Bad(r, WindowSamples(r, w)[i])}
      ending == {k \in DOMAIN windows : outside(windows[k]) \/ bad(windows[k]) # {}}
  IN  IF \/ Len(windows) > r.maxWindows
         \/ FoldSeq(LAMBDA w, n : n + w.height * w.width, 0, windows) > r.maxSamples
      THEN "error"
      ELSE IF ending # {}
      THEN IF outside(windows[Min(ending)]) THEN "error"
           ELSE <<"sample", Min(ending), Min(bad(windows[Min(ending)]))>>
      ELSE IF \A w \in Range(windows) : Range(WindowSamples(r, w)) = {Lacking} THEN <<"no samples">>
      ELSE << >>

\* The bounds are inclusive; the value must be there.
AggregateHit(r) ==
  LET v == Subject.amounts[r.metric]
  IN  IF v = Lacking THEN "error"
      ELSE IF r.minimum # Unbounded /\ v < r.minimum THEN <<"below">>
      ELSE IF r.maximum # Unbounded /\ v > r.maximum THEN <<"above">>
      ELSE << >>

RuleHit(r) ==
  CASE r.kind = "exclusion" -> ExclusionHit(r) [] r.kind = "setback" -> SetbackHit(r)
    [] r.kind = "raster" -> RasterHit(r)       [] r.kind = "aggregate" -> AggregateHit(r)
    [] OTHER -> r.hit

\* What a rule returns. A preference weighs 1 if it is violated, and never blocks.
ResultOf(r) ==
  LET failed == RuleHit(r) # << >>
  IN  [code |-> IF r.kind = "other" THEN r.returned ELSE r.code, severity |-> r.severity,
       scope |-> r.scope, passed |-> ~failed, hit |-> RuleHit(r),
       penalty |-> IF failed /\ r.severity = "SOFT" THEN r.weight ELSE 0,
       problem |-> IF r.kind = "other" THEN r.problem ELSE {}]

EvaluateRule ==
  /\ judging = "evaluate" /\ Len(findings) < Len(RulesFor)
  /\ LET r == RulesFor[Len(findings) + 1]
     IN  IF r.kind \notin {Subject.kind, "other"} \/ RuleHit(r) = "error" \/ ResultOf(r).code # r.code
         THEN JudgingRefused
         ELSE /\ findings' = Append(findings, ResultOf(r))
              /\ UNCHANGED <<judging, docket, ruleBook, tally, keptReport>>

FinishReport ==
  /\ judging = "evaluate" /\ Len(findings) = Len(RulesFor)
  /\ judging' = "adapt"
  /\ UNCHANGED <<docket, ruleBook, findings, tally, keptReport>>

-----------------------------------------------------------------------------
(* The report, its metrics, and the run's row. *)

Failures == SelectSeq(findings, LAMBDA x : ~x.passed)
HardFailures == SelectSeq(Failures, LAMBDA x : x.severity = "HARD")
SoftViolations == SelectSeq(Failures, LAMBDA x : x.severity = "SOFT")
\* Problem geometries of the failures, in order: an srid and the polygons of its repaired form.
Problems == FoldLeft(LAMBDA ps, x : ps \o SetToSeq(x.problem), << >>, Failures)

AdaptReport ==
  /\ judging = "adapt"
  /\ IF \/ Len(Problems) > docket.maxProblems
        \/ \E p \in Range(Problems) : p.srid # Problems[1].srid
     THEN JudgingRefused
     ELSE /\ tally' =
               [hard |-> Len(HardFailures), soft |-> Len(SoftViolations),
                area |-> Cardinality(UNION {UNION p.polygons : p \in Range(Problems)}),
                penalty |-> FoldSeq(LAMBDA x, s : s + x.penalty, 0, SoftViolations),
                polygonal |-> Len(SelectSeq(Problems, LAMBDA p : p.polygons # {})),
                linear |-> Len(SelectSeq(Problems, LAMBDA p : p.polygons = {})),
                bare |-> Len(Failures) - Len(Problems), valid |-> HardFailures = << >>]
          /\ judging' = "persist"
          /\ UNCHANGED <<docket, ruleBook, findings, keptReport>>

\* SqlAlchemyRunValidationWriter.replace, under the lock of the run's row: a successful run
\* keeps the report it has.
PersistReport ==
  /\ judging = "persist"
  /\ IF \/ Len(findings) > docket.maxResults
        \/ ~docket.run.exists \/ docket.run.status = "succeeded"
        \/ \E x \in Range(findings) : \E p \in x.problem : p.srid # docket.run.srid
     THEN JudgingRefused
     ELSE /\ keptReport' = {findings}
          /\ judging' = "done"
          /\ UNCHANGED <<docket, ruleBook, findings, tally>>

ConstraintNext ==
  \/ Register \/ EvaluateRule \/ FinishReport \/ AdaptReport \/ PersistReport

-----------------------------------------------------------------------------
\* Whether the subject obeys a rule, from the geometries and samples themselves.
Obeys(r) ==
  CASE r.kind = "exclusion" ->
         /\ Subject.cells \subseteq r.boundary
         /\ \A e \in Range(r.exclusions) : SquaredGap(Subject.cells, e) > 0
    [] r.kind = "setback" ->
         \A b \in Range(r.bands) : \A f \in Range(b.features) :
           SquaredGap(Subject.cells, f) >= b.minimum * b.minimum
    [] r.kind = "raster" ->
         LET samples == {r.raster[p] : p \in
               {q \in DOMAIN r.raster : \E w \in Range(Subject.windows) :
                  /\ q[1] \in w.row..(w.row + w.height - 1)
                  /\ q[2] \in w.column..(w.column + w.width - 1)}}
         IN  /\ samples # {Lacking} /\ (r.nodata = "REJECT" => Lacking \notin samples)
             /\ \A v \in samples \ {Lacking} :
                  IF r.comparison = "AT_MOST" THEN v <= r.threshold ELSE v >= r.threshold
    [] r.kind = "aggregate" ->
         /\ Subject.amounts[r.metric] >= r.minimum
         /\ r.maximum # Unbounded => Subject.amounts[r.metric] <= r.maximum
    [] OTHER -> r.hit = << >>

\* engine.py:40-43 promises a deterministic registry for one exact stage, scope and code, and
\* domain/constraints.py:181-182 that only failed HARD rules make a report invalid. A report
\* that is kept has one result for each rule asked for, in order; a rule fails exactly if the
\* subject breaks it, whatever the index, the boxes and the limits left out; and the metrics
\* count every failure once, with the area covered by any of them and the weights of the
\* preferences that are broken.
VerdictsTrue ==
  keptReport # {} =>
    LET report == CHOOSE k \in keptReport : TRUE
        broken == {r \in Asked : ~Obeys(r)}
        soft == {r \in broken : r.severity = "SOFT"}
    IN  /\ Len(report) = Cardinality(Asked)
        /\ \A i \in DOMAIN report : \E r \in Asked :
             report[i].code = r.code /\ report[i].passed = Obeys(r)
        /\ \A i, j \in DOMAIN report : i < j => report[i].code < report[j].code
        /\ tally.valid <=> broken \subseteq soft
        /\ tally.hard = Cardinality(broken \ soft) /\ tally.soft = Cardinality(soft)
        /\ tally.penalty = FoldSet(LAMBDA r, s : s + r.weight, 0, soft)
        /\ tally.bare + tally.polygonal + tally.linear = Cardinality(broken)
        /\ tally.area = Cardinality({p \in (0..9) \X (0..9) :
             \E r \in broken : r.kind = "other" /\ \E g \in r.problem : p \in UNION g.polygons})
        /\ docket.run.status # "succeeded"
=============================================================================

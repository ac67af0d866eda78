------------------------------ MODULE Scoring ------------------------------
(***************************************************************************)
(* Composite scores and their sensitivity to the weights: each run's raw   *)
(* metrics are normalised and weighted (metrics/normalization.py,          *)
(* metrics/score.py), the evaluation is kept with the run                  *)
(* (db/run_metrics_writer.py), read back for several runs                  *)
(* (db/run_score_sensitivity_reader.py) and ranked again under perturbed   *)
(* weights (metrics/sensitivity.py).                                       *)
(*                                                                         *)
(* Metrics are numbered in the order of their names, normalised values are *)
(* counted in parts of NormUnit, and a score is a sum of weighted parts    *)
(* over the total of the weights, <<sum, total>>.                          *)
(***************************************************************************)
EXTENDS Integers, FiniteSets, SequencesExt, FiniteSetsExt, Functions

CONSTANTS
  ScoringCases,  \* the inputs: see ContestInput
  NormUnit       \* the normalised value 1 in parts

VARIABLES
  scoring,      \* "score", "keep", "rank", "perturb", "refused" or "done"
  contest,      \* profile, weights, runs with raw metrics, perturbations, the request
  composite,    \* the evaluation of the run that is scored
  evaluations,  \* evaluation kept with a run, by run: names, weights, values, the score
  dataset,      \* what is read back: weights, and values by run
  baseline,     \* the ranking by the weights as configured: runs, best first
  scenarios     \* for each perturbation so far its weights and its ranking

scoringVars == <<scoring, contest, composite, evaluations, dataset, baseline, scenarios>>

Absent == -1  \* no raw or normalised value

\* A policy's bounds are apart and its target lies between them; parts divide evenly.
PolicyInput(p) ==
  /\ {p.lower, p.from, p.to, p.upper} \subseteq Int
  /\ p.direction \in {"HIGHER", "LOWER", "TARGET"} /\ p.lower < p.upper
  /\ p.missing \in {"REJECT", "PROPAGATE", "AS_WORST"} /\ p.clamp \in {"CLAMP", "REJECT"}
  /\ p.direction # "TARGET" => NormUnit % (p.upper - p.lower) = 0
  /\ p.direction = "TARGET" =>
       /\ p.lower <= p.from /\ p.from <= p.to /\ p.to <= p.upper
       /\ \A d \in {p.from - p.lower, p.upper - p.to} \ {0} : NormUnit % d = 0

\* Raw values are numbers, weights and factors are not negative, a run has some weight.
ContestInput(c) ==
  /\ IsFiniteSet(DOMAIN c.profile) /\ \A m \in DOMAIN c.profile : PolicyInput(c.profile[m])
  /\ c.runs \in Seq(Range(c.runs))
  /\ \A r \in DOMAIN c.runs : \A m \in DOMAIN c.runs[r].raw : c.runs[r].raw[m] \in Int
  /\ \A r \in DOMAIN c.runs : c.runs[r].weights \in [DOMAIN c.runs[r].weights -> Nat]
  /\ \A r \in DOMAIN c.runs : \E m \in DOMAIN c.runs[r].weights : c.runs[r].weights[m] > 0
  /\ c.request \in Seq(Range(c.request)) /\ c.request # << >> /\ IsInjective(c.request)
  /\ c.perturbations \in Seq(Range(c.perturbations)) /\ c.perturbations # << >>
  /\ \A f \in Range(c.perturbations) : Range(f) \subseteq Nat

ASSUME ScoringAssumption == NormUnit \in Nat \ {0} /\ \A c \in ScoringCases : ContestInput(c)

ScoringInit ==
  /\ scoring = "score" /\ contest \in ScoringCases
  /\ composite = << >> /\ evaluations = << >> /\ dataset = << >> /\ baseline = << >> /\ scenarios = << >>

ScoringRefused ==
  /\ scoring' = "refused"
  /\ UNCHANGED <<contest, composite, evaluations, dataset, baseline, scenarios>>

WeightTotal(weights) == SumFunction(weights)

-----------------------------------------------------------------------------
(* Normalisation and score of one run. *)

NextRun == Cardinality(DOMAIN evaluations) + 1

Clamped(p, v) == Min({Max({v, p.lower}), p.upper})

\* The share of the way from the worst bound to the best, or to the target.
PresentValue(p, v) ==
  CASE p.direction = "HIGHER" -> (v - p.lower) * (NormUnit \div (p.upper - p.lower))
    [] p.direction = "LOWER" -> (p.upper - v) * (NormUnit \div (p.upper - p.lower))
    [] OTHER -> IF p.from <= v /\ v <= p.to THEN NormUnit
                ELSE IF v < p.from THEN (v - p.lower) * (NormUnit \div (p.from - p.lower))
                ELSE (p.upper - v) * (NormUnit \div (p.upper - p.to))

NormalizedMetric(p, v) ==
  IF v # Absent THEN PresentValue(p, Clamped(p, v))
  ELSE IF p.missing = "AS_WORST" THEN 0 ELSE Absent

\* A value is missing or out of range where the policy forbids it, or missing with a weight.
Unscorable(p, weight, v) ==
  \/ v = Absent /\ (p.missing = "REJECT" \/ (p.missing = "PROPAGATE" /\ weight > 0))
  \/ v # Absent /\ p.clamp = "REJECT" /\ Clamped(p, v) # v

\* The sum of the weighted values; a value that is missing adds nothing.
ScoreOf(values, weights) ==
  <<SumFunction([m \in DOMAIN values |->
                   IF values[m] = Absent THEN 0 ELSE values[m] * weights[m]]),
    WeightTotal(weights)>>

\* build_composite_score. The metrics, the weights and the profile have the same names.
ScoreRun ==
  /\ scoring = "score" /\ NextRun <= Len(contest.runs)
  /\ LET run == contest.runs[NextRun]
         values == [m \in DOMAIN run.raw |-> NormalizedMetric(contest.profile[m], run.raw[m])]
     IN  IF \/ DOMAIN run.raw # DOMAIN contest.profile \/ DOMAIN run.weights # DOMAIN contest.profile
            \/ \E m \in DOMAIN run.raw : Unscorable(contest.profile[m], run.weights[m], run.raw[m])
         THEN ScoringRefused
         ELSE /\ composite' = [config |-> run.config, profile |-> run.profile, weights |-> run.weights,
                               values |-> values, score |-> ScoreOf(values, run.weights)]
              /\ scoring' = "keep"
              /\ UNCHANGED <<contest, evaluations, dataset, baseline, scenarios>>

\* SqlAlchemyRunMetricsWriter.replace, under the lock of the run's row: the evaluation of a
\* successful run stays.
KeepEvaluation ==
  /\ scoring = "keep"
  /\ IF contest.runs[NextRun].status \in {"missing", "succeeded"}
     THEN ScoringRefused
     ELSE /\ evaluations' = [r \in DOMAIN evaluations \cup {NextRun} |->
                             IF r = NextRun THEN composite ELSE evaluations[r]]
          /\ scoring' = "score"
          /\ UNCHANGED <<contest, composite, dataset, baseline, scenarios>>

-----------------------------------------------------------------------------
(* What is read back, and rankings. *)

\* All runs that are asked for are there, few enough, and share one configuration.
LoadDataset ==
  /\ scoring = "score" /\ NextRun > Len(contest.runs)
  /\ IF \/ Len(contest.request) > contest.maxRuns \/ ~(Range(contest.request) \subseteq DOMAIN evaluations)
        \/ \E r, s \in Range(contest.request) :
             \/ evaluations[r].config # evaluations[s].config
             \/ evaluations[r].weights # evaluations[s].weights
             \/ evaluations[r].profile # evaluations[s].profile
     THEN ScoringRefused
     ELSE /\ dataset' = [weights |-> evaluations[contest.request[1]].weights,
                         values |-> [r \in Range(contest.request) |-> evaluations[r].values]]
          /\ scoring' = "rank"
          /\ UNCHANGED <<contest, composite, evaluations, baseline, scenarios>>

\* Highest score first, then by name. Scores under the same weights have the same total.
RankScores(weights) ==
  LET score == [r \in DOMAIN dataset.values |-> ScoreOf(dataset.values[r], weights)]
      above(r, s) == score[r][1] > score[s][1] \/ (score[r][1] = score[s][1] /\ r < s)
      place(r) == 1 + Cardinality({s \in DOMAIN score : above(s, r)})
  IN  [k \in 1..Cardinality(DOMAIN score) |->
         LET r == CHOOSE x \in DOMAIN score : place(x) = k IN [run |-> r, score |-> score[r]]]

RankBaseline ==
  /\ scoring = "rank"
  /\ baseline' = RankScores(dataset.weights)
  /\ scoring' = "perturb"
  /\ UNCHANGED <<contest, composite, evaluations, dataset, scenarios>>

RankIn(ranking, r) == CHOOSE k \in DOMAIN ranking : ranking[k].run = r

\* Mutant: factors apply to the weights of the perturbation before.
PiledWeights(factors) ==
  [m \in DOMAIN factors |->
     factors[m] * IF scenarios = << >> THEN dataset.weights[m] ELSE Last(scenarios).weights[m]]
\* The factors name every metric, and leave some weight.
PerturbedWeights(factors) == [m \in DOMAIN factors |-> factors[m] * dataset.weights[m]]

Perturb ==
  /\ scoring = "perturb" /\ Len(scenarios) < Len(contest.perturbations)
  /\ LET factors == contest.perturbations[Len(scenarios) + 1]
     IN  IF DOMAIN factors # DOMAIN dataset.weights \/ WeightTotal(PerturbedWeights(factors)) = 0
         THEN ScoringRefused
         ELSE LET ranking == RankScores(PerturbedWeights(factors))
              IN  /\ scenarios' = Append(scenarios,
                        [ranking |-> ranking, weights |-> PerturbedWeights(factors),
                         climbs |-> [k \in DOMAIN ranking |-> RankIn(baseline, ranking[k].run) - k]])
                  /\ UNCHANGED <<scoring, contest, composite, evaluations, dataset, baseline>>

FinishAnalysis ==
  /\ scoring = "perturb" /\ Len(scenarios) = Len(contest.perturbations)
  /\ scoring' = "done"
  /\ UNCHANGED <<contest, composite, evaluations, dataset, baseline, scenarios>>

ScoringNext ==
  \/ ScoreRun \/ KeepEvaluation \/ LoadDataset \/ RankBaseline \/ Perturb \/ FinishAnalysis

-----------------------------------------------------------------------------
ScoringSpec == ScoringInit /\ [][ScoringNext]_scoringVars

\* Whether raw value v is at least as good as u: never worse in the policy's direction, and
\* for a target on the same side of it and not farther, or in it. Missing is worst.
AtLeastAsGood(p, v, u) ==
  \/ u = Absent
  \/ /\ v # Absent
     /\ CASE p.direction = "HIGHER" -> v >= u
          [] p.direction = "LOWER" -> v <= u
          [] OTHER -> (p.from <= v /\ v <= p.to) \/ (u <= v /\ v < p.from) \/ (p.to < v /\ v <= u)

\* sensitivity.py:191 promises rankings from the persisted inputs only, and score.py:200 a
\* deterministic score. Whatever the perturbation, a run whose raw metrics are all at least
\* as good as another's never ranks below it but on a tie by name; the baseline ranks by the
\* scores that were kept; factors that are all the same change no place; the places gained
\* and lost cancel out; and each run has one place.
RankingsHonest ==
  scoring = "done" =>
    LET refs == Range(contest.request)
        rankings == {baseline} \cup {s.ranking : s \in Range(scenarios)}
        better(r, s) == \A m \in DOMAIN contest.profile :
          AtLeastAsGood(contest.profile[m], contest.runs[r].raw[m], contest.runs[s].raw[m])
        same(f) == \E x \in Range(f) : \A y \in Range(f) : x = y
    IN  /\ \A ranking \in rankings :
             /\ {ranking[k].run : k \in DOMAIN ranking} = refs /\ Len(ranking) = Cardinality(refs)
             /\ \A r, s \in refs : better(r, s) /\ r # s =>
                  \/ RankIn(ranking, r) < RankIn(ranking, s)
                  \/ s < r /\ ranking[RankIn(ranking, r)].score = ranking[RankIn(ranking, s)].score
             /\ \A k \in DOMAIN ranking : ranking[k].score[1] \in 0..(NormUnit * ranking[k].score[2])
        /\ \A k \in DOMAIN baseline : baseline[k].score = evaluations[baseline[k].run].score
        /\ \A i \in DOMAIN scenarios :
             /\ SumFunction(scenarios[i].climbs) = 0
             /\ same(contest.perturbations[i]) => Range(scenarios[i].climbs) = {0}
=============================================================================

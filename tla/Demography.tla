------------------------------ MODULE Demography ------------------------------
(***************************************************************************)
(* The demography stage (stages/demography.py and demography/*.py): from   *)
(* the floor area of buildings to residents, age groups, jobs, blocks,     *)
(* zones, the optional calibration by a population raster, and the demand  *)
(* signals and metrics of the blocks.                                      *)
(*                                                                         *)
(* Sample is the call of PopulationRasterSampler that prepares the input   *)
(* of the stage; every other action is one call of DemographyStage.execute *)
(* together with the checks its result makes of itself. An input that is   *)
(* turned down ends in "refused"; a result that fails its own checks ends  *)
(* in "error". Buildings, blocks and zones are numbered in the order of    *)
(* their ids. Ratios are counted in units of 1/Scale, so that the          *)
(* arithmetic, exact in the code where it is integer or Decimal, is exact  *)
(* here.                                                                   *)
(***************************************************************************)
EXTENDS Integers, Sequences, FiniteSets, Functions, FiniteSetsExt

CONSTANTS
  Buildings,      \* ids of the generated buildings
  BlockOf,        \* the block that owns each building
  ZoneOf,         \* the zone of each block
  Scale,          \* denominator of ratios
  JobScale,       \* a multiple of every area per job
  DemographyCases \* the inputs: see InCase

Blocks == Range(BlockOf)
Zones == {ZoneOf[k] : k \in Blocks}
Owned(k) == {b \in Buildings : BlockOf[b] = k}
Inside(z) == {k \in Blocks : ZoneOf[k] = z}

Uses == {"residential", "mixed", "public", "commercial"}
JobUses == Uses \ {"residential"}
NoValue == -1

VARIABLES
  step,       \* the calls that have returned; "refused" or "error" after a raise
  in,         \* buildings, scenario, limits, baseline, raster and policies
  samples,    \* what the raster says of each block that was sampled
  capacity,   \* whole residents per building
  residents,  \* residents per building
  ages,       \* residents per building and age group
  jobs,       \* jobs per building, in units of 1/(Scale * JobScale)
  blocks,     \* per block: buildings, population, age groups and jobs, calibrated in place
  zones,      \* the same per zone
  audit,      \* what the calibration says it has moved
  profile     \* demand signals and densities per block, and in total

stageVars == <<capacity, residents, ages, jobs, blocks, zones, audit, profile>>
demography == <<step, in, samples, stageVars>>

-----------------------------------------------------------------------------
(* The inputs. *)

\* A count of people, or a rate of growth above -1.
TargetCase(t) ==
  /\ t.kind \in {"total", "growth"}
  /\ t.value \in IF t.kind = "total" THEN Nat ELSE {v \in Int : v > -Scale}

\* Shares of the age groups, of which not all are zero.
SharesCase(w) == w \in Seq(Nat) /\ SumFunction(w) > 0

ScenarioCase(c) ==
  /\ TargetCase(c.target) /\ SharesCase(c.weights)
  /\ c.occupancy \in 0..Scale /\ c.mixed \in 0..Scale /\ c.working \in 0..Scale
  /\ c.perPerson \in Nat \ {0}

\* One density for every use that can hold jobs.
EmploymentCase(c) == c.perJob \in [JobUses -> {n \in 1..JobScale : JobScale % n = 0}]

BuildingsCase(c) ==
  /\ c.use \in [Buildings -> Uses] /\ c.gfa \in [Buildings -> Nat]
  /\ c.area \in [Blocks -> Nat \ {0}]

\* The mode of the run, the fixed demography of the snapshot, the baseline if one is known.
StageCase(c) ==
  /\ c.mode \in {"scratch", "expansion"} /\ {c.fixed, c.known, c.raster} \subseteq BOOLEAN
  /\ c.baseline \in IF c.known THEN Nat ELSE {0}
  /\ {c.maxBuildings, c.maxBlocks} \subseteq Nat \ {0}

Windows == [row : Nat, col : Nat, height : Nat \ {0}, width : Nat \ {0}]

\* Cells of equal area, in units of 1/Scale km2, hold people or people per km2, or nothing.
RasterCase(c) ==
  /\ {c.height, c.width, c.cellArea} \subseteq Nat \ {0} /\ c.kind \in {"cell", "density"}
  /\ c.pixels \in [(0..(c.height - 1)) \X (0..(c.width - 1)) -> Nat \cup {NoValue}]

\* The windows of each subject, the bounds on them, and whether a cell may be empty.
SubjectsCase(c) ==
  /\ IsFiniteSet(DOMAIN c.windows) /\ DOMAIN c.windows \subseteq Nat /\ c.reject \in BOOLEAN
  /\ \A k \in DOMAIN c.windows : c.windows[k] \in Seq(Windows) \ {<< >>}
  /\ {c.maxSubjects, c.maxWindows, c.maxCells} \subseteq Nat \ {0}

CalibrationCase(c) ==
  /\ c.rasterWeight \in 0..Scale /\ c.minimumValid \in 0..Scale
  /\ c.maxCalibrated \in Nat \ {0}

InCase(c) ==
  /\ BuildingsCase(c) /\ ScenarioCase(c) /\ EmploymentCase(c) /\ StageCase(c)
  /\ c.raster => RasterCase(c) /\ SubjectsCase(c) /\ CalibrationCase(c)

ASSUME DemographyAssumption ==
  /\ Scale \in Nat \ {0} /\ JobScale \in Nat \ {0}
  /\ IsFiniteSet(Buildings) /\ Buildings \subseteq Nat /\ BlockOf \in [Buildings -> Nat]
  /\ \A c \in DemographyCases : InCase(c)

Groups == DOMAIN in.weights
Zero(S) == [x \in S |-> 0]

-----------------------------------------------------------------------------
(* Apportionment. *)

\* Mutant: the candidates are taken in their own order.
WinnersUnsorted(rem, candidates, n) ==
  {i \in candidates : Cardinality({k \in candidates : k < i}) < n}

\* The first n of the candidates by descending remainder, then by index.
Winners(rem, candidates, n) ==
  {i \in candidates :
     Cardinality({k \in candidates : rem[k] > rem[i] \/ (rem[k] = rem[i] /\ k < i)}) < n}

\* Largest remainder: total split in proportion to the weights.
Apportion(total, w) ==
  LET sum == SumFunction(w)
      base == [i \in DOMAIN w |-> (total * w[i]) \div sum]
      rem == [i \in DOMAIN w |-> (total * w[i]) % sum]
      extra == Winners(rem, DOMAIN w, total - SumFunction(base))
  IN  IF total = 0 \/ sum = 0 THEN Zero(DOMAIN w)
      ELSE [i \in DOMAIN w |-> base[i] + (IF i \in extra THEN 1 ELSE 0)]

\* Mutant: every row is split by the remaining columns as if none were full, and the
\* last column takes what is left.
RowToLast(total, columns) ==
  LET sum == SumFunction(columns)
      base == [i \in DOMAIN columns |-> (total * columns[i]) \div sum]
      last == Max(DOMAIN columns)
  IN  IF total = 0 THEN Zero(DOMAIN columns)
      ELSE [base EXCEPT ![last] = @ + total - SumFunction(base)]

\* One row of a matrix, split by what is left of the columns; a full column is no
\* candidate for a remainder.
Row(total, columns) ==
  LET sum == SumFunction(columns)
      base == [i \in DOMAIN columns |-> (total * columns[i]) \div sum]
      rem == [i \in DOMAIN columns |-> (total * columns[i]) % sum]
      extra == Winners(rem, {i \in DOMAIN columns : base[i] < columns[i]},
                       total - SumFunction(base))
  IN  IF total = 0 THEN Zero(DOMAIN columns)
      ELSE [i \in DOMAIN columns |-> base[i] + (IF i \in extra THEN 1 ELSE 0)]

\* The rows in order, each taken out of the columns it leaves to the next.
Matrix(rows, columns) ==
  LET left[i \in DOMAIN rows] ==
        LET before == {k \in DOMAIN rows : k < i}
            p == Max(before)
        IN  IF before = {} THEN columns
            ELSE [c \in DOMAIN columns |-> left[p][c] - Row(rows[p], left[p])[c]]
  IN  [i \in DOMAIN rows |-> Row(rows[i], left[i])]

\* The errors a matrix can raise: a margin that is not kept, a column exceeded.
Exact(matrix, rows, columns) ==
  /\ \A i \in DOMAIN rows : SumFunction(matrix[i]) = rows[i]
  /\ \A c \in DOMAIN columns :
       SumFunction([i \in DOMAIN rows |-> matrix[i][c]]) = columns[c]
  /\ \A i \in DOMAIN rows, c \in DOMAIN columns : matrix[i][c] >= 0

-----------------------------------------------------------------------------
(* The samples of the raster. *)

CellsOf(w) == (w.row..(w.row + w.height - 1)) \X (w.col..(w.col + w.width - 1))

WindowsOverlap(v, w) ==
  ~ \/ v.row + v.height <= w.row \/ w.row + w.height <= v.row
    \/ v.col + v.width <= w.col \/ w.col + w.width <= v.col

InRaster(w) == w.row + w.height <= in.height /\ w.col + w.width <= in.width

\* The subjects as they are built and as the sampler accepts and reads them.
SubjectsAccepted ==
  LET subjects == DOMAIN in.windows
      Asked(k) == SumFunction([i \in DOMAIN in.windows[k] |-> Cardinality(CellsOf(in.windows[k][i]))])
  IN  /\ Cardinality(subjects) <= in.maxSubjects
      /\ \A k \in subjects :
           LET w == in.windows[k]
           IN  /\ Len(w) <= in.maxWindows /\ \A i \in DOMAIN w : InRaster(w[i])
               /\ \A i, l \in DOMAIN w : i < l => ~WindowsOverlap(w[i], w[l])
               /\ in.reject => \A i \in DOMAIN w : \A x \in CellsOf(w[i]) : in.pixels[x] # NoValue
      /\ SumFunction([k \in subjects |-> Asked(k)]) <= in.maxCells

\* People in each cell, in units of 1/Scale.
CellPopulation ==
  [x \in DOMAIN in.pixels |->
     in.pixels[x] * (IF in.kind = "cell" THEN Scale ELSE in.cellArea)]

\* Cells asked for, cells with data and people in these, window by window.
SampleOf(k) ==
  LET w == in.windows[k]
      valid == [i \in DOMAIN w |-> {x \in CellsOf(w[i]) : in.pixels[x] # NoValue}]
  IN  [cells |-> SumFunction([i \in DOMAIN w |-> Cardinality(CellsOf(w[i]))]),
       valid |-> SumFunction([i \in DOMAIN w |-> Cardinality(valid[i])]),
       population |-> SumFunction([i \in DOMAIN w |-> SumFunctionOnSet(CellPopulation, valid[i])])]

\* A sample without data has no people, and none has more data than cells.
SampleWhole(s) == s.valid \in 0..s.cells /\ s.population >= 0 /\ (s.valid = 0 => s.population = 0)

Sample ==
  /\ step = "sample" /\ SubjectsAccepted
  /\ samples' = [k \in DOMAIN in.windows |-> SampleOf(k)]
  /\ step' = IF \A k \in DOMAIN samples' : SampleWhole(samples'[k]) THEN "start" ELSE "error"
  /\ UNCHANGED <<in, stageVars>>

-----------------------------------------------------------------------------
(* The steps of the pipeline. *)

DemographyInit ==
  /\ in \in DemographyCases /\ samples = << >>
  /\ step = IF in.raster THEN "sample" ELSE "start"
  /\ capacity = Zero(Buildings) /\ residents = Zero(Buildings)
  /\ ages = Zero(Buildings) /\ jobs = Zero(Buildings)
  /\ blocks = Zero(Blocks) /\ zones = Zero(Zones) /\ audit = << >> /\ profile = Zero(Blocks)

\* Nothing is known of a territory planned from scratch; what is fixed has a baseline.
ModeAllows ==
  IF in.mode = "scratch" THEN ~in.fixed /\ in.baseline = 0 ELSE in.fixed => in.known
Admitted == ModeAllows /\ Cardinality(Buildings) <= in.maxBuildings

Resolvable == in.target.kind = "growth" => in.known
Comparable == Cardinality(Blocks) <= in.maxCalibrated /\ DOMAIN samples = Blocks
Reportable == Cardinality(Blocks) <= in.maxBlocks

\* A total dealt out to the last one, nobody below zero or above the total.
Splits(f, total) == (\A x \in DOMAIN f : f[x] \in 0..total) /\ SumFunction(f) = total

\* The residential share of a use, out of Scale.
ResidentialShare(use) ==
  CASE use = "residential" -> Scale
    [] use = "mixed" -> in.mixed
    [] OTHER -> 0

\* Floor area for living, in units of 1/Scale, and what is occupied of it, of 1/Scale^2.
ResidentialGfa(b) == in.gfa[b] * ResidentialShare(in.use[b])
OccupiedArea(b) == ResidentialGfa(b) * in.occupancy

CapacityWhole ==
  \A b \in Buildings : /\ ResidentialGfa(b) <= in.gfa[b] * Scale
                       /\ OccupiedArea(b) <= ResidentialGfa(b) * Scale

\* ResidentialCapacityCalculator, floored as PopulationAllocator does.
CalculateCapacity ==
  /\ step = "start" /\ Admitted
  /\ capacity' = [b \in Buildings |-> OccupiedArea(b) \div (Scale * Scale * in.perPerson)]
  /\ step' = IF CapacityWhole THEN "capacity" ELSE "error"
  /\ UNCHANGED <<in, samples, residents, ages, jobs, blocks, zones, audit, profile>>

\* A growth rate is rounded half up.
TargetTotal ==
  IF in.target.kind = "total" THEN in.target.value
  ELSE (2 * in.baseline * (Scale + in.target.value) + Scale) \div (2 * Scale)
GeneratedTarget == Max({0, TargetTotal - in.baseline})
BaselineExcess == Max({0, in.baseline - TargetTotal})
Allocated == Min({GeneratedTarget, SumFunction(capacity)})

AllocationStatus ==
  IF BaselineExcess > 0 THEN "BASELINE_EXCEEDS_TARGET"
  ELSE IF Allocated = GeneratedTarget THEN "TARGET_MET" ELSE "CAPACITY_EXHAUSTED"

\* The checks of the allocations, of their diagnostics and of the two together.
ResidentsHoused(r) == \A b \in Buildings : r[b] \in 0..capacity[b]
TargetWhole == TargetTotal >= 0 /\ Allocated \in 0..GeneratedTarget
AllocationWhole(r) == ResidentsHoused(r) /\ TargetWhole /\ SumFunction(r) = Allocated

AllocatePopulation ==
  /\ step = "capacity" /\ Resolvable
  /\ residents' = Apportion(Allocated, capacity)
  /\ step' = IF AllocationWhole(residents') THEN "population" ELSE "error"
  /\ UNCHANGED <<in, samples, capacity, ages, jobs, blocks, zones, audit, profile>>

CohortTotals == Apportion(SumFunction(residents), in.weights)

AllocateAges ==
  /\ step = "population"
  /\ ages' = Matrix(residents, CohortTotals)
  /\ step' = IF /\ Exact(ages', residents, CohortTotals)
                /\ Splits(CohortTotals, SumFunction(residents))
             THEN "ages" ELSE "error"
  /\ UNCHANGED <<in, samples, capacity, residents, jobs, blocks, zones, audit, profile>>

\* Floor area that is not residential, in units of 1/Scale.
JobGfa(b) == in.gfa[b] * (Scale - ResidentialShare(in.use[b]))

\* The jobs of a building are those of its floor area, and none without a rule.
JobsWhole(j) ==
  \A b \in Buildings :
    /\ JobGfa(b) \in 0..(in.gfa[b] * Scale)
    /\ IF in.use[b] \in JobUses THEN j[b] * in.perJob[in.use[b]] = JobGfa(b) * JobScale
       ELSE JobGfa(b) = 0 /\ j[b] = 0

EstimateEmployment ==
  /\ step = "ages"
  /\ jobs' = [b \in Buildings |->
       IF in.use[b] \in JobUses THEN JobGfa(b) * (JobScale \div in.perJob[in.use[b]]) ELSE 0]
  /\ step' = IF JobsWhole(jobs') THEN "employment" ELSE "error"
  /\ UNCHANGED <<in, samples, capacity, residents, ages, blocks, zones, audit, profile>>

\* Buildings, population, age groups and jobs of a set of buildings.
Total(bs) ==
  [buildings |-> Cardinality(bs),
   population |-> SumFunctionOnSet(residents, bs),
   ages |-> [g \in Groups |-> SumFunctionOnSet([b \in Buildings |-> ages[b][g]], bs)],
   jobs |-> SumFunctionOnSet(jobs, bs)]

\* The totals of the run, taken from the diagnostics of the three allocations.
GrandTotal ==
  [buildings |-> Cardinality(Buildings), population |-> Allocated, ages |-> CohortTotals,
   jobs |-> SumFunction(jobs)]

\* The three allocations speak of the same residents.
InputsAgree ==
  /\ \A b \in Buildings : SumFunction(ages[b]) = residents[b]
  /\ SumFunction(CohortTotals) = Allocated

\* A level of aggregates keeps every total of the run.
LevelKeeps(items) ==
  LET Over(f) == SumFunction(f)
      level == DOMAIN items
  IN  /\ Over([x \in level |-> items[x].buildings]) = GrandTotal.buildings
      /\ Over([x \in level |-> items[x].population]) = GrandTotal.population
      /\ Over([x \in level |-> items[x].jobs]) = GrandTotal.jobs
      /\ \A g \in Groups : Over([x \in level |-> items[x].ages[g]]) = GrandTotal.ages[g]

AgesWhole(t) == Splits(t.ages, t.population)

AggregationWhole(bs, zs) ==
  /\ AgesWhole(GrandTotal) /\ LevelKeeps(bs) /\ LevelKeeps(zs)
  /\ (\A k \in Blocks : AgesWhole(bs[k])) /\ \A z \in Zones : AgesWhole(zs[z])

Aggregate ==
  /\ step = "employment"
  /\ blocks' = [k \in Blocks |-> Total(Owned(k))]
  /\ zones' = [z \in Zones |-> Total(UNION {Owned(k) : k \in Inside(z)})]
  /\ step' = IF InputsAgree /\ AggregationWhole(blocks', zones') THEN "aggregation" ELSE "error"
  /\ UNCHANGED <<in, samples, capacity, residents, ages, jobs, audit, profile>>

\* What the raster says of a block, when enough of its cells are valid.
Evidence(k) ==
  IF samples[k].valid > 0 /\ samples[k].valid * Scale >= in.minimumValid * samples[k].cells
  THEN samples[k].population ELSE 0
EvidenceOf(z) == SumFunctionOnSet([k \in Blocks |-> Evidence(k)], Inside(z))

\* Shares of the population and of the evidence, blended by the weight of the raster.
Blend(k) ==
  LET z == ZoneOf[k]
  IN  (Scale - in.rasterWeight) * blocks[k].population * EvidenceOf(z)
        + in.rasterWeight * Evidence(k) * zones[z].population

HasEvidence(z) == zones[z].population > 0 /\ in.rasterWeight > 0 /\ EvidenceOf(z) > 0

CalibratedPopulation(z) ==
  IF zones[z].population = 0 THEN Zero(Inside(z))
  ELSE IF HasEvidence(z) THEN Apportion(zones[z].population, [k \in Inside(z) |-> Blend(k)])
  ELSE [k \in Inside(z) |-> blocks[k].population]

\* A zone without blocks, or with other residents than they have, is an error.
ZoneWhole(z) ==
  /\ Inside(z) # {}
  /\ zones[z].population > 0 =>
       SumFunctionOnSet([k \in Blocks |-> blocks[k].population], Inside(z)) = zones[z].population

\* The audit of a calibration: rows of the blocks and a summary of them.
ShiftOf(a, b) == IF a < b THEN b - a ELSE a - b
AuditOf(rows) ==
  LET new == [k \in Blocks |-> rows[ZoneOf[k]][k]]
      shift == [k \in Blocks |-> ShiftOf(blocks[k].population, new[k])]
  IN  [original |-> [k \in Blocks |-> blocks[k].population], calibrated |-> new,
       evidence |-> {k \in Blocks : HasEvidence(ZoneOf[k]) /\ Evidence(k) > 0},
       fallback |-> {z \in Zones : ~HasEvidence(z)},
       moved |-> SumFunction(shift) \div 2, largest |-> Max({0} \cup Range(shift))]

\* SpatialDemographicCalibrator: the age groups of a zone are dealt out anew, whether
\* or not its population has moved.
Calibrate ==
  /\ step = "aggregation" /\ in.raster /\ Comparable
  /\ LET rows == [z \in Zones |-> CalibratedPopulation(z)]
         cohorts == [z \in Zones |-> Matrix(rows[z], zones[z].ages)]
     IN  /\ blocks' = [k \in Blocks |->
              [blocks[k] EXCEPT !.population = rows[ZoneOf[k]][k],
                                !.ages = cohorts[ZoneOf[k]][k]]]
         /\ audit' = AuditOf(rows)
         /\ step' = IF /\ \A z \in Zones : ZoneWhole(z) /\ Exact(cohorts[z], rows[z], zones[z].ages)
                       /\ AggregationWhole(blocks', zones)
                    THEN "calibration" ELSE "error"
  /\ UNCHANGED <<in, samples, capacity, residents, ages, jobs, zones, profile>>

\* The demand signals of a block or of the run.
Signals(t) == [population |-> t.population, ages |-> t.ages,
               workforce |-> t.population * in.working, jobs |-> t.jobs]

\* The signals of the blocks add up to those of the run.
ProfileWhole(p) ==
  LET Over(f) == SumFunction(f)
  IN  /\ Over([k \in Blocks |-> p.block[k].population]) = p.total.population
      /\ Over([k \in Blocks |-> p.block[k].workforce]) = p.total.workforce
      /\ Over([k \in Blocks |-> p.block[k].jobs]) = p.total.jobs
      /\ \A g \in Groups : Over([k \in Blocks |-> p.block[k].ages[g]]) = p.total.ages[g]

\* So do residents and jobs in the metrics, and age shares sum to one.
MetricsWhole ==
  /\ AgesWhole(GrandTotal) /\ \A k \in Blocks : AgesWhole(blocks[k])
  /\ SumFunction([k \in Blocks |-> blocks[k].population]) = GrandTotal.population
  /\ SumFunction([k \in Blocks |-> blocks[k].jobs]) = GrandTotal.jobs

\* DemographicDemandProfileBuilder and DemographyMetricsBuilder; a density is kept as the
\* pair it is the quotient of.
BlockDemands == [k \in Blocks |-> Signals(blocks[k])]
BlockDensities == [k \in Blocks |-> <<blocks[k].population, in.area[k]>>]

\* Both, and the result of the stage.
BuildProfile ==
  /\ step = "calibration" \/ (step = "aggregation" /\ ~in.raster)
  /\ Reportable
  /\ profile' =
       [block |-> BlockDemands,
        density |-> BlockDensities,
        total |-> Signals(GrandTotal),
        overall |-> <<GrandTotal.population, SumFunction(in.area)>>,
        unmet |-> GeneratedTarget - Allocated]
  /\ step' = IF ProfileWhole(profile') /\ MetricsWhole THEN "done" ELSE "error"
  /\ UNCHANGED <<in, samples, capacity, residents, ages, jobs, blocks, zones, audit>>

\* The calls that turn their input down: subjects, stage, target, samples and blocks.
Refuse ==
  /\ \/ step = "sample" /\ ~SubjectsAccepted
     \/ step = "start" /\ ~Admitted
     \/ step = "capacity" /\ ~Resolvable
     \/ step = "aggregation" /\ in.raster /\ ~Comparable
     \/ (step = "calibration" \/ (step = "aggregation" /\ ~in.raster)) /\ ~Reportable
  /\ step' = "refused"
  /\ UNCHANGED <<in, samples, stageVars>>

DemographyNext ==
  \/ Sample \/ CalculateCapacity \/ AllocatePopulation \/ AllocateAges \/ EstimateEmployment
  \/ Aggregate \/ Calibrate \/ BuildProfile \/ Refuse

DemographySpec == DemographyInit /\ [][DemographyNext]_demography

-----------------------------------------------------------------------------
(* Properties. *)

After(s) == step \in s
Late == {"aggregation", "calibration", "done"}

\* No resident is lost, doubled or moved out of its zone: building, block, zone and
\* total agree on the population, on every age group and on jobs before and after the
\* calibration, and no sequence of rounding steps runs into one of the pipeline's own
\* errors (the exact margins of docs/AGE_GROUP_ALLOCATION.md). The evidence counts every
\* cell of a subject once, however it is cut into windows, and the audit's half sum of
\* shifts is the number of residents that arrive in a block.
MarginsExact ==
  /\ step # "error"
  /\ \A k \in DOMAIN samples :
       LET cells == UNION {CellsOf(in.windows[k][i]) : i \in DOMAIN in.windows[k]}
       IN  /\ samples[k].cells = Cardinality(cells)
           /\ samples[k].population
                = SumFunctionOnSet(CellPopulation, {x \in cells : in.pixels[x] # NoValue})
  /\ After(Late) =>
       \A z \in Zones :
         /\ zones[z] = Total(UNION {Owned(k) : k \in Inside(z)})
         /\ \A g \in Groups :
              SumFunctionOnSet([k \in Blocks |-> blocks[k].ages[g]], Inside(z)) = zones[z].ages[g]
         /\ \A k \in Inside(z) : SumFunction(blocks[k].ages) = blocks[k].population
         /\ SumFunctionOnSet([k \in Blocks |-> blocks[k].population], Inside(z))
              = zones[z].population
         /\ SumFunctionOnSet([k \in Blocks |-> blocks[k].jobs], Inside(z)) = zones[z].jobs
  /\ After({"calibration", "done"}) /\ in.raster =>
       audit.moved = SumFunction([k \in Blocks |->
                                    Max({0, audit.calibrated[k] - audit.original[k]})])

\* Whatever floor areas, targets and baselines meet, residents never exceed a
\* building's capacity, the target is met when the capacity suffices, nobody is a
\* whole resident away from the proportional share, the larger of two buildings never
\* receives fewer, and the status says what came of the target: nobody is generated
\* beyond it, and the capacity is said to be exhausted just when it is
\* (docs/POPULATION_ALLOCATION.md).
ResidentsFair ==
  After({"population", "ages", "employment"} \cup Late) =>
    LET sum == SumFunction(capacity)
        total == Min({GeneratedTarget, sum})
    IN  /\ SumFunction(residents) = total
        /\ \A b \in Buildings :
             /\ residents[b] \in 0..capacity[b]
             /\ sum > 0 => (residents[b] * sum) - (total * capacity[b]) \in (1 - sum)..(sum - 1)
        /\ \A a, b \in Buildings : capacity[a] > capacity[b] => residents[a] >= residents[b]
        /\ AllocationStatus = "BASELINE_EXCEEDS_TARGET" => residents = Zero(Buildings)
        /\ AllocationStatus = "CAPACITY_EXHAUSTED" <=> GeneratedTarget > sum
=============================================================================

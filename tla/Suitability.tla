---------------------------- MODULE Suitability ----------------------------
(***************************************************************************)
(* The stages evaluate_constraints and suitability                         *)
(* (stages/constraints.py, stages/suitability.py, suitability/*.py): hard  *)
(* exclusions are burned into a mask, each weighted factor is evaluated    *)
(* tile by tile, slopes from windows with a margin of one cell, and the    *)
(* factors are combined into one score and status for each cell.           *)
(*                                                                         *)
(* A cell is a pair of row and column, and one metre wide and high. Scores *)
(* are counted in parts of SuitUnit; what a burned shape covers, distances *)
(* to roads and the degrees of a gradient are inputs.                      *)
(***************************************************************************)
EXTENDS Integers, FiniteSets, SequencesExt, FiniteSetsExt, Functions

CONSTANTS
  SuitabilityCases, \* the inputs: see SuitabilityInput
  SuitUnit          \* the score 1 in parts

VARIABLES
  suiting,   \* the call that is next, "refused" or "done"
  terrain,   \* grid, layers, sources and configuration
  excluded,  \* the hard mask: excluded cells
  factorAt,  \* position of the factor that is evaluated
  tileAt,    \* position of the tile that is read next
  values,    \* values of the current factor, for the cells read so far
  measured,  \* results of the finished factors, by position: cells with data to values
  weighted   \* score and status of each cell, and statistics

suitVars == <<suiting, terrain, excluded, factorAt, tileAt, values, measured, weighted>>

NoData == -1

\* Factors have codes of their own, and a range that the scores of the model can divide.
FactorInput(f) ==
  /\ f.code \in {"slope", "landuse", "roads", "unknown"} /\ f.weight \in Nat
  /\ f.form \in {"IDENTITY", "MIN_MAX", "INVERTED"}
  /\ f.form # "IDENTITY" =>
       f.low \in Int /\ f.high \in Int /\ f.low < f.high /\ SuitUnit % (f.high - f.low) = 0

\* What is read for the cells of a grid; every gradient between its heights has its degrees.
SourceInput(c, cells) ==
  /\ cells \subseteq DOMAIN c.elevation /\ cells \subseteq DOMAIN c.landuse
  /\ \E top \in (Range(c.elevation) \cup {0}) \cap Nat :
       /\ \A p \in cells : c.elevation[p] \in 0..top \cup {NoData}
       /\ \A g \in 0..(8 * top * top) : c.degrees[g] \in Nat
  /\ \A class \in DOMAIN c.classScore : c.classScore[class] \in 0..SuitUnit
  /\ c.defaultScore \in 0..SuitUnit \cup {NoData}
  /\ c.roadDistance # << >> => \A p \in cells : c.roadDistance[p] \in Nat

SuitabilityInput(c) ==
  LET cells == (0..(c.height - 1)) \X (0..(c.width - 1)) IN
  /\ c.height \in Nat \ {0} /\ c.width \in Nat \ {0} /\ c.tile \in Nat \ {0}
  /\ c.factors \in Seq(Range(c.factors)) /\ \A f \in Range(c.factors) : FactorInput(f)
  /\ \A i, j \in DOMAIN c.factors : c.factors[i].code = c.factors[j].code => i = j
  /\ \E f \in Range(c.factors) : f.weight > 0
  /\ c.missing \in {"INVALIDATE", "ONE_SIDED"} /\ c.burn \in {"CELL_CENTER", "ANY_TOUCH"}
  /\ SourceInput(c, cells)
  /\ \A layer \in Range(c.vectors) : layer.centre \subseteq layer.touched /\ layer.touched \subseteq cells
  /\ \A mask \in Range(c.masks) : mask.aligned => mask.cells \subseteq cells
  /\ {c.minimum, c.preferred} \subseteq 0..SuitUnit /\ c.minimum <= c.preferred

ASSUME SuitabilityAssumption ==
  SuitUnit \in Nat \ {0} /\ \A c \in SuitabilityCases : SuitabilityInput(c)

SuitInit ==
  /\ suiting = "mask" /\ terrain \in SuitabilityCases
  /\ excluded = {} /\ factorAt = 1 /\ tileAt = 1 /\ values = << >> /\ measured = << >>
  /\ weighted = << >>

SuitRefused ==
  /\ suiting' = "refused"
  /\ UNCHANGED <<terrain, excluded, factorAt, tileAt, values, measured, weighted>>

Grid == (0..(terrain.height - 1)) \X (0..(terrain.width - 1))

-----------------------------------------------------------------------------
(* Hard exclusions. *)

\* Cells a vector layer burns: those whose centre it covers, or all it touches.
Burned(layer) == IF terrain.burn = "ANY_TOUCH" THEN layer.touched ELSE layer.centre

LayerCodes ==
  <<"boundary">> \o [i \in DOMAIN terrain.vectors |-> terrain.vectors[i].code]
                 \o [i \in DOMAIN terrain.masks |-> terrain.masks[i].code]

MaskRefused ==
  \/ Cardinality(Grid) > terrain.maxCells
  \/ FoldSeq(LAMBDA layer, n : n + layer.shapes, 0, terrain.vectors) > terrain.maxShapes
  \/ ~IsInjective(LayerCodes)
  \/ \E mask \in Range(terrain.masks) : ~mask.aligned

\* The boundary is always burned by cell centres.
EvaluateConstraints ==
  /\ suiting = "mask"
  /\ IF MaskRefused
     THEN SuitRefused
     ELSE /\ suiting' = "factor"
          /\ excluded' = (Grid \ terrain.inside)
                \cup (UNION {Burned(layer) : layer \in Range(terrain.vectors)})
                \cup (UNION {mask.cells : mask \in Range(terrain.masks)})
          /\ UNCHANGED <<terrain, factorAt, tileAt, values, measured, weighted>>

-----------------------------------------------------------------------------
(* Tiles and the windows read for them. *)

Tiles ==
  LET along(size) == (size + terrain.tile - 1) \div terrain.tile
      columns == along(terrain.width)
  IN  [i \in 1..(along(terrain.height) * columns) |->
         <<terrain.tile * ((i - 1) \div columns), terrain.tile * ((i - 1) % columns)>>]
Core(t) ==
  {p \in Grid : p[1] \in t[1]..(t[1] + terrain.tile - 1) /\ p[2] \in t[2]..(t[2] + terrain.tile - 1)}

\* Mutant: the window is the tile.
BareWindow(t) == Core(t)
HaloWindow(t) ==
  {p \in Grid : p[1] \in (t[1] - 1)..(t[1] + terrain.tile) /\ p[2] \in (t[2] - 1)..(t[2] + terrain.tile)}

\* Twice the derivative along one axis, from the cell before, the cell and the cell behind:
\* central, or one-sided at an edge of the grid or, if the policy says so, beside a gap. No
\* element: there is none.
Twice(before, centre, behind, first, last) ==
  LET oneSided == terrain.missing = "ONE_SIDED"
      known(x) == x # NoData
  IN  IF known(before) /\ known(behind) THEN {behind - before}
      ELSE IF known(centre) /\ known(behind) /\ (first \/ (oneSided /\ ~known(before)))
        THEN {2 * (behind - centre)}
      ELSE IF known(centre) /\ known(before) /\ (last \/ (oneSided /\ ~known(behind)))
        THEN {2 * (centre - before)}
      ELSE {}

\* The degrees of a gradient that has both its parts.
SlopeOf(dx, dy) == {terrain.degrees[x * x + y * y] : x \in dx, y \in dy}

\* The slope of cell p as computed from a window, or no element.
SlopeIn(window, p) ==
  LET at(r, k) == IF <<r, k>> \in window THEN terrain.elevation[<<r, k>>] ELSE NoData
      r == p[1]
      k == p[2]
      dx == Twice(at(r, k - 1), at(r, k), at(r, k + 1), k = 0, k = terrain.width - 1)
      dy == Twice(at(r - 1, k), at(r, k), at(r + 1, k), r = 0, r = terrain.height - 1)
  IN  IF at(r, k) = NoData THEN {}
      ELSE SlopeOf(dx, dy)

\* The score of the land use of a cell, or no element.
LanduseScore(p) ==
  LET class == terrain.landuse[p]
  IN  IF class = "" THEN {}
      ELSE IF class \in DOMAIN terrain.classScore THEN {terrain.classScore[class]}
      ELSE IF terrain.defaultScore # NoData THEN {terrain.defaultScore} ELSE {}

-----------------------------------------------------------------------------
(* Factors, in the order of the configuration. *)

Factor == terrain.factors[factorAt]
FactorsLeft == factorAt <= Len(terrain.factors)

\* Factors without weight are not evaluated.
SkipFactor ==
  /\ suiting = "factor" /\ FactorsLeft /\ Factor.weight = 0
  /\ factorAt' = factorAt + 1
  /\ UNCHANGED <<suiting, terrain, excluded, tileAt, values, measured, weighted>>

BeginFactor ==
  /\ suiting = "factor" /\ FactorsLeft /\ Factor.weight > 0
  /\ IF \/ Factor.code = "unknown" \/ Cardinality(Grid) > terrain.maxFactorCells
        \/ Factor.code = "slope" /\ (terrain.width < 2 \/ terrain.height < 2)
     THEN SuitRefused
     ELSE /\ suiting' = "tiles"
          \* Without roads no tile is queried and no cell has data.
          /\ tileAt' = IF Factor.code = "roads" /\ terrain.roadDistance = << >>
                       THEN Len(Tiles) + 1 ELSE 1
          /\ values' = << >>
          /\ UNCHANGED <<terrain, excluded, factorAt, measured, weighted>>

TileValues(t) ==
  LET data(p) == CASE Factor.code = "slope" -> SlopeIn(HaloWindow(t), p)
                   [] Factor.code = "landuse" -> LanduseScore(p)
                   [] OTHER -> {terrain.roadDistance[p]}
  IN  [p \in {q \in Core(t) : data(q) # {}} |-> CHOOSE v \in data(p) : TRUE]

ReadTile ==
  /\ suiting = "tiles" /\ tileAt <= Len(Tiles)
  /\ LET read == TileValues(Tiles[tileAt])
     IN  values' = [p \in DOMAIN read \cup DOMAIN values |->
                      IF p \in DOMAIN read THEN read[p] ELSE values[p]]
  /\ tileAt' = tileAt + 1
  /\ UNCHANGED <<suiting, terrain, excluded, factorAt, measured, weighted>>

FinishFactor ==
  /\ suiting = "tiles" /\ tileAt > Len(Tiles)
  /\ measured' = [i \in DOMAIN measured \cup {factorAt} |->
                    IF i = factorAt THEN values ELSE measured[i]]
  /\ factorAt' = factorAt + 1
  /\ suiting' = "factor"
  /\ UNCHANGED <<terrain, excluded, tileAt, values, weighted>>

-----------------------------------------------------------------------------
(* Aggregation, and what the artifact holds of it. *)

Clipped(x) == Max({0, Min({SuitUnit, x})})
Normalized(f, v) ==
  LET scaled == Clipped((v - f.low) * (SuitUnit \div (f.high - f.low)))
  IN  CASE f.form = "IDENTITY" -> v
        [] f.form = "MIN_MAX" -> scaled
        [] f.form = "INVERTED" -> SuitUnit - scaled

\* IDENTITY takes scores only.
OutOfRange ==
  \E i \in DOMAIN measured :
    terrain.factors[i].form = "IDENTITY" /\ \E v \in Range(measured[i]) : v \notin 0..SuitUnit

ValidCells == {p \in Grid \ excluded : \A i \in DOMAIN measured : p \in DOMAIN measured[i]}

\* The sum of the weighted factors, in parts of SuitUnit times the total weight.
WeightedScore(p) ==
  LET part == [i \in DOMAIN measured |->
                 terrain.factors[i].weight * Normalized(terrain.factors[i], measured[i][p])]
  IN  IF p \notin ValidCells THEN 0 ELSE SumFunctionOnSet(part, DOMAIN measured)
TotalWeight ==
  SumFunctionOnSet([i \in DOMAIN terrain.factors |-> terrain.factors[i].weight],
                   DOMAIN terrain.factors)

CellStatus(p) ==
  CASE p \in excluded -> "hard_excluded" [] p \in ValidCells -> "valid" [] OTHER -> "invalid_data"

Statistics ==
  LET scores == {WeightedScore(p) : p \in ValidCells}
      above(t) == Cardinality({p \in ValidCells : WeightedScore(p) >= t * TotalWeight})
  IN  [valid |-> Cardinality(ValidCells), hard |-> Cardinality(excluded),
       invalid |-> Cardinality((Grid \ ValidCells) \ excluded),
       meets |-> above(terrain.minimum), preferred |-> above(terrain.preferred),
       lowest |-> IF scores = {} THEN NoData ELSE Min(scores),
       highest |-> IF scores = {} THEN NoData ELSE Max(scores)]

ScoreRaster ==
  [score |-> [p \in Grid |-> WeightedScore(p)], status |-> [p \in Grid |-> CellStatus(p)],
   statistics |-> Statistics]

CombineFactors ==
  /\ suiting = "factor" /\ ~FactorsLeft
  /\ IF OutOfRange
     THEN SuitRefused
     ELSE /\ suiting' = "done"
          /\ weighted' = ScoreRaster
          /\ UNCHANGED <<terrain, excluded, factorAt, tileAt, values, measured>>

SuitNext ==
  \/ EvaluateConstraints \/ SkipFactor \/ BeginFactor \/ ReadTile \/ FinishFactor \/ CombineFactors
SuitSpec == SuitInit /\ [][SuitNext]_suitVars

-----------------------------------------------------------------------------
(* Reference: a cell by itself, without tiles and windows. *)

\* Elevations beside a cell, on one axis, that are known; and how many there could be.
Beside(p, axis) ==
  {q \in Grid : q[3 - axis] = p[3 - axis] /\ q[axis] \in {p[axis] - 1, p[axis] + 1}}
KnownBeside(p, axis) == {q \in Beside(p, axis) : terrain.elevation[q] # NoData}
HasSlope(p) ==
  /\ terrain.elevation[p] # NoData
  /\ \A axis \in {1, 2} :
       IF terrain.missing = "ONE_SIDED" THEN KnownBeside(p, axis) # {}
       ELSE KnownBeside(p, axis) = Beside(p, axis)
\* The difference in height over two cells, or twice that to the only neighbour.
Rise(p, axis) ==
  LET heights == {terrain.elevation[q] : q \in KnownBeside(p, axis)}
  IN  IF Cardinality(KnownBeside(p, axis)) = 2 THEN Max(heights) - Min(heights)
      ELSE 2 * (Max(heights \cup {terrain.elevation[p]}) - Min(heights \cup {terrain.elevation[p]}))

HasData(f, p) ==
  CASE f.code = "slope" -> HasSlope(p)
    [] f.code = "landuse" -> /\ terrain.landuse[p] # ""
                             /\ \/ terrain.landuse[p] \in DOMAIN terrain.classScore
                                \/ terrain.defaultScore # NoData
    [] OTHER -> terrain.roadDistance # << >>
RawValue(f, p) ==
  CASE f.code = "slope" -> terrain.degrees[Rise(p, 1) * Rise(p, 1) + Rise(p, 2) * Rise(p, 2)]
    [] f.code = "landuse" -> IF terrain.landuse[p] \in DOMAIN terrain.classScore
                             THEN terrain.classScore[terrain.landuse[p]] ELSE terrain.defaultScore
    [] OTHER -> terrain.roadDistance[p]

\* Whether some hard exclusion holds of a cell.
Forbids(p) ==
  \/ p \notin terrain.inside
  \/ \E layer \in Range(terrain.vectors) :
       p \in layer.centre \/ (terrain.burn = "ANY_TOUCH" /\ p \in layer.touched)
  \/ \E mask \in Range(terrain.masks) : p \in mask.cells

\* The factors that count, and the sum of them for a cell.
Weighing == {i \in DOMAIN terrain.factors : terrain.factors[i].weight > 0}
RawScore(p) ==
  SumFunctionOnSet([i \in Weighing |-> terrain.factors[i].weight
                      * Normalized(terrain.factors[i], RawValue(terrain.factors[i], p))], Weighing)

\* aggregation.py:132-134 promises that a cell outside the hard exclusions is valid only
\* where every weighted factor has data, and that missing data never shifts weight; the
\* factors promise to read tiles only as a matter of memory (dem_slope.py:70-72). Every
\* cell has the status and the score that follow from the cell and its neighbours alone,
\* whatever the tiles, and the statistics count each cell once.
SuitabilityExact ==
  suiting = "done" =>
    LET usable(p) == ~Forbids(p) /\ \A i \in Weighing : HasData(terrain.factors[i], p)
    IN  /\ \A p \in Grid :
             /\ weighted.status[p] = IF Forbids(p) THEN "hard_excluded"
                                     ELSE IF usable(p) THEN "valid" ELSE "invalid_data"
             /\ weighted.score[p] = IF usable(p) THEN RawScore(p) ELSE 0
             /\ weighted.score[p] \in 0..(SuitUnit * TotalWeight)
        /\ weighted.statistics.valid + weighted.statistics.hard + weighted.statistics.invalid
             = terrain.height * terrain.width
        /\ weighted.statistics.preferred <= weighted.statistics.meets
=============================================================================

CONSTANTS
  Runs = {r1, r2, r3, r4}
  Batches = {b1, b2}
  Manual = {b2}
  Workers = {w1, w2}
  None = None
  MinRuns = 3
  MaxRuns = 4
  MaxTries = 2
SPECIFICATION Spec
SYMMETRY Symmetry
INVARIANTS
  MatrixWithinLimit
  ParentMatchesChildren
CHECK_DEADLOCK FALSE

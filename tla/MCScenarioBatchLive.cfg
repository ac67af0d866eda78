CONSTANTS
  Runs = {r1, r2, r3}
  Batches = {b1}
  Manual = {}
  Workers = {w1, w2}
  None = None
  MinRuns = 3
  MaxRuns = 3
  MaxTries = 5
SPECIFICATION LiveSpec
PROPERTY
  QueuedChildProceeds
CHECK_DEADLOCK FALSE

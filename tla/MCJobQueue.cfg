CONSTANTS
  MaxJobs = 3
  Submitters = {s1, s2}
  Dispatchers = {d1, d2}
  SliceJobs = 2
  Keys = {k1}
  Capacity <- MCCapacity
  ProjectCap = 2
  MatrixSize = 2
  BatchLimit = 2
  MaxAttempts = 2
  MaxCrashes = 1
SPECIFICATION MCSpec
INVARIANTS
  GenerationWithinLimit
  NoDuplicateWork
CHECK_DEADLOCK FALSE
PROPERTY
  ImplementsDelivery

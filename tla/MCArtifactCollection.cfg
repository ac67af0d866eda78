CONSTANTS
  Keys = {k1, k2}
  Collectors = {c1}
  MaxBatch = 1
  MaxFailures = 1
  None = None
SPECIFICATION Spec
INVARIANTS
  ReferencedIsWhole
PROPERTIES
  LiveKeepsFiles
  OrphansCollected

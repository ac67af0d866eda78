CONSTANTS
  p1 = p1
  p2 = p2
  v1 = v1
  v2 = v2
  v3 = v3
  r1 = r1
  r2 = r2
  r3 = r3
  None = None
  Projects = {p1, p2}
  Versions = {v1, v2, v3}
  Runs = {r1, r2, r3}
  ProjectOf <- MCProjectOf
  Parts = {"zoning", "roads", "parcels", "buildings", "demography", "infrastructure", "violations", "metrics", "sources"}
  MinCompared = 2
  MaxCompared = 2
  RunIds = {1, 2}
  MaxFailures = 3
SPECIFICATION MCSpec
INVARIANTS
  DisplayFollowsWorkspace
  ComparisonFollowsChoice
  QuietMeansCurrent
CHECK_DEADLOCK FALSE

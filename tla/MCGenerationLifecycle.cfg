CONSTANTS
  Workers = {w1, w2, w3}
  Unconfigured = {w3}
  Reserve = {w2}
  NumStages = 4
  Deps <- MCDeps
  Skip = {3}
  MaxAttempts = 3
  MaxQueue = 2
SPECIFICATION MCSpec
INVARIANTS
  SingleExecutor
  RowsFollowPlan
  OutcomeMatchesRows
PROPERTIES
  ImplementsContract
  CalmRunSettles

CONSTANTS
  Workers = {w1, w2}
  Unconfigured = {w2}
  Reserve = {}
  NumStages = 2
  Deps <- MCDeps2
  Skip = {}
  MaxAttempts = 2
  MaxQueue = 1
SPECIFICATION UnconfiguredSpec
PROPERTY
  CancelSettles

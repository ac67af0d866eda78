CONSTANTS
  Threads = {t1, t2}
  MaxAttempts = 3
  MaxTries = 5
SPECIFICATION MCSpec

INVARIANT
  ReadyHasRaster
CHECK_DEADLOCK FALSE

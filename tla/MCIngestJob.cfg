CONSTANTS
  Threads = {t1, t2}
  MaxAttempts = 3
  MaxTries = 5
SPECIFICATION MCSpec
PROPERTIES
  SourceRowsFrozen
  CalmSettles
CHECK_DEADLOCK FALSE

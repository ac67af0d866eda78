CONSTANTS
  Threads = {t1, t2}
  MaxAttempts = 3
  MaxTries = 2
  Null = Null
  ZoneKeys = {1}
  ZoneClasses = {residential, mixed}
  RoadKeys = {1}
  BlockKeys = {1, 2}
  ParcelKeys = {3}
  BuildingKeys = {4}
  CandidateIds = {1}
  FacilityTypes = {5, 6}
  Results = {x1, x2}
  ExistingFacilities = {1, 2}
  MaxLimit = 3
  Nobody = Nobody
  utm = utm
  Crs = {utm, mercator}
  MaxWrites = 2
SPECIFICATION MCSpec
SYMMETRY MCSymmetry
INVARIANTS
  CurrentIsRunning
  Downloadable
  ReferencesTrue
  PayloadsAgree
  AnswersWhole
  TilesFrozen
CHECK_DEADLOCK FALSE

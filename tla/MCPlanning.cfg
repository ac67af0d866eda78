CONSTANTS
  N = 4
  Missing = {9}
  MaxDeps = 2
  SuitabilityCases <- MCSuitabilityCases
  SuitUnit = 6
  ConstraintCases <- MCConstraintCases
  ScoringCases <- MCScoringCases
  NormUnit = 12
  Unit = 4
  ZoningCases <- MCZoningCases
  RoadCases <- MCRoadCases
  SurveyCases <- MCSurveyCases
  BlockCases <- MCBlockCases
  BuildingCases <- MCBuildingCases
  SupplyCases <- MCSupplyCases
  AccessCases <- MCAccessCases
  Buildings <- MCBuildings
  BlockOf <- MCBlockOf
  ZoneOf <- MCZoneOf
  Scale = 2
  JobScale = 2
  DemographyCases <- MCDemographyCases
SPECIFICATION MCSpec
INVARIANTS
  PlanIsRight
  SuitabilityExact
  VerdictsTrue
  RankingsHonest
  TargetsRespected
  RefinementSettles
  GrowthUsesBudget
  AnchorsReachNetwork
  GradesStayApart
  CleanupKeepsNetwork
  SliversSettle
  BuildingsFit
  PlacementAccounts
  MarginsExact
  AccessExact
  ResidentsFair
CHECK_DEADLOCK FALSE

CONSTANTS
  Nobody = Nobody
  Crs = {utm, mercator}
  MaxWrites = 2
SPECIFICATION TilesSpec
INVARIANT ReadyRowsInProjectCrs
CHECK_DEADLOCK FALSE

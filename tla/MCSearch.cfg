CONSTANTS
  Ids = {1, 2, 3}
  Times = {1, 2}
  Scores = {0, 1, 2}
  MaxChange = 2
  Lowered <- MCLowered
  Queries <- MCQueries
SPECIFICATION SearchSpec
CHECK_DEADLOCK FALSE
INVARIANTS SteadyListedOnce OrderAcrossPages TotalWhole StoresAgree

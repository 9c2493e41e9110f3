CONSTANTS
  Ids = {1, 2}
  Callers = {c1, c2}
  Calls <- MCCalls
  MaxCall = 4
  MaxError = 1
  Null = Null
SPECIFICATION PgSpec
SYMMETRY Symmetry
CHECK_DEADLOCK FALSE
INVARIANT SettledIsWhole
PROPERTY ImplementsStore

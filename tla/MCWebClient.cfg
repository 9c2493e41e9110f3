SPECIFICATION Spec
CONSTANTS
  MaxId = 3
  Ready = 2
  Failed = {2}
  PageSize = 1
  MaxEvent = 3
  MaxError = 1
INVARIANTS
  TypeOK
  ListIsPages
  ReadYourWrites
  ViewIsOfSelected
  ContentOfReady
PROPERTIES CatchesUp
CHECK_DEADLOCK FALSE

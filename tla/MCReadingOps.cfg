CONSTANTS
  Spellings <- ManySpellings
  Urls <- OnePage
  MaxId = 2
  Requests = {r1, r2}
  MaxRequest = 2
  MaxRun = 1
  MaxBody = 1
  MaxError = 1
  MaxCrash = 1
SPECIFICATION Spec
SYMMETRY Symmetry
INVARIANTS
  OneKeyPerPage
  OneReadingPerPage
  PendingIsSubmitted
  BodiesOwned
  AuditExact
PROPERTIES
  DropLeavesNothing
CHECK_DEADLOCK FALSE

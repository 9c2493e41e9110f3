CONSTANTS
  Runs = {w1}
  MaxAttempts = 2
  Requests = {q1}
  Kinds = {"web", "markdown", "youtube", "reddit"}
  MaxRun = 3
  MaxImport = 1
  ForcesDrain = TRUE
SPECIFICATION Spec
INVARIANTS TypeOK NoDanglingPointer
PROPERTIES TransitionsAllowed

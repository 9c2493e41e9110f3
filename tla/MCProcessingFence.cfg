CONSTANTS
  Runs = {w1, w2}
  MaxAttempts = 2
  Requests = {q1}
  Kinds = {"web"}
  MaxRun = 3
  MaxImport = 0
  ForcesDrain = FALSE
SPECIFICATION Spec
SYMMETRY Symmetry
INVARIANTS ReadyIsComplete VectorMatchesContent
PROPERTIES FenceHolds

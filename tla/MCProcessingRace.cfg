CONSTANTS
  Runs = {w1}
  MaxAttempts = 2
  Requests = {q1, q2}
  Kinds = {"web"}
  MaxRun = 2
  MaxImport = 0
  ForcesDrain = TRUE
SPECIFICATION Spec
PROPERTIES TransitionsAllowed

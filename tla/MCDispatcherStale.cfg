CONSTANTS
  Ids = {a}
  Workers = {w1, w2}
  Callers = {c1}
  Sweeper = sweeper
  Buffer = 1
  MaxAttempts = 2
  MaxToken = 2
  NoItem = NoItem
  NoRun = NoRun
  Drained = Drained
SPECIFICATION Spec
PROPERTIES StaleRunCannotReopen

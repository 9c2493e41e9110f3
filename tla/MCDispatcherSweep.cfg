CONSTANTS
  Ids = {a, b, c}
  Workers = {w1}
  Callers = {}
  Sweeper = sweeper
  Buffer = 1
  MaxAttempts = 1
  MaxToken = 3
  NoItem = NoItem
  NoRun = NoRun
  Drained = Drained
SPECIFICATION FairSpec
PROPERTIES BacklogIsRun
CHECK_DEADLOCK FALSE

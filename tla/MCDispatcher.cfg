CONSTANTS
  Ids = {a}
  Workers = {w1, w2}
  Callers = {c1, c2}
  Sweeper = sweeper
  Buffer = 1
  MaxAttempts = 2
  MaxToken = 4
  NoItem = NoItem
  NoRun = NoRun
  Drained = Drained
SPECIFICATION Spec
SYMMETRY Symmetry
INVARIANTS TypeOK ClaimHasOneCarrier PendingRowHasWork LiveRunOwnsClaim ForceOwnsClaim AttemptBudget
PROPERTY ImplementsLifecycle

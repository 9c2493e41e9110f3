CONSTANTS
  Batches = {b1, b2}
  CustomIds = {i1, i2}
  Readings = {r1}
  Remotes = {m1}
  Results = {x}
  None = None
  Callers = {c1, c2}
SPECIFICATION PgSpec
SYMMETRY Symmetry
INVARIANTS TypeOK OneActiveItemPerReading ItemsFollowBatch RemoteIdsUnique
PROPERTIES ImplementsManualBatch ResultsStand

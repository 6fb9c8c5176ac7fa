SPECIFICATION Spec
CONSTANTS
  None = None
  Writers = {w1, w2}
  Waiters = {v1}
  Target = 2
  MaxWrites = 3
  u = u
  w = w
  ChunkCapacity = 2
  MaxVectors = 4
  MaxSteps = 6
  MaxCrashes = 2
  p1 = p1
  p2 = p2
  MaxOps = 3
  x = x
  y = y
  t1 = t1
  t2 = t2
  MaxTime = 1
  h1 = h1
  h2 = h2
  h3 = h3
  MaxItems = 5
  MaxUsage = 8
  Limit = 8
  Ttl = 5
  CheckTimeout = 2
INVARIANTS
  CellIsDurable
  VectorsAreThere
  SnapshotsAreKept
PROPERTIES
  RecoveredServes
  Reconnects
CHECK_DEADLOCK FALSE

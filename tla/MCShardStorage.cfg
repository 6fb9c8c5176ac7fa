SPECIFICATION LoadSpec
CONSTANTS
  a1 = a1
  n1 = n1
  p1 = p1
  p2 = p2
  Points = {p1, p2}
  Segments = {a1, n1}
  Appendable = {a1}
  Placed <- AllInN1
  OpKinds = {"upsert", "delete", "set_payload", "overwrite_payload", "clear_payload"}
  Snapshots = TRUE
  FirstOp = 1
  QueueSize = 2
  MaxOps = 3
  MaxCrashes = 1
INVARIANTS
  TypeOK
  UniqueHome
  SamePoints
  AckedIsOnDisk
PROPERTIES
  StepsOfPointStore
  EventuallySaved

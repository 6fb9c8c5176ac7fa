SPECIFICATION AnySpec
CONSTANTS
  a1 = a1
  n1 = n1
  p1 = p1
  p2 = p2
  Points = {p1}
  Segments = {a1, n1}
  Appendable = {a1}
  Placed <- AllInN1
  OpKinds = {"upsert", "set_payload"}
  Snapshots = FALSE
  FirstOp = 1
  QueueSize = 2
  MaxOps = 2
  MaxCrashes = 1
INVARIANT SamePoints

SPECIFICATION Spec
CONSTANTS
  a1 = a1
  n1 = n1
  p1 = p1
  p2 = p2
  t1 = t1
  t2 = t2
  Points = {p1, p2}
  Initial = {a1, n1}
  Plain = {a1}
  Placed <- InPlain
  Tasks = {t1, t2}
  OutAppendable = FALSE
  QueueSize = 1
  Workloads <- All
SYMMETRY TaskSymmetry
INVARIANTS EveryCopyCurrent CancelKeepsChanges DirectoriesAreSound
CHECK_DEADLOCK FALSE

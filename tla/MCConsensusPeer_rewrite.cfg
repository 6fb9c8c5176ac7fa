CONSTANTS
  p1 = p1
  p2 = p2
  x = x
  y = y
  z = z
  None = None
  Names = {x, y, z}
  Peers <- Two
  This = p1
  MaxIndex = 2
  Scenarios <- Replacing
SPECIFICATION Spec
INVARIANTS StorageIsLog
CHECK_DEADLOCK FALSE

CONSTANTS
  None = None
  x = x
  y = y
  z = z
  reader = reader
  thread = thread
  other = other
  Names = {x, y, z}
  Callers = {reader, thread, other}
  Start <- OnlyX
  Scenarios <- All
SPECIFICATION FairSpec
INVARIANTS ShadowFree AliasTargetsExist InUseIsCurrent
PROPERTIES ChangesEnd
CHECK_DEADLOCK FALSE

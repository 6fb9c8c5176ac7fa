CONSTANTS
  None = None
  x = x
  y = y
  z = z
  reader = reader
  thread = thread
  other = other
  Names = {x, y, z}
  Callers = {reader, thread, other}
  Start <- OnlyX
  Scenarios <- Lookup
SPECIFICATION FairSpec
PROPERTIES CallsEnd
CHECK_DEADLOCK FALSE

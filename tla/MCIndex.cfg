SPECIFICATION IndexSpec
CONSTANTS
  Offsets = {0, 1}
  MinBucketSize = 1
  MaxBucketSize = 2
  BucketShare = 4
  HashLength = 2
  MaxRegions = 3
  Lowest = 0
  Highest = 10
  Scenarios <- PassingScenarios
  Width = 4
  Radix = 4
  NaN = NaN
  None = None
  Chars = {"a", "A", "U", "-", " "}
INVARIANTS
  PayloadIsRight
  QueriesAreExact
  GraphIsSound
  CodesAgree
PROPERTY BuildEnds
CHECK_DEADLOCK FALSE

SPECIFICATION Spec
CONSTANTS
  Uuids = 5
  None = "none"
  MaxInteger = 100
  Grain = 2
INVARIANTS
  AnswersAreSound
  ReplicasAgree
  ReadIsFresh
  ShardsAreOneStore
PROPERTY CallsEnd
CHECK_DEADLOCK FALSE

SPECIFICATION WaitingSpec
CONSTANTS
  c1 = c1
  c2 = c2
  u1 = u1
  s1 = s1
  Clients = {c1, c2}
  Updaters = {u1}
  Snapshotters = {s1}
  QueueSize = 2
  MaxHandles = 1
  MaxOps = 2
  MaxGen = 2
  MaxTasks = 1
  create = create
  initialize = initialize
  MaxApplied = 1
  MaxRoleChanges = 2
  None = None
  Unset = Unset
  Capacity = 3
INVARIANTS QueueInOrder ProposalsAreApplied SettledIsOptimal
PROPERTIES EverybodyIsAnswered OptimizationEnds
CHECK_DEADLOCK FALSE

SPECIFICATION Spec
CONSTANTS
  Child = {c1, c2}
  Call = {k1}
  MAX_ACTIVE_CHILDREN = 1
  MAX_QUEUED_CHILD_OPERATIONS = 2
INVARIANTS
  OneOperationAtATime
  QueueAccounts
  ActiveLimit
  LiveIsTracked
  FailedStartLeavesNoChild
  ShutdownLeavesNoChild
  NothingIsStuck
SYMMETRY ChildSymmetry
CHECK_DEADLOCK FALSE

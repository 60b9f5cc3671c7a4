SPECIFICATION FairSpec
CONSTANTS
  maxPendingRequests = 2
  maxRequestBytes = 2
  maxPendingBytes = 3
  Sizes = {1, 2}
  Terminations = {t1, t2}
  MaxRequests = 3
CHECK_DEADLOCK FALSE
INVARIANTS
  AccountsAreExact
  TerminatedIsClosed
  FencedIsKilled
PROPERTIES
  WritesEnd
  TerminateReturns

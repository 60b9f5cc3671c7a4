SPECIFICATION Spec
CONSTANTS
  MAX_RECORDS = 3
  CRITICAL_RESERVE = 1
  MAX_DRAIN_RECORDS = 2
  MAX_RELOAD_DRAIN_RETRIES = 2
  MaxSent = 4
  MaxReloads = 2
  MaxFaults = 2
CHECK_DEADLOCK FALSE
INVARIANTS
  EachRecordOnce
PROPERTIES
  ImplementsDelivery
  BoundaryRefusedOnlyWhenFull
  CloseIsHandled
  OverflowEndsTransport

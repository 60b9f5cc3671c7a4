SPECIFICATION LifecycleSpec
CONSTANTS
  MAX_RUN_HISTORY = 2
  MaxRunId = 4
INVARIANTS
  UnsettledCloseIsError
  LifecycleInvariant
PROPERTIES
  AbortedNeverSucceeds
  RefinesRunLedger

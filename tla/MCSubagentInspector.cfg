SPECIFICATION Spec
CONSTANTS
  MaxHandles = 2
  MaxVersion = 1
  MaxKeys = 3
  MaxFaults = 1
CHECK_DEADLOCK FALSE
INVARIANTS
  ContentIsOfTheView
PROPERTIES
  OpenedViewLoads
  LiveViewFollows

SPECIFICATION Spec
CONSTANTS
  Id = {b1}
  NoId = NoId
  MaxClock = 2
  MaxCrashes = 0
  MaxFaults = 0
PROPERTIES
  ReaperObeysMeta

SPECIFICATION FairSpec
CONSTANTS
  Id = {b1}
  NoId = NoId
  MaxClock = 2
  MaxCrashes = 2
  MaxFaults = 1
INVARIANTS
  TransientHasWorker
  DeletedStaysDeleted
  WipedAtBoot
PROPERTIES
  EveryBoxGoes

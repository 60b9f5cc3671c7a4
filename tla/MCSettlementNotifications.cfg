SPECIFICATION Spec
CONSTANTS
  c1 = c1
  c2 = c2
  Child <- MCChild
  Input <- MCInput
  MAX_SEND_RETRIES = 1
  MAX_ACCEPTED_KEYS = 1
  MAX_SENDS_PER_FLUSH = 2
  MaxEpoch = 1
  MaxAccepts = 4
CHECK_DEADLOCK FALSE
INVARIANTS
  PendingIsScheduled
  OneWakePerStop
PROPERTIES
  NoSendAfterVerdict
  EveryStopDecided

SPECIFICATION Spec
CONSTANTS
  t1 = t1
  t2 = t2
  ToolCall <- MCToolCall
  Message <- MCMessage
  StaleRunId <- MCStaleRunId
  MAX_RUN_HISTORY = 2
  MAX_FINALIZED_ASSISTANT_IDENTITIES = 2
  MAX_KNOWN_TOOL_CALL_IDS = 2
  MAX_ACTIVE_TOOLS = 1
  MaxRunId = 3
  MaxTurns = 4
CHECK_DEADLOCK FALSE
INVARIANTS
  SettledHandleIsQuiet
  DeathOfRunIsAnnounced
  WakesInOrder
  UsageCountedOnce
  ToolCallsStartOnce
PROPERTIES
  WakeOnlyWhenAwaited
  InterruptedRunSettlesAborted

SPECIFICATION MonitorSpec
CONSTANTS
  MaxEvents = 2
  Executions = {"waiting-tool", "implementation-idle"}
  Sights = {"same"}
INVARIANT AbortIsSeen
CHECK_DEADLOCK FALSE

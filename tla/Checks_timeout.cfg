CONSTANTS
  Ports <- MCFewPorts
  Timeouts <- MCFewTimeouts
  Statuses <- MCStatuses
  Previews <- MCPreviews
  PageStatuses = {200, 404}
  Sizes = {0, 1}
  MaxRecords = 1
  HalfRange = 1048576
  TooLarge <- MCTooLarge
  NanosPerMs = 10
  None = None
SPECIFICATION Spec
CHECK_DEADLOCK FALSE
INVARIANT TimeoutReachesHost

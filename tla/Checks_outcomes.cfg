CONSTANTS
  Ports <- MCPorts
  Timeouts <- MCTimeouts
  Statuses <- MCStatuses
  Previews <- MCPreviews
  PageStatuses = {200, 404}
  Sizes = {0, 1, 200, 201}
  MaxRecords = 2
  HalfRange = 1048576
  TooLarge <- MCTooLarge
  NanosPerMs = 10
  None = None
SPECIFICATION Spec
CHECK_DEADLOCK FALSE
INVARIANTS TypeOK SuccessMeansAnswered BadConfigStaysHome RequestAsConfigured
  AddressesOfFamily TruncationTold

CONSTANTS
  Levels = {0, 4}
  Info = 0
  Kinds = {"string", "error"}
  MaxHandlers = 3
  MaxRecords = 2
SPECIFICATION LogSpec
PROPERTY AttrsIncluded
CHECK_DEADLOCK FALSE

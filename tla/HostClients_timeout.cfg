CONSTANTS
  Unset = Unset
  Durations = {0, 1, 20}
  Counts = {0, 2}
  MaxOptions = 1
SPECIFICATION ClientSpec
INVARIANT TimeoutEnforced
CHECK_DEADLOCK FALSE

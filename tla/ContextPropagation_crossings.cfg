CONSTANTS
  Horizon = 5
  TicksPerMs = 2
  RequestIDs = {r1, r2}
  NoID = NoID
SPECIFICATION FairSpec
INVARIANTS TypeOK DeadlineKept TimeoutWithinDeadline
PROPERTIES DoneStaysDone RequestIDKept DeadlineEndsForGood

CONSTANTS
  MaxDepth = 4
  None = None
  Unset = Unset
  Durations <- MCDurations
  Counts <- MCCounts
  MaxOptions = 2
  Levels = {0, 4}
  Info = 0
  Kinds = {"error", "nil error", "jsonable"}
  MaxHandlers = 3
  MaxRecords = 3
  NoGrants = NoGrants
  MaxRules = 2
SPECIFICATION Spec
INVARIANTS
  TypeOK
  TimeoutsAreReal
  TypedOutcome
  LastValidWins CommandOutcome
  ToldInOrder
  LevelIsWorst
PROPERTIES
  EntitySurvives WrapKeepsDetail
  ExamplesAgreeWithHost
  RiskNeverFalls
CHECK_DEADLOCK FALSE

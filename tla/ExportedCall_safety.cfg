CONSTANTS
  s1 = s1
  s2 = s2
  s3 = s3
  s4 = s4
  s5 = s5
  s6 = s6
  Slots = {s1, s2, s3, s4, s5, s6}
  Null = Null
  Malformed = Malformed
  Limit = 5
  MaxHostCalls = 3
  RecoveryFits = TRUE
SPECIFICATION Spec
SYMMETRY Symmetry
INVARIANTS TypeOK InFlightIntact AnswerMatches RecoveryReclaims OnlyKnownLeaks
PROPERTY OnlyAllocateTraps

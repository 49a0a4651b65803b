CONSTANTS
  s1 = s1
  s2 = s2
  s3 = s3
  s4 = s4
  Slots = {s1, s2, s3, s4}
  Null = Null
  Malformed = Malformed
  Limit = 3
  MaxHostCalls = 2
  RecoveryFits = FALSE
SPECIFICATION FairSpec
PROPERTY ImplementsProtocol

CONSTANTS
  g1 = g1
  g2 = g2
  Goroutines = {g1, g2}
  NoGoroutine = NoGoroutine
  Foreign = Foreign
  MaxAddress = 3
  Word = 4
  MaxPayload = 2
  DefaultMaxTotalAllocations = 2
  Limits <- MCLimits
SPECIFICATION FairSpec
INVARIANTS TypeOK Accounting IntactUntilRecovery RoundTrip
PROPERTIES PinnedWithinLimit ImplementsBuffers CallsReturn

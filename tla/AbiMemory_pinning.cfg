CONSTANTS
  g1 = g1
  g2 = g2
  Goroutines = {g1, g2}
  NoGoroutine = NoGoroutine
  Foreign = Foreign
  MaxAddress = 2
  Word = 4
  MaxPayload = 1
  DefaultMaxTotalAllocations = 2
  Limits <- MCFewLimits
SPECIFICATION Spec
INVARIANT PinnedSinceAllocation

SPECIFICATION Spec
CONSTANTS
  NaN <- NoPoints
  RingIds <- TwoTiers
  Pairs <- TwoTierPairs
  SlotCount <- Roomy
  IntervalNs <- UnitWidths
  Unconfigured <- None
  Summing <- None
  Huge <- None
  Timestamps <- Recorded
  Forever = 100
  MinTime = 2
  MaxTime = 7
  MaxCrashes = 0
  Columns = {c1}
INVARIANTS WindowsComplete
CHECK_DEADLOCK FALSE

SPECIFICATION BoundarySpec
CONSTANTS
  NaN <- NoPoints
  RingIds <- TwoTiers
  Pairs <- TwoTierPairs
  SlotCount <- Small
  IntervalNs <- UnitWidths
  Unconfigured <- None
  Summing <- None
  Huge <- None
  Timestamps <- FromOne
  Forever = 100
  MinTime = 5
  MaxTime = 11
  MaxCrashes = 2
  Columns = {c1}
INVARIANTS WindowsComplete CompleteUnlessFlagged
CHECK_DEADLOCK FALSE

SPECIFICATION TornSpec
CONSTANTS
  NaN <- NoPoints
  RingIds <- ThreeTiers
  Pairs <- ThreeTierPairs
  SlotCount <- Tight
  IntervalNs <- UnitWidths
  Unconfigured <- None
  Summing <- None
  Huge <- None
  Timestamps <- WithGap
  Forever = 100
  MinTime = 4
  MaxTime = 10
  MaxCrashes = 1
  Columns = {c1}
INVARIANTS TypeOK WindowsSound NoPointSkipped
PROPERTIES CursorsAdvance
CHECK_DEADLOCK FALSE

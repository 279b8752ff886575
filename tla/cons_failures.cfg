SPECIFICATION FairSpec
CONSTANTS
  NaN <- NoPoints
  RingIds <- TwoSchemas
  Pairs <- TwoSchemaPairs
  SlotCount <- Roomy
  IntervalNs <- UnitWidths
  Unconfigured <- SecondDest
  Summing <- FirstDest
  Huge <- LastTwo
  Timestamps <- Recorded
  Forever = 100
  MinTime = 2
  MaxTime = 5
  MaxCrashes = 1
  Columns = {c1}
PROPERTIES EventuallyConsolidated
CHECK_DEADLOCK FALSE

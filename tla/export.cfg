SPECIFICATION FairSpec
CONSTANTS
  NaN = NaN
  SlotCount = 3
  IntervalNs = 2
  Columns = {c1}
  MinTime = 6
  MaxTime = 13
  Timestamps <- Times
  MaxRetries = 1
  MaxCrashes = 2
INVARIANTS TypeOK DrainsAscend NothingLeftBehind ResendsOnlyUnsaved
PROPERTIES EventuallySettled
CHECK_DEADLOCK FALSE

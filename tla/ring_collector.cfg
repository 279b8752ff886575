SPECIFICATION CollectorSpec
CONSTANTS
  NaN = NaN
  Infinite = Infinite
  SlotCount = 3
  IntervalNs = 1
  Columns = {c1, c2}
  Values = {v1}
  MaxTime = 6
  Timestamps <- Times
INVARIANTS NoStaleRead CursorAtHighest ReadIsLog CoverageHonest
PROPERTIES RingImplementsLog
CHECK_DEADLOCK FALSE

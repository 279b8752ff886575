SPECIFICATION SessionSpec
CONSTANTS
  NaN = NaN
  Infinite = Infinite
  SlotCount = 3
  IntervalNs = 2
  Columns = {c1}
  Values = {v1}
  MaxTime = 9
  Timestamps <- Times
INVARIANTS TypeOK SlotHome NewestIsLastCall NoHiddenSlot ReopenErrsOnlyBeforeFullLap
CHECK_DEADLOCK FALSE

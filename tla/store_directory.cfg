SPECIFICATION CSpec
CONSTANTS
  Base <- TwoSchemas
  Offered <- Variants
  Requests <- Calls
  external_labels <- Instance
  Selectors <- Selections
  Keys <- AllKeys
  Tiers <- TierCount
  MaxSeries <- Capacity
  Matches <- Routing
  U64 = 1000000
  MAX_SLOTS_PER_TIER = 100
  F64Exact = 1000
  F64Grain = 10
  MaxCrashes = 0
  MaxSaveErrors = 0
INVARIANTS DirectoryInBounds
CHECK_DEADLOCK FALSE

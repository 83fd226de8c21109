SPECIFICATION FairSpec
CONSTANTS
  Strategies = {"chase", "iceberg"}
  Legs = {"a", "b", "c"}
  MaxCrashes = 1
  Faults = {"lost_answer", "refusal", "cancel_fails", "outage", "lag", "unread", "unfinished", "halt", "outside"}
  Quotes = {1, 5}
  BoundPrice = 4
  Increment = 2
  Quantity = 1
  MaxChases = 1
  Duration = 1
  TotalQuantity = 5
  VisibleQuantity = 4
  MinOrderSizes = {0, 4}
  LevelCount = 3
  QuantityPerGrid = 2
  MaxCycles = 1
  MaxPlacements = 2
  Minimums = {0}
INVARIANTS TypeInv OneOrderAtATime IcebergNeverOverfills IcebergLeavesNoSlice
PROPERTY NobodyWaitsForEver
CHECK_DEADLOCK FALSE

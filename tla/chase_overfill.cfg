SPECIFICATION Spec
CONSTANTS
  Strategies = {"chase"}
  Legs = {"a", "b", "c"}
  MaxCrashes = 0
  Faults = {}
  Quotes = {1, 5}
  BoundPrice = 4
  Increment = 2
  Quantity = 2
  MaxChases = 1
  Duration = 1
  TotalQuantity = 3
  VisibleQuantity = 2
  MinOrderSizes = {0, 2}
  LevelCount = 3
  QuantityPerGrid = 2
  MaxCycles = 1
  MaxPlacements = 2
  Minimums = {0}
INVARIANT ChaseFillsItsQuantity
CHECK_DEADLOCK FALSE

SPECIFICATION Spec
CONSTANTS
  Strategies = {"grid"}
  Legs = {"a", "b", "c", "d"}
  MaxCrashes = 1
  Faults = {"lag", "outside", "unread"}
  Quotes = {1, 5}
  BoundPrice = 4
  Increment = 1
  Quantity = 1
  MaxChases = 1
  Duration = 1
  TotalQuantity = 3
  VisibleQuantity = 2
  MinOrderSizes = {0, 2}
  LevelCount = 3
  QuantityPerGrid = 1
  MaxCycles = 1
  MaxPlacements = 2
  Minimums = {0}
INVARIANTS OneOrderPerLevel SellsAreFunded
PROPERTY GridHasNoHoles
CHECK_DEADLOCK FALSE

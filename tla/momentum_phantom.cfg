SPECIFICATION Spec
CONSTANTS
  Strategies = {"momentum"}
  Legs = {"a", "b", "c"}
  MaxCrashes = 0
  Faults = {"refusal"}
  Increment = 2
  Quotes = {1, 2}
  LookbackTicks = 2
  Duration = 1
  TwapTotals = {3, 7}
  Slices = 2
  Occurrences = 2
  TargetQuantities = {6}
  SliceQuantity = 4
  BuyBelowPct = 50
  MaxPrice = 1
  SliceMinimums = {0, 4}
  LadderTotal = 4
  Rungs = 3
  RungsPerAdvance = 2
  Prices = {2}
  Plans <- MCPlans
  MaxLegsPerTick = {2}
  MAX_LEG_ATTEMPTS = 2
  PositionSize = 1
  BreakoutPct = 50
  ExitPct = 50
  EntryZ = 1
  ExitZ = 0
INVARIANT NoPhantomExit
CHECK_DEADLOCK FALSE

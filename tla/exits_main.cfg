SPECIFICATION FairSpec
CONSTANTS
  Strategies = {"oco", "bracket", "trailing_stop"}
  Legs = {"entry", "take_profit", "stop"}
  MaxCrashes = 1
  Faults = {"lost_answer", "refusal", "cancel_fails", "outage", "lag", "unfinished", "halt", "outside"}
  Prices = {2, 3, 4}
  ActivationPrices = {3}
  Trails <- MCTrails
INVARIANTS TypeInv CancelNeedsAFill OcoCompletesByItsCancel ExitsNeedEntry TrailingExitsOnce
PROPERTIES OcoEndsClosed TrailNeverRetreats FiredExitsEnd
CHECK_DEADLOCK FALSE

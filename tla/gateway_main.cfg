\* Two concurrent callers, one of which has just been restarted.
CONSTANTS
  Callers = {supervisor, tool}
  Reconciler = supervisor
  Burst = 1
  GetRetries = 1
  Requests <- MCRequests
  Prices = {0, 2, 3}
  Mode = "guarded"
  BuyOnly = FALSE
  MaxOrderUsd = 2
  MaxDailyUsd = 2
  MaxCalls = 2
  MaxPages = 2
  MaxHistory = 1
SPECIFICATION Spec
INVARIANTS TypeInv SpendIsBounded LookupIsHonest
PROPERTY EveryCallReturns
CHECK_DEADLOCK FALSE

\* One trading server with its tools, one crash, every fault of the network.
CONSTANTS
  Processes = {server}
  Servers = {server}
  OperatorTools = {"jobs", "halt", "orders"}
  Jobs = {j1}
  MaxSlices = 2
  MaxRelease = 2
  Mints = {m1, m2}
  BatchSize = 25
  MaxToolOrders = 1
  MaxCrashes = 1
  Faults = {"timeout", "late", "inconclusive"}
  NoJob = NoJob
  NoIntent = NoIntent
SYMMETRY Symmetry
SPECIFICATION Spec
INVARIANTS
  TypeOK
  AtMostOneOrderPerSlice
  PendingIntentIsOwned
  HaltAdmitsTheCleared
  PausedJobsAreRemembered
PROPERTIES
  TerminalIsFinal
  RefinesSliceLedger

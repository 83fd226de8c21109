\* A trading server with two jobs: what a crash leaves pending is settled, and every due
\* job is advanced.
CONSTANTS
  Processes = {server}
  Servers = {server}
  OperatorTools = {"jobs"}
  Jobs = {j1, j2}
  MaxSlices = 1
  MaxRelease = 1
  Mints = {m1}
  BatchSize = 25
  MaxToolOrders = 1
  MaxCrashes = 1
  Faults = {"inconclusive"}
  NoJob = NoJob
  NoIntent = NoIntent
SPECIFICATION FairSpec
INVARIANTS
  NoOrphanOrder
PROPERTIES
  PendingIntentsResolve
  DueJobsAdvance

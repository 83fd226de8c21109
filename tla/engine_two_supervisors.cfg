\* Two trading servers on one database.
CONSTANTS
  Processes = {server1, server2}
  Servers = {server1, server2}
  OperatorTools = {}
  Jobs = {j1}
  MaxSlices = 1
  MaxRelease = 1
  Mints = {m1, m2}
  BatchSize = 25
  MaxToolOrders = 1
  MaxCrashes = 0
  Faults = {}
  NoJob = NoJob
  NoIntent = NoIntent
SPECIFICATION Spec
INVARIANT
  AtMostOneOrderPerSlice

\* A job is cancelled while its strategy is being asked for the next step.
CONSTANTS
  Processes = {server}
  Servers = {server}
  OperatorTools = {"jobs"}
  Jobs = {j1}
  MaxSlices = 1
  MaxRelease = 1
  Mints = {m1}
  BatchSize = 25
  MaxToolOrders = 1
  MaxCrashes = 0
  Faults = {}
  NoJob = NoJob
  NoIntent = NoIntent
SPECIFICATION Spec
INVARIANT
  SupervisorSurvives

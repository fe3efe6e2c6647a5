SPECIFICATION DurableSpec
CONSTANTS
  Jobs = {j1, j2}
  ChangedJobs = {j1}
  Requests = {r1, r2}
  NoRequest = none
  Workers = {w1, w2}
  Cancellers = {}
  Nobody = nobody
  MaxAttempts = 2
  MaxSubmissions = 3
  MaxFaults = 0
  MaxCrashes = 0
  NewAsset <- OwnAssets
PROPERTIES ImplementsJobRunner ImplementsLifecycle
CHECK_DEADLOCK FALSE

SPECIFICATION DurableSpec
CONSTANTS
  Jobs = {j1}
  ChangedJobs = {}
  Requests = {r1, r2}
  NoRequest = none
  Workers = {w1, w2}
  Cancellers = {}
  Nobody = nobody
  MaxAttempts = 2
  MaxSubmissions = 2
  MaxFaults = 0
  MaxCrashes = 0
  NewAsset <- OwnAssets
INVARIANT IndexBackedByRows
CHECK_DEADLOCK FALSE

SPECIFICATION DurableSpec
CONSTANTS
  Jobs = {j1}
  ChangedJobs = {}
  Requests = {r1, r2}
  NoRequest = none
  Workers = {w1, w2}
  Cancellers = {}
  Nobody = nobody
  MaxAttempts = 2
  MaxSubmissions = 1
  MaxFaults = 1
  MaxCrashes = 0
  NewAsset <- OwnAssets
INVARIANT RetryKeepsOutcome
CHECK_DEADLOCK FALSE

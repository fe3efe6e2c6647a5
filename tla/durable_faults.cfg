SPECIFICATION DurableSpec
CONSTANTS
  Jobs = {j1, j2}
  ChangedJobs = {j1}
  Requests = {r1}
  NoRequest = none
  Workers = {w1, w2}
  Cancellers = {}
  Nobody = nobody
  MaxAttempts = 2
  MaxSubmissions = 3
  MaxFaults = 1
  MaxCrashes = 1
  NewAsset <- OwnAssets
INVARIANTS SuccessIsDurable OneExecutor
PROPERTIES PublishedForever TasksEnd
CHECK_DEADLOCK FALSE

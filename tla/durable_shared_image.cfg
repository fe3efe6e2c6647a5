SPECIFICATION DurableSpec
CONSTANTS
  Jobs = {j1, j2}
  ChangedJobs = {j1, j2}
  Requests = {r1, r2}
  NoRequest = none
  Workers = {w1, w2}
  Cancellers = {}
  Nobody = nobody
  MaxAttempts = 2
  MaxSubmissions = 2
  MaxFaults = 0
  MaxCrashes = 0
  NewAsset <- SharedAsset
INVARIANT UnavailableMeansOutage
CHECK_DEADLOCK FALSE

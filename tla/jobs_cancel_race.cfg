SPECIFICATION Spec
CONSTANTS
  Jobs = {j1, j2}
  ChangedJobs = {j1}
  Requests = {r1, r2}
  NoRequest = none
  Workers = {w1, w2}
  Cancellers = {c1}
  Nobody = nobody
  MaxAttempts = 2
  MaxSubmissions = 3
PROPERTY OnlyQueuedCancelled
CHECK_DEADLOCK FALSE

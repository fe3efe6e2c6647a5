SPECIFICATION Spec
CONSTANTS
  Keys = {k1, k2}
  Contents = {a, b, bad}
  RejectedContents = {bad}
  Municipalities = {m1, m2}
  Captures = {1, 2}
  Nothing = nothing
  MaxCalls = 4
  MaxFaults = 1
  MaxCrashes = 1
SYMMETRY Symmetry
INVARIANTS TypeOK EvidenceIsTheObject ReturnedRecordsKept PairsStandOnRows
PROPERTY RowsAreWriteOnce
CHECK_DEADLOCK FALSE

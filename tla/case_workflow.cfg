SPECIFICATION Spec
CONSTANTS
  CaseId = "c"
  Inspectors = {i1, i2, i3}
  Active = {i1, i2}
  Supervisors = {s1}
  Administrators = {a1}
  Processor = processor
  NoOne = none
  Evidence <- OfferedEvidence
  Contents <- ReadContents
  Times = {0, 1}
  MaxEvents = 6
  MaxRemarks = 1
INVARIANTS TypeOK RecordsExplainSnapshot InspectorsActOnOwnCase SnapshotsAreValid ConfirmedAfterReview ReviewWithinReach
PROPERTIES ClosedIsFrozen ImplementsDecision
CHECK_DEADLOCK FALSE

SPECIFICATION Spec
CONSTANTS
  CaseId = "c"
  Inspectors = {i1, i2}
  Active = {i1, i2}
  Supervisors = {s1}
  Administrators = {}
  Processor = processor
  NoOne = none
  Evidence <- RasterAndMaskSet
  ProcessedEvidence <- RasterAndMask
  Contents <- FilesRead
  Times = {0, 1}
  MaxCalls = 4
  MaxFaults = 1
  MaxCrashes = 1
INVARIANTS MemoryNeverForks AcknowledgedKept DecisionsVerified RowsExplainThemselves
PROPERTY HistoryAppendOnly
CHECK_DEADLOCK FALSE

SPECIFICATION DatasetsSpec
CONSTANTS
  Records = {"m", "w", "p1", "p2", "f1", "f2", "b1", "b2", "q", "c", "a1", "a2", "i", "k", "o"}
  Kind <- KindOf
  Order <- OrderOf
  Today = 5
  Datasets <- Submitted
  Inputs <- Calls
  Distance = 2
  Window = 2
  Reach = 1
  Likeness = 1
INVARIANTS KeptIsConsistent NothingLostNeedlessly RootsAreComponents AcceptedNeverLeaks AssignmentPassesValidation
PROPERTY ValidationEnds
CHECK_DEADLOCK FALSE

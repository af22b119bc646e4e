SPECIFICATION Spec
CONSTANTS
  e1 = e1
  e2 = e2
  d1 = d1
  d2 = d2
  None = None
  Foreign = Foreign
  Procs <- OneProc
  Parents <- OneParent
  MaxRows = 1
  MaxDb = 3
  OptionSet <- AllOptions
  Faults <- StorageFaults
INVARIANTS TypeOK PublishedIsComplete NothingLeftBehind
PROPERTIES Refinement
CHECK_DEADLOCK FALSE

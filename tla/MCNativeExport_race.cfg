SPECIFICATION Spec
CONSTANTS
  e1 = e1
  e2 = e2
  d1 = d1
  d2 = d2
  None = None
  Foreign = Foreign
  Procs <- TwoProcs
  Parents <- TwoParents
  MaxRows = 1
  MaxDb = 1
  OptionSet <- RaceOptions
  Faults <- RaceFaults
INVARIANTS OneWinner
PROPERTIES ForeignUntouched
CHECK_DEADLOCK FALSE

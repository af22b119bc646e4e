SPECIFICATION FairSpec
CONSTANTS
  e1 = e1
  e2 = e2
  d1 = d1
  d2 = d2
  None = None
  Foreign = Foreign
  Procs <- OneProc
  Parents <- OneParent
  MaxRows = 1
  MaxDb = 2
  OptionSet <- AllOptions
  Faults <- CancelFaults
INVARIANTS AnswerMatchesPublication
PROPERTIES CancellationStopsPublication Terminates
CHECK_DEADLOCK FALSE

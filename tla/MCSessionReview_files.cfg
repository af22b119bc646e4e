SPECIFICATION Spec
CONSTANTS
    Rows <- ManyRows
    StartFiles <- ManyFiles
    MaxRows = 3
    MaxFile = 4
    MaxWrites = 2
    Changing <- FewFiles
    WrittenRows <- FewRows
    Torn = Torn
    Sessions <- MCSessions
    NoId = NoId
    Day = 2
    Now = 6
    Periods <- BothPeriods
    Cap = 1
    CounterWindow = 1
    MaxSessions = 2
    MaxMembers = 5
    MaxCount = 2
INVARIANT ReviewLimitsExact
 
INVARIANT ReviewOfOneFile
CHECK_DEADLOCK FALSE

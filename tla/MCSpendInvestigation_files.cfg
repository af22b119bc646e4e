SPECIFICATION Spec
CONSTANTS
    Torn = Torn
    NoId = NoId
    Groups <- MCGroups
    Models <- MCModels
    Supported <- Chat
    Day = 2
    Week = 2
    Now = 8
    MaxCallTypes = 2
    MaxModels = 3
    MaxFile = 5
    MaxRows = 5
    MaxCount = 6
    SketchSize = 1
    Rows <- AllRows
    StartFiles <- AllFiles
    OptionSet <- AllOptions
    MaxWrites = 2
    Changing <- FewFiles
    WrittenRows <- FewRows
INVARIANT InvestigationLimitsExact
INVARIANT Accounted
INVARIANT InvestigationOfOneFile
INVARIANT IntervalsHoldTruth
INVARIANT AliasesDistinct
CHECK_DEADLOCK FALSE

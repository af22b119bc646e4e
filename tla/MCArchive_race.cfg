SPECIFICATION Spec
CONSTANTS
    Helpers <- TwoHelpers
    Owners <- OneOwner
    None = None
    Torn = Torn
    Keeps <- KeepOne
    MaxClock = 2
    MaxWindow = 1
    MaxSeq = 2
    MaxFiles = 4
    MaxEntries = 8
    MaxBytes = 30
    MaxFaults = 1
    Faults <- RaceFaults
PROPERTY NoRegression
PROPERTY OnlyInventoried
CHECK_DEADLOCK FALSE

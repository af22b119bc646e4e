SPECIFICATION FairSpec
CONSTANTS
    Helpers <- OneHelper
    Owners <- OneOwner
    None = None
    Torn = Torn
    Keeps <- KeepOne
    MaxClock = 2
    MaxWindow = 1
    MaxSeq = 2
    MaxFiles = 4
    MaxEntries = 8
    MaxBytes = 30
    MaxFaults = 2
    Faults <- DurableFaults
INVARIANT TypeOK
INVARIANT HistorySurvives
INVARIANT NeverTorn
PROPERTY Converges
CHECK_DEADLOCK FALSE

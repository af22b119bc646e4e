SPECIFICATION Spec
CONSTANTS
    Helpers <- OneHelper
    Owners <- OneOwner
    None = None
    Torn = Torn
    Keeps <- KeepEither
    MaxClock = 2
    MaxWindow = 2
    MaxSeq = 2
    MaxFiles = 2
    MaxEntries = 3
    MaxBytes = 6
    MaxFaults = 2
    Faults <- LimitFaults
INVARIANT WithinLimits
INVARIANT SuccessSettles
CHECK_DEADLOCK FALSE

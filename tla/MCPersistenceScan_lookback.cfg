SPECIFICATION Spec
CONSTANTS
    None = None
    Keys <- MCKeys
    Rankings <- MCRankings
    Frames <- MCFrames
    Series <- MCSeries
    OptionSet <- LookbackOptions
    Expected <- MCExpected
    MinBaseline = 2
    MaxWork = 15
INVARIANT QuietHistoryComplete
CHECK_DEADLOCK FALSE

SPECIFICATION Spec
CONSTANTS
    None = None
    Keys <- MCKeys
    Rankings <- MCRankings
    Frames <- MCFrames
    Series <- MCSeries
    OptionSet <- MCOptions
    Expected <- MCExpected
    MinBaseline = 2
    MaxWork = 15
INVARIANT TypeOK
INVARIANT FindingsTrue
INVARIANT PersistenceExact
INVARIANT QuietIsCovered
CHECK_DEADLOCK FALSE

SPECIFICATION Spec
CONSTANTS
    None = None
    Torn = Torn
    Elsewhere = Elsewhere
    Projects <- MCProjects
    ManifestNames <- MCManifests
    DataNames <- MCData
    PathOrder <- MCPathOrder
    Contents <- MCContents
    StartDirs <- AllDirs
    PeriodPairs <- Pairs
    MaxNames = 6
    MaxTotal = 7
    MaxFileBytes = 3
    MaxRows = 3
    MaxCount = 2
    MaxCost = 3
    MaxWrites = 2
    ChangingDirs <- FewDirs
    Written <- MCWritten
INVARIANT SnapshotOfOneDirectory
INVARIANT VolumeOnlyIfCovered
 
CHECK_DEADLOCK FALSE

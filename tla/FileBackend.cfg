SPECIFICATION SharedFairSpec
CONSTANTS
    k1 = k1
    k2 = k2
    Keys <- MCKeys
    Prefixes <- MCPrefixes
    MaxVersions = 3
    MaxFailures = 1
    MaxRestarts = 1
    VM = k1
    MaxUpdates = 1
    Casts <- MCCasts
CHECK_DEADLOCK FALSE
INVARIANTS
    SharedTypeOK
    DiskHoldsAPastState
    FinalSaveCoversTheSignal
    FileHasAnsweredUpdates
    LogIsNotAhead
PROPERTIES
    EveryStateIsSaved
    ShutdownEnds
    DiskNeverGoesBack
    ImplementsCheckpoint

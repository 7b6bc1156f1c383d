SPECIFICATION Spec
CONSTANTS
    NULL = NULL
    Interval = 2
    StarredInterval = 1
    LongestGap = 2
    OfflineConfirmation = 1
    RetentionNormal = 5
    RetentionStarred = 4
    Ranges <- MCRanges
    Steps = 2
    MaxBytes = 4
    MaxTime = 6
INVARIANTS
    TypeOK
    TrafficCountedOnce
    SamplesKeepUp
    CurveIsFaithful

SPECIFICATION JourneySpec
CONSTANTS
    gateway = gateway
    ap = ap
    m1 = m1
    m2 = m2
    NULL = NULL
    Macs = {m1}
    Others = 1
    Nodes = {gateway, ap}
    Topologies <- MCTopologies
    Totals <- AnyTotal
    Touched = {}
    OfflineConfirmation = 2
    RetentionNormal = 2
    RetentionStarred = 2
    IdentityRetention = 50
    CleanupInterval = 3
    Uptime = 0
    MaxSkew = 0
    MaxTime = 5
    Ranges = {3}
INVARIANTS
    TypeOK
    SegmentsTileSessions
    SessionsDisjoint
    EventsTellStatus
    TimestampsAgree
    ParentsKnown
    TimelineTiles
    TimelineTellsObservations
PROPERTIES
    EndsOnlyConfirmed

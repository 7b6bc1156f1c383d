SPECIFICATION Spec
CONSTANTS
    gateway = gateway
    ap = ap
    m1 = m1
    m2 = m2
    NULL = NULL
    Macs = {m1}
    Others = 1
    Nodes = {gateway}
    Topologies <- OneNode
    Totals <- AnyTotal
    Touched = {m1}
    OfflineConfirmation = 1
    RetentionNormal = 1
    RetentionStarred = 3
    IdentityRetention = 2
    CleanupInterval = 2
    Uptime = 2
    MaxSkew = 1
    MaxTime = 5
INVARIANTS
    HistoryIsWhole
    PresenceMatchesHistory
PROPERTIES
    HistoryIsKept
    ForgottenAsAWhole

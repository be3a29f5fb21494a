SPECIFICATION MCSpec
CONSTANTS
    Account = {a1, a2}
    Alias = {x1}
    RingIndex = {0, 1}
    NoAlias = NoAlias
    NoAccount = NoAccount
    MappingRetention = 3
    OldRootRetentionDuration = 1
    MaxRecentRootsPerRing = 2
    MaxStaleAliasBatch = 1
    MaxDelay = 2
    MaxSkew = 1
    MaxRevision = 1
    PeopleAlias = {x1, x2}
    Context = {c1}
    Key = {k1, k2}
    Nobody = Nobody
    MaxBulkCleanup = 1
    MaxId = 2
    MaxSessions = 1
    MaxPersonBatchSize = 2
INVARIANTS
    LinksExact
    AccountsExact
    PeopleExact
PROPERTIES
    GraceKept
    StaleLinksGo
CHECK_DEADLOCK FALSE

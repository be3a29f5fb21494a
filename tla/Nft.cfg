SPECIFICATION MCSpec
CONSTANTS
    c1 = c1
    c2 = c2
    c3 = c3
    Credit <- MCCredit
    GameOf <- MCGameOf
    ClaimantOf <- MCClaimantOf
    AWARDS_PER_TREE = 2
    MAX_PENDING_CREDIT_TREES = 2
    MaxQueuedCreditTrees = 1
    MaxCreditTreesPerMessage = 1
    MaxCreditBlocksPerClaimant = 1
    ReplayCooldownSeconds = 2
    ClaimsChainTreeTtl = 2
    ROOT_TTL_GRACE = 1
    AwardRetentionTtl = 3
    MaxRootsPerSweep = 1
    MaxReport = 2
    MaxGame = 1
    MaxAwardBlock = 0
    MaxBlock = 3
    MaxInFlight = 1
    TreeTtl = 2
    MaxCreditsPerTree = 2
    MaxQueuedTreeDeletions = 1
    MaxTreeDeletionsPerMessage = 1
    MaxDepth = 2
    MaxDeletionMessages = 1
    MaxSkew = 1
    MaxLead = 0
INVARIANTS
    CreditsKept
    ClaimsKept
    GapsReported
PROPERTIES
    LedgerKept
CHECK_DEADLOCK FALSE

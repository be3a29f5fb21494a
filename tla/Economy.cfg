SPECIFICATION MCSpec
CONSTANTS
    Nobody = Nobody
    Key = {"x", "y"}
    Owner = {"o"}
    MaximumExponent = 1
    MaximumAge = 2
    MinimumExponentForOutputUnloadFee = 0
    RingSize = 2
    RecyclerExpirationTime = 1
    CoinFailureLockPeriod = 1
    DUST_CLEANUP_BATCH_SIZE = 1
    Fees = {1, 2}
    MaxIndex = 0
    MaxNow = 1
    DepositAsset = {"a"}
    Funder = {}
    LoadDeposits <- MCLoadDeposits
    Modes = {"sufficient"}
    MinimumBalance = 1
    MaxContribution = 0
INVARIANTS
    Backed
    PaidOutOnce
    RecyclersExact
    UsedOnce
    LiteAccountsExact
PROPERTIES
    ChunksExact
CHECK_DEADLOCK FALSE

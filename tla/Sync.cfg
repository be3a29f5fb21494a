SPECIFICATION MCSpec
CONSTANTS
  Instances = {"ring", "gaps"}
  Para = Para
  Identifier = {1}
  RingCount = 1
  Revision = {0, 1}
  NoRoot = NoRoot
  StorageOrder <- MCStorageOrder
  MaxUpdatesPerBatch = 1
  ChannelCapacity = {0, 1}
  UpdateTriggerBlocks = 0
  UpdateTriggerThreshold = 1
  StuckBatchTimeout = 0
  NotifierReplayCooldown = 0
  PageCount = 2
  MaxCollections = 1
  MaxRecentRootsPerRing = 1
  OldRootRetentionDuration = 1
  MaxMissingRootsPerCollection = 1
  MaxDeletedRingsPerCollection = 1
  MaxGapScanPerCall = 1
  GapScanCooldownSeconds = 1
  ReplayCooldownSeconds = 1
  ReplayAbandonThreshold = 2
  PurgePageSize = 2
  MaxGeneration = 1
  MaxSequence = 1
  MaxNow = 0
  MaxSubscriptions = 2
  MaxChannel = 2
INVARIANTS
  RootsAgree
PROPERTIES
  NeverBack

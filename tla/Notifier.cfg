SPECIFICATION MCSpec
CONSTANTS
  p1 = p1
  p2 = p2
  ParaId = {p1, p2}
  Identifier = {1}
  RingIndex = {0, 1}
  Revision = {1}
  NoRoot = NoRoot
  StorageOrder <- MCStorageOrder
  WhitelistCollections <- MCWhitelist
  MaxSubscribers = 2
  MaxCollectionsPerSubscriber = 1
  MaxUpdatesPerBatch = 1
  ChannelCapacity = {0, 1}
  UpdateTriggerBlocks = 1
  UpdateTriggerThreshold = 1
  StuckBatchTimeout = 1
  ReplayCooldownSeconds = 1
  PageCount = 3
  MaxSequence = 2
  MaxNow = 1
INVARIANTS
  BatchAccounting
  PagesConsistent
  ReplayTimesOwned
  NoSilentLoss
PROPERTIES
  BatchEnds

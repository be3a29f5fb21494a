SPECIFICATION MCSpec
CONSTANTS
  Identifier = {1, 2}
  RingCount = 3
  Revision = {1, 2, 3}
  Deleted = Deleted
  MaxCollections = 1
  MaxUpdatesPerBatch = 2
  MaxRecentRootsPerRing = 2
  OldRootRetentionDuration = 1
  MaxMissingRootsPerCollection = 1
  MaxDeletedRingsPerCollection = 2
  MaxGapScanPerCall = 2
  GapScanCooldownSeconds = 1
  ReplayCooldownSeconds = 1
  ReplayAbandonThreshold = 2
  PurgePageSize = 1
  MaxGeneration = 3
  MaxSequence = 1
  MaxNow = 2
INVARIANTS
  StoreClean
  WindowsDistinct
  ScanExact
  GapsTracked
PROPERTIES
  RemovalEnds
CHECK_DEADLOCK FALSE

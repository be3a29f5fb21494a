--------------------------- MODULE SubscriberState ---------------------------
(* The parameters and the state of pallets/members-subscriber; its calls are in MembersSubscriber. *)
EXTENDS Integers, FiniteSets, Sequences

CONSTANTS
    Identifier,                     \* collections
    RingCount,                      \* rings 0 .. RingCount - 1 may exist
    Revision,                       \* revisions of a ring root
    Deleted,                        \* the operation that deletes a ring root
    MaxCollections,
    MaxUpdatesPerBatch,
    MaxRecentRootsPerRing,
    OldRootRetentionDuration,
    MaxMissingRootsPerCollection,
    MaxDeletedRingsPerCollection,
    MaxGapScanPerCall,
    GapScanCooldownSeconds,
    ReplayCooldownSeconds,
    ReplayAbandonThreshold,
    PurgePageSize,
    MaxGeneration,                  \* bound on the times ring data is cleared
    MaxSequence,                    \* bound on the sequence numbers of batches
    MaxNow                          \* bound on the clock

ASSUME ContentAssumption ==
    /\ IsFiniteSet(Identifier)
    /\ RingCount \in Nat
    /\ Deleted \notin Revision

ASSUME PalletAssumption ==          \* integrity_test
    /\ MaxCollections \in Nat \ {0}
    /\ MaxUpdatesPerBatch \in Nat \ {0}
    /\ MaxRecentRootsPerRing \in Nat \ {0}
    /\ OldRootRetentionDuration \in Nat
    /\ MaxMissingRootsPerCollection \in Nat \ {0}
    /\ MaxDeletedRingsPerCollection \in Nat \ {0}
    /\ MaxGapScanPerCall \in Nat \ {0}
    /\ GapScanCooldownSeconds \in Nat \ {0}
    /\ ReplayCooldownSeconds \in Nat \ {0}
    /\ ReplayAbandonThreshold \in Nat \ {0}
    /\ PurgePageSize \in Nat \ {0}

ASSUME BoundAssumption ==
    MaxGeneration \in Nat /\ MaxSequence \in Nat /\ MaxNow \in Nat

VARIABLES
    RingRoots,                  \* generation -> collection -> ring -> window of records
    CurrentGeneration,
    QueuedRingPurge,            \* generation being purged, NoPurge if none
    RingCollectionStates,
    RingCollectionExponents,    \* collections initialised (the exponents are left out)
    Subscription,
    ProcessingState,
    now,
    given_up                    \* history: <<collection, ring>> the scan passed and dropped

roots == <<RingRoots, CurrentGeneration, QueuedRingPurge>>
vars == <<roots, RingCollectionStates, RingCollectionExponents, Subscription, ProcessingState,
          now, given_up>>
=============================================================================

---------------------------- MODULE NotifierState ----------------------------
(* The parameters and the state of pallets/members-notifier; its calls are in MembersNotifier. *)
EXTENDS Integers, FiniteSets

CONSTANTS
    ParaId,                 \* parachains that may subscribe
    Identifier,             \* collections: integers, as they are kept sorted
    RingIndex,              \* ring indices used
    StorageOrder,           \* rank of a ring's key in Root: keys are hashed
    Revision,               \* contents a ring root may have
    NoRoot,                 \* the ring has no root
    WhitelistCollections,   \* collections of each genesis whitelist entry
    MaxSubscribers,
    MaxCollectionsPerSubscriber,
    MaxUpdatesPerBatch,
    ChannelCapacity,        \* results of get_xcm_update_batch_size; 0 is None
    UpdateTriggerBlocks,
    UpdateTriggerThreshold,
    StuckBatchTimeout,
    ReplayCooldownSeconds,
    PageCount,              \* 2^16 in the code: page indices are u16
    MaxSequence,            \* bound on the batches sealed
    MaxNow                  \* bound on the clock

ASSUME FiniteAssumption ==
    /\ IsFiniteSet(ParaId) /\ IsFiniteSet(Identifier) /\ IsFiniteSet(RingIndex)
    /\ Identifier \subseteq Int /\ RingIndex \subseteq Nat /\ 0 \in RingIndex
    /\ NoRoot \notin Revision
    /\ StorageOrder \in [RingIndex -> Nat]
    /\ \A r, q \in RingIndex : StorageOrder[r] = StorageOrder[q] => r = q
    /\ WhitelistCollections \in [ParaId -> SUBSET Identifier]

ASSUME LimitAssumption ==
    /\ MaxSubscribers \in Nat
    /\ MaxCollectionsPerSubscriber \in Nat
    /\ MaxUpdatesPerBatch \in Nat \ {0}
    /\ ChannelCapacity \subseteq 0 .. MaxUpdatesPerBatch
    /\ UpdateTriggerBlocks \in Nat
    /\ UpdateTriggerThreshold \in Nat
    /\ StuckBatchTimeout \in Nat
    /\ ReplayCooldownSeconds \in Nat
    /\ PageCount \in Nat \ {0, 1}
    /\ MaxSequence \in Nat
    /\ MaxNow \in Nat

VARIABLES
    \* storage of the pallet
    Subscribers,            \* subscribed parachains (the keys)
    SubscriberInfo,         \* their values
    SubscriptionWhitelist,  \* whitelist entries not yet consumed
    SubscribedCollections,
    SealedBatchSequence,
    PageState,
    PendingUpdates,         \* page -> changed <<identifier, ring index>>
    PageUpdatesCount,
    PendingInit,            \* parachains with an initialisation to finish
    InitState,              \* how far each of those has got
    SealedBatchIndices,     \* collection -> ring indices of the sealed batch
    CurrentBatch,
    SubscribersWithCurrentBatch,
    LastReplayTime,
    \* what the pallet reads from others: the members pallet and the clock
    Root, DeletedCollections, CurrentRingIndex,
    now,
    \* history: <<para, identifier, ring>> such that the ring changed since the
    \* last message that carried it to the parachain, and those of them that
    \* were in a batch skipped or abandoned for that parachain
    behind, missed

storage == <<Subscribers, SubscriberInfo, SubscriptionWhitelist, SubscribedCollections,
             SealedBatchSequence, PageState, PendingUpdates, PageUpdatesCount, PendingInit,
             InitState, SealedBatchIndices, CurrentBatch, SubscribersWithCurrentBatch,
             LastReplayTime>>
provider == <<Root, DeletedCollections, CurrentRingIndex>>
vars == <<storage, provider, now, behind, missed>>
=============================================================================

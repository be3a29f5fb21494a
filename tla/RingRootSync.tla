----------------------------- MODULE RingRootSync -----------------------------
(***************************************************************************)
(* The synchronisation of ring roots between two chains: members-notifier  *)
(* on the people chain, members-subscriber on one subscriber chain, and    *)
(* the HRMP channels between them.                                         *)
(*                                                                         *)
(* A channel keeps the order of its messages and loses none; a message may *)
(* fail to be sent.  Delivery takes any time, and a message whose call     *)
(* fails on the other chain is gone.  Roots are resolved when a message is *)
(* sent, never when the change is recorded.                                *)
(***************************************************************************)
EXTENDS Integers, FiniteSets, Sequences

CONSTANTS
    Para,                           \* the subscriber chain
    Identifier, RingCount, Revision, NoRoot, StorageOrder,
    \* notifier
    MaxUpdatesPerBatch, ChannelCapacity, UpdateTriggerBlocks, UpdateTriggerThreshold,
    StuckBatchTimeout, NotifierReplayCooldown, PageCount,
    \* subscriber
    MaxCollections, MaxRecentRootsPerRing, OldRootRetentionDuration,
    MaxMissingRootsPerCollection, MaxDeletedRingsPerCollection, MaxGapScanPerCall,
    GapScanCooldownSeconds, ReplayCooldownSeconds, ReplayAbandonThreshold, PurgePageSize,
    \* bounds
    MaxGeneration, MaxSequence, MaxNow,
    MaxSubscriptions,               \* bound on the subscriptions
    MaxChannel                      \* bound on the messages in a channel

ASSUME ContentAssumption ==
    /\ IsFiniteSet(Identifier)
    /\ RingCount \in Nat
    /\ Revision \subseteq Nat /\ NoRoot \notin Revision
    /\ MaxRecentRootsPerRing \in Nat \ {0}         \* integrity_test
    /\ MaxGeneration \in Nat

ParaId == {Para}
RingIndex == 0 .. RingCount - 1

VARIABLES
    \* MembersNotifier
    Subscribers, SubscriberInfo, SubscriptionWhitelist, SubscribedCollections,
    SealedBatchSequence, PageState, PendingUpdates, PageUpdatesCount, PendingInit, InitState,
    SealedBatchIndices, CurrentBatch, SubscribersWithCurrentBatch, LastReplayTime,
    Root, DeletedCollections, CurrentRingIndex, behind, missed,
    \* MembersSubscriber
    RingRoots, CurrentGeneration, QueuedRingPurge, RingCollectionStates,
    RingCollectionExponents, Subscription, ProcessingState, given_up,
    \* both chains
    now,
    \* channels
    down,                           \* notifier to subscriber
    up,                             \* subscriber to notifier
    \* history
    retired,                        \* <<collection, ring>> whose root was removed
    epoch,                          \* number of the notifier's last subscription
    store_epoch,                    \* that whose first page the subscriber's store began with
    send_failed                     \* a message that ends a subscription was not sent

notifier == <<Subscribers, SubscriberInfo, SubscriptionWhitelist, SubscribedCollections,
              SealedBatchSequence, PageState, PendingUpdates, PageUpdatesCount, PendingInit,
              InitState, SealedBatchIndices, CurrentBatch, SubscribersWithCurrentBatch,
              LastReplayTime, Root, DeletedCollections, CurrentRingIndex, behind, missed>>
subscriber == <<RingRoots, CurrentGeneration, QueuedRingPurge, RingCollectionStates,
                RingCollectionExponents, Subscription, ProcessingState, given_up>>
history == <<retired, epoch, store_epoch, send_failed>>
vars == <<notifier, subscriber, now, down, up, history>>

N == INSTANCE MembersNotifier WITH
        ReplayCooldownSeconds <- NotifierReplayCooldown,
        WhitelistCollections <- [p \in ParaId |-> {}],
        MaxSubscribers <- 1,
        MaxCollectionsPerSubscriber <- MaxCollections

S == INSTANCE MembersSubscriber WITH Deleted <- NoRoot

-----------------------------------------------------------------------------
(* Messages *)

NoMessageBatch ==
    [identifier |-> 0, sequence |-> 0, source_time |-> 0, next_ring_index |-> 0, updates |-> <<>>]

\* History: the subscription a page is the first of, 0 for any other page.
FirstPageOf ==
    IF /\ InitState[Para].remaining = SubscriberInfo[Para].collections
       /\ InitState[Para].after_ring_index = N!StartOfCollection
    THEN epoch ELSE 0

InitMessage(batch) == [call |-> "initialize_ring_roots", first_of |-> FirstPageOf, batch |-> batch]
UpdateMessage(batch) == [call |-> "process_ring_updates", first_of |-> 0, batch |-> batch]
TerminateMessage == [call |-> "terminate_subscription", first_of |-> 0, batch |-> NoMessageBatch]
UnsubscribeMessage == [call |-> "unsubscribe", identifier |-> 0, indices |-> {}]
ReplayMessage(c, indices) == [call |-> "request_replay", identifier |-> c, indices |-> indices]

BatchOf(c, indices, sequence, source_time) ==
    [identifier |-> c, sequence |-> sequence, source_time |-> source_time,
     next_ring_index |-> N!next_ring_index(c),
     updates |-> N!resolve_updates_for_indices(c, indices)]

build_init_batch(c, rings) ==
    BatchOf(c, rings, InitState[Para].sequence, InitState[Para].source_time)

\* The chunks of a batch that were sent, in order.
BatchMessages(capacity, failed) ==
    LET sent == N!ChunksFor(Para, capacity) \ failed
        before(a, b) == a[1] < b[1] \/ (a[1] = b[1] /\ a[2] < b[2])
        chunk(i) == CHOOSE a \in sent : Cardinality({b \in sent : before(b, a)}) = i - 1
        indices(a) == {r \in SealedBatchIndices[a[1]] : N!ChunkOf(a[1], r, capacity) = a[2]}
    IN  [i \in 1 .. Cardinality(sent) |->
            UpdateMessage(BatchOf(chunk(i)[1], indices(chunk(i)), CurrentBatch.sequence,
                                  CurrentBatch.source_time))]

\* Replay requests of the chunks that were sent, in order.
ReplayMessages(c, sent) ==
    LET rank(r) == Cardinality({q \in sent : q < r})
        last == (Cardinality(sent) + MaxUpdatesPerBatch - 1) \div MaxUpdatesPerBatch
    IN  [i \in 1 .. last |->
            ReplayMessage(c, {r \in sent : rank(r) \div MaxUpdatesPerBatch = i - 1})]

Sends(messages) ==
    /\ Len(down) + Len(messages) <= MaxChannel      \* bound
    /\ down' = down \o messages

Requests(messages) ==
    /\ Len(up) + Len(messages) <= MaxChannel        \* bound
    /\ up' = up \o messages

-----------------------------------------------------------------------------
(* The people chain *)

Subscribe ==
    /\ epoch < MaxSubscriptions                     \* bound
    /\ N!subscribe(Para)
    /\ epoch' = epoch + 1
    /\ UNCHANGED <<subscriber, down, up, retired, store_epoch, send_failed>>

\* Governance; the subscriber is told if the message can be sent.
Unsubscribe ==
    /\ N!unsubscribe(Para)
    /\ \/ Sends(<<TerminateMessage>>) /\ UNCHANGED send_failed
       \/ UNCHANGED down /\ send_failed' = TRUE
    /\ UNCHANGED <<subscriber, up, retired, epoch, store_epoch>>

EnqueueUpdates == N!enqueue_updates /\ UNCHANGED <<subscriber, down, up, history>>

SendBatch ==
    \E capacity \in ChannelCapacity :
        \E failed \in SUBSET N!ChunksFor(Para, capacity) :
            /\ N!send_batch(Para, capacity, failed)
            /\ Sends(BatchMessages(capacity, failed))
            /\ UNCHANGED <<subscriber, up, history>>

SendInitPage ==
    \/ \E c \in Identifier, capacity \in ChannelCapacity, rings \in SUBSET RingIndex :
            /\ N!send_init_page(Para, c, capacity, rings)
            /\ Sends(<<InitMessage(build_init_batch(c, rings))>>)
            /\ UNCHANGED <<subscriber, up, history>>
    \/ \E capacity \in ChannelCapacity :
            /\ N!send_init_page_done(Para, capacity)
            /\ UNCHANGED <<subscriber, down, up, history>>

AbandonStuckBatch == N!abandon_stuck_batch /\ UNCHANGED <<subscriber, down, up, history>>

\* Replays are open to anyone on the people chain.
Replay(c, indices) ==
    \E capacity \in ChannelCapacity :
        /\ N!request_replay(Para, c, indices, capacity)
        /\ Sends(<<UpdateMessage(BatchOf(c, indices, SealedBatchSequence, now))>>)

RequestReplay ==
    /\ \E c \in Identifier, indices \in SUBSET RingIndex : Replay(c, indices)
    /\ UNCHANGED <<subscriber, up, history>>

\* Mutant: the counter wraps around.
NextRevision_wraps(c, r) == IF Root[c][r] = NoRoot THEN 0 ELSE (Root[c][r] + 1) % 2

NextRevision(c, r) == IF Root[c][r] = NoRoot THEN 0 ELSE Root[c][r] + 1

\* Revisions of a ring count up, and the index of a removed ring is not used again.
RootChange ==
    \E c \in Identifier, r \in RingIndex, root \in Revision \union {NoRoot} :
        /\ <<c, r>> \notin retired
        /\ root # NoRoot => root = NextRevision(c, r)
        /\ N!RingRootChange(c, r, root)
        /\ retired' = IF root = NoRoot THEN retired \union {<<c, r>>} ELSE retired
        /\ UNCHANGED <<subscriber, down, up, epoch, store_epoch, send_failed>>

CollectionChange ==
    /\ \E c \in Identifier : N!NextRing(c) \/ N!DeleteCollection(c) \/ N!FinalizeCollectionDeletion(c)
    /\ UNCHANGED <<subscriber, down, up, history>>

\* A message of the subscriber is executed; an error leaves no trace.
ReceiveUp ==
    /\ up # <<>>
    /\ up' = Tail(up)
    /\ LET message == Head(up)
       IN  \/ /\ message.call = "unsubscribe"
              /\ N!unsubscribe(Para)
              /\ UNCHANGED down
           \/ /\ message.call = "unsubscribe"
              /\ Para \notin Subscribers
              /\ UNCHANGED <<notifier, now, down>>
           \/ message.call = "request_replay" /\ Replay(message.identifier, message.indices)
           \/ message.call = "request_replay" /\ UNCHANGED <<notifier, now, down>>
    /\ UNCHANGED <<subscriber, history>>

-----------------------------------------------------------------------------
(* The subscriber chain *)

\* The store begins afresh with the first page, and with one that restarts it.
BeginsStore(batch) == RingCollectionExponents = {} \/ S!restarts_initialization(batch)

ReceiveDown ==
    /\ down # <<>>
    /\ down' = Tail(down)
    /\ LET message == Head(down)
           batch == message.batch
           accepts_init == \/ S!restarts_initialization(batch)
                           \/ S!continues_initialization(batch) /\ S!has_room_for(batch.identifier)
       IN  \/ /\ message.call = "initialize_ring_roots"
              /\ S!initialize_ring_roots(batch)
              /\ store_epoch' = IF BeginsStore(batch) THEN message.first_of ELSE store_epoch
           \/ /\ message.call = "initialize_ring_roots"
              /\ ~ accepts_init
              /\ UNCHANGED <<subscriber, now, store_epoch>>
           \/ /\ message.call = "process_ring_updates"
              /\ S!process_ring_updates(batch)
              /\ UNCHANGED store_epoch
           \/ /\ message.call = "process_ring_updates"
              /\ ~ S!accepts_ring_updates(batch)
              /\ UNCHANGED <<subscriber, now, store_epoch>>
           \/ /\ message.call = "terminate_subscription"
              /\ S!terminate_subscription
              /\ UNCHANGED store_epoch
           \/ /\ message.call = "terminate_subscription"
              /\ ~ S!IsActive
              /\ UNCHANGED <<subscriber, now, store_epoch>>
    /\ UNCHANGED <<notifier, up, retired, epoch, send_failed>>

\* Local governance ends the subscription and tells the notifier, if it can.
TerminateLocally ==
    /\ S!terminate_subscription
    /\ \/ Requests(<<UnsubscribeMessage>>) /\ UNCHANGED send_failed
       \/ UNCHANGED up /\ send_failed' = TRUE
    /\ UNCHANGED <<notifier, down, retired, epoch, store_epoch>>

ReplayMissing ==
    /\ \E c \in Identifier, sent \in SUBSET RingIndex :
        /\ S!replay_missing_roots(c, S!Missing(c), sent)
        /\ Requests(ReplayMessages(c, sent))
    /\ UNCHANGED <<notifier, down, history>>

DetectMissing ==
    /\ \E c \in Identifier, cursor \in 0 .. RingCount : S!detect_missing_rings(c, cursor)
    /\ UNCHANGED <<notifier, down, up, history>>

Purge ==
    /\ \E removed \in SUBSET (Identifier \X RingIndex) : S!purge_stale_ring_roots(removed)
    /\ UNCHANGED <<notifier, down, up, history>>

Tick ==
    /\ now < MaxNow
    /\ now' = now + 1
    /\ UNCHANGED <<notifier, subscriber, down, up, history>>

-----------------------------------------------------------------------------
Init ==
    /\ N!Init /\ S!Init
    /\ down = <<>> /\ up = <<>>
    /\ retired = {} /\ epoch = 0 /\ store_epoch = 0 /\ send_failed = FALSE

Next ==
    \/ Subscribe \/ Unsubscribe \/ EnqueueUpdates \/ SendBatch \/ SendInitPage
    \/ AbandonStuckBatch \/ RequestReplay \/ RootChange \/ CollectionChange \/ ReceiveUp
    \/ ReceiveDown \/ TerminateLocally \/ ReplayMissing \/ DetectMissing \/ Purge
    \/ Tick

Spec == Init /\ [][Next]_vars

-----------------------------------------------------------------------------
(* Properties *)

\* The newest revision the subscriber has of a ring, NoRoot if it has none.
Newest(c, r) ==
    LET window == S!current_ring_roots(c, r)
    IN  IF window = <<>> THEN NoRoot ELSE window[Len(window)].revision

\* Nothing is under way between the chains and the subscription is complete.
Quiet ==
    /\ down = <<>> /\ up = <<>>
    /\ Para \in Subscribers /\ Para \notin PendingInit
    /\ ~ N!BatchActive
    /\ \A q \in N!PagesInUse : PendingUpdates[q] = {}

\* When all is quiet the subscriber has the newest root of every ring, and no root of
\* a ring that is gone, save for what was in a batch it was skipped in or that was
\* abandoned, and for rings whose collection is still being deleted.  It is so however
\* the changes, the pages, the chunks, the failures and the replays interleave, when
\* the store began with this subscription.
Agreement ==
    Quiet /\ S!IsActive /\ store_epoch = epoch =>
        \A c \in SubscriberInfo[Para].collections, r \in RingIndex :
            \/ Newest(c, r) = N!VisibleRoot(c, r)
            \/ <<Para, c, r>> \in missed
            \/ N!ToBeDeleted(c, r)

\* The subscriber never goes back to an older root of a ring: replays, repeated chunks
\* and late pages of the initialisation never undo an update.
NeverBack ==
    [][\A c \in Identifier, r \in RingIndex :
        (CurrentGeneration' = CurrentGeneration /\ Newest(c, r) # NoRoot /\ Newest(c, r)' # NoRoot)
            => Newest(c, r) <= Newest(c, r)']_vars

\* terminate_subscription ends the subscription on both sides, as the pallet's
\* documentation of the life cycle says: with the channels empty, and every message
\* about the end of a subscription sent, no active subscriber is left alone.
EndsOnBothSides ==
    down = <<>> /\ up = <<>> /\ ~ send_failed /\ S!IsActive => Para \in Subscribers
=============================================================================

--------------------------- MODULE MembersNotifier ---------------------------
(***************************************************************************)
(* pallets/members-notifier: the pallet of the people chain that tells     *)
(* subscribed parachains about ring roots.  Changes reported by the        *)
(* members pallet are buffered in pages, a page is sealed into a batch,    *)
(* and the batch is sent to every subscriber by authorized transactions    *)
(* that offchain workers submit.  A new subscriber is first initialised    *)
(* page by page with every root of its collections.                        *)
(*                                                                         *)
(* XCM sends may fail and the HRMP channel of a parachain may be missing   *)
(* or change its size at any call, so both are inputs of the actions.      *)
(* Every authorized call is checked again when it is dispatched: a stale   *)
(* transaction is rejected, which is why the arguments that authorize_*    *)
(* compares with the state are not parameters here.                        *)
(*                                                                         *)
(* One clock `now' stands for the block number and for the unix time.      *)
(***************************************************************************)
EXTENDS NotifierState

-----------------------------------------------------------------------------
(* Types and empty values *)

Page == 0 .. PageCount - 1

\* No ring index: the initialisation of a collection starts at its beginning.
StartOfCollection == -1

\* No replay was requested yet.
NoReplay == -1

\* A sealed batch has a sequence number above 0.
NoBatch == [sequence |-> 0, source_time |-> 0, sealed_at |-> 0, remaining_subscribers |-> 0]

NoInfo == [collections |-> {}, last_init_sequence |-> 0]

\* `remaining' are the collections from current_collection_index on.
NoInit == [remaining |-> {}, after_ring_index |-> StartOfCollection, sequence |-> 0,
           source_time |-> 0]

BatchActive == CurrentBatch # NoBatch

CollectionLists == {cs \in SUBSET Identifier : Cardinality(cs) <= MaxCollectionsPerSubscriber}

\* Page indices wrap around.
NextPage(page) == IF page = PageCount - 1 THEN 0 ELSE page + 1

\* The pages from the send page to the write page, around the end.
PagesInUse ==
    LET s == PageState.send_page
        w == PageState.write_page
    IN  {q \in Page : IF s <= w THEN s <= q /\ q <= w ELSE s <= q \/ q <= w}

-----------------------------------------------------------------------------
(* The members pallet as RingRootsProvider *)

\* A collection marked for deletion shows no roots.
VisibleRoot(c, r) == IF c \in DeletedCollections THEN NoRoot ELSE Root[c][r]

VisibleRings(c) == {r \in RingIndex : VisibleRoot(c, r) # NoRoot}

next_ring_index(c) ==
    LET i == CurrentRingIndex[c] IN IF Root[c][i] # NoRoot THEN i + 1 ELSE i

\* Mutant: deletions are left out.
resolve_updates_for_indices_built_only(c, indices) ==
    [r \in {q \in indices : VisibleRoot(c, q) # NoRoot} |-> VisibleRoot(c, r)]

\* Indices of the provider's rings; an index without a root is a deletion.
resolve_updates_for_indices(c, indices) == [r \in indices |-> VisibleRoot(c, r)]

\* The storage is iterated in the order of the hashed keys.
Position(r) == IF r = StartOfCollection THEN -1 ELSE StorageOrder[r]

\* get_ring_roots_paginated: the first `limit' rings after `after'.
IsRingPage(rings, c, after, limit) ==
    LET candidates == {r \in VisibleRings(c) : Position(r) > Position(after)}
    IN  /\ rings \subseteq candidates
        /\ \A r \in rings, q \in candidates : Position(q) < Position(r) => q \in rings
        /\ \/ Cardinality(rings) = limit
           \/ rings = candidates /\ Cardinality(rings) < limit

-----------------------------------------------------------------------------
(* Helpers of the pallet *)

rebuild_subscribed_collections ==
    SubscribedCollections' =
        {c \in Identifier : \E p \in Subscribers' : c \in SubscriberInfo'[p].collections}

\* Mutant: the served subscribers are kept.
clear_batch_keeps_served ==
    /\ CurrentBatch' = NoBatch
    /\ SealedBatchIndices' = [c \in Identifier |-> {}]
    /\ UNCHANGED SubscribersWithCurrentBatch

clear_batch ==
    /\ CurrentBatch' = NoBatch
    /\ SealedBatchIndices' = [c \in Identifier |-> {}]
    /\ SubscribersWithCurrentBatch' = {}

has_processable_updates ==
    \/ PageState.send_page # PageState.write_page
    \/ LET count == PageUpdatesCount[PageState.write_page]
       IN  /\ count > 0
           /\ \/ now - PageState.last_update_block >= UpdateTriggerBlocks
              \/ count >= UpdateTriggerThreshold

\* Mutant: the counter of the page survives.
cleanup_send_buffer_keeps_count ==
    LET send == PageState.send_page
        write == PageState.write_page
    IN  /\ PendingUpdates' = [PendingUpdates EXCEPT ![send] = {}]
        /\ PageState' = [write_page |-> IF send = write THEN NextPage(write) ELSE write,
                         send_page |-> NextPage(send),
                         last_update_block |-> now]
        /\ UNCHANGED PageUpdatesCount

\* The write page is sealed first when it is the one being sent.
cleanup_send_buffer ==
    LET send == PageState.send_page
        write == PageState.write_page
    IN  /\ PendingUpdates' = [PendingUpdates EXCEPT ![send] = {}]
        /\ PageUpdatesCount' = [PageUpdatesCount EXCEPT ![send] = 0]
        /\ PageState' = [write_page |-> IF send = write THEN NextPage(write) ELSE write,
                         send_page |-> NextPage(send),
                         last_update_block |-> now]

\* One subscriber less to serve; the last one clears the batch.
ServedOne(served) ==
    IF CurrentBatch.remaining_subscribers = 1
    THEN clear_batch
    ELSE /\ CurrentBatch' = [CurrentBatch EXCEPT !.remaining_subscribers = @ - 1]
         /\ SubscribersWithCurrentBatch' = served
         /\ UNCHANGED SealedBatchIndices

\* The subscriber was counted in remaining_subscribers when the batch was sealed.
Counted(p) == SubscriberInfo[p].last_init_sequence < CurrentBatch.sequence

\* Subscribers whose send_batch is still to come.
Waiting == {p \in Subscribers \ SubscribersWithCurrentBatch : Counted(p)}

\* What the current batch holds for a subscriber.
BatchFor(p) ==
    {u \in {p} \X SubscriberInfo[p].collections \X RingIndex : u[3] \in SealedBatchIndices[u[2]]}

\* The updates of a collection are sent in chunks of `limit', in ring order.
ChunkOf(c, r, limit) == Cardinality({q \in SealedBatchIndices[c] : q < r}) \div limit

-----------------------------------------------------------------------------
(* Calls *)

do_subscribe(p, collections) ==
    /\ p \notin Subscribers
    /\ Cardinality(Subscribers) < MaxSubscribers
    /\ SubscriptionWhitelist' = SubscriptionWhitelist \ {p}
    /\ Subscribers' = Subscribers \union {p}
    /\ SubscriberInfo' = [SubscriberInfo EXCEPT ![p] =
            [collections |-> collections, last_init_sequence |-> SealedBatchSequence]]
    /\ PendingInit' = PendingInit \union {p}
    /\ InitState' = [InitState EXCEPT ![p] =
            [remaining |-> collections, after_ring_index |-> StartOfCollection,
             sequence |-> SealedBatchSequence, source_time |-> now]]
    /\ rebuild_subscribed_collections
    /\ behind' = behind \union
            {u \in {p} \X collections \X RingIndex : VisibleRoot(u[2], u[3]) # NoRoot}
    /\ UNCHANGED <<SealedBatchSequence, PageState, PendingUpdates, PageUpdatesCount,
                   SealedBatchIndices, CurrentBatch, SubscribersWithCurrentBatch,
                   LastReplayTime, provider, now, missed>>

\* Governance.
subscribe(p) == \E collections \in CollectionLists : do_subscribe(p, collections)

authorize_subscribe_whitelisted(p) ==
    /\ p \in SubscriptionWhitelist
    /\ p \notin Subscribers
    /\ Cardinality(Subscribers) < MaxSubscribers

\* Anyone, once for each whitelist entry.
subscribe_whitelisted(p) ==
    /\ authorize_subscribe_whitelisted(p)
    /\ do_subscribe(p, WhitelistCollections[p])

\* Mutant: the cooldowns are kept.
clear_replay_times_noop(p) == UNCHANGED LastReplayTime

clear_replay_times(p) ==
    LastReplayTime' = [LastReplayTime EXCEPT ![p] =
        [c \in Identifier |-> IF c \in SubscriberInfo[p].collections THEN NoReplay ELSE @[c]]]

\* By the subscriber itself through XCM, or by governance; the message that
\* tells the subscriber of the latter may be lost.
unsubscribe(p) ==
    /\ p \in Subscribers
    /\ clear_replay_times(p)
    /\ Subscribers' = Subscribers \ {p}
    /\ SubscriberInfo' = [SubscriberInfo EXCEPT ![p] = NoInfo]
    /\ PendingInit' = PendingInit \ {p}
    /\ InitState' = [InitState EXCEPT ![p] = NoInit]
    /\ rebuild_subscribed_collections
    /\ \/ /\ BatchActive
          /\ p \in SubscribersWithCurrentBatch
          /\ SubscribersWithCurrentBatch' = SubscribersWithCurrentBatch \ {p}
          /\ UNCHANGED <<CurrentBatch, SealedBatchIndices>>
       \/ /\ BatchActive
          /\ p \notin SubscribersWithCurrentBatch
          /\ Counted(p)
          /\ CurrentBatch.remaining_subscribers > 0
          /\ ServedOne(SubscribersWithCurrentBatch)
       \/ /\ ~ BatchActive \/ (p \notin SubscribersWithCurrentBatch /\ ~ Counted(p))
          /\ UNCHANGED <<CurrentBatch, SealedBatchIndices, SubscribersWithCurrentBatch>>
    /\ behind' = {u \in behind : u[1] # p}
    /\ missed' = {u \in missed : u[1] # p}
    /\ UNCHANGED <<SubscriptionWhitelist, SealedBatchSequence, PageState, PendingUpdates,
                   PageUpdatesCount, provider, now>>

\* Anyone may ask for rings to be sent again; a failed send fails the call.
request_replay(p, c, indices, capacity) ==
    /\ indices # {}
    /\ p \in Subscribers
    /\ c \in SubscriberInfo[p].collections
    /\ \A r \in indices : r < next_ring_index(c)
    /\ capacity > 0
    /\ Cardinality(indices) <= capacity
    /\ \/ LastReplayTime[p][c] = NoReplay
       \/ now - LastReplayTime[p][c] >= ReplayCooldownSeconds
    /\ LastReplayTime' = [LastReplayTime EXCEPT ![p][c] = now]
    /\ behind' = behind \ ({p} \X {c} \X indices)
    /\ missed' = missed \ ({p} \X {c} \X indices)
    /\ UNCHANGED <<Subscribers, SubscriberInfo, SubscriptionWhitelist, SubscribedCollections,
                   SealedBatchSequence, PageState, PendingUpdates, PageUpdatesCount, PendingInit,
                   InitState, SealedBatchIndices, CurrentBatch, SubscribersWithCurrentBatch,
                   provider, now>>

\* Changes of the send page some subscriber still wants.
WantedUpdates == {u \in PendingUpdates[PageState.send_page] : u[1] \in SubscribedCollections}

drain_without_sealing ==
    /\ Subscribers = {} \/ WantedUpdates = {}
    /\ UNCHANGED <<SealedBatchSequence, SealedBatchIndices, CurrentBatch>>

seal_and_start_batch ==
    /\ Subscribers # {} /\ WantedUpdates # {}
    /\ SealedBatchSequence < MaxSequence             \* bound
    /\ now + StuckBatchTimeout <= MaxNow             \* bound: the batch can time out
    /\ SealedBatchSequence' = SealedBatchSequence + 1
    /\ SealedBatchIndices' = [c \in Identifier |-> {r \in RingIndex : <<c, r>> \in WantedUpdates}]
    /\ CurrentBatch' = [sequence |-> SealedBatchSequence + 1,
                        source_time |-> now,
                        sealed_at |-> now,
                        remaining_subscribers |-> Cardinality(Subscribers)]

authorize_enqueue_updates ==
    /\ ~ BatchActive
    /\ has_processable_updates

\* A page that no subscriber is waiting for is drained, any other one sealed.
enqueue_updates ==
    /\ authorize_enqueue_updates
    /\ cleanup_send_buffer
    /\ drain_without_sealing \/ seal_and_start_batch
    /\ UNCHANGED <<Subscribers, SubscriberInfo, SubscriptionWhitelist, SubscribedCollections,
                   PendingInit, InitState, SubscribersWithCurrentBatch, LastReplayTime,
                   provider, now, behind, missed>>

\* Chunks a send_batch to p sends, each by its collection and its number; none
\* without a channel.
ChunksFor(p, limit) ==
    {<<u[2], ChunkOf(u[2], u[3], limit)>> : u \in {v \in BatchFor(p) : limit > 0}}

authorize_send_batch(p) ==
    /\ BatchActive
    /\ CurrentBatch.remaining_subscribers > 0
    /\ p \in Waiting

\* After a failed chunk the other chunks are still sent, and all are again later.
send_batch(p, capacity, failed) ==
    LET delivered == {u \in BatchFor(p) : <<u[2], ChunkOf(u[2], u[3], capacity)>> \notin failed}
    IN  /\ authorize_send_batch(p)
        /\ \/ /\ capacity = 0                        \* no channel: skipped, yet served
              /\ missed' = missed \union (BatchFor(p) \intersect behind)
              /\ UNCHANGED behind
           \/ /\ capacity > 0
              /\ failed \subseteq ChunksFor(p, capacity)
              /\ behind' = behind \ delivered
              /\ missed' = missed \ delivered
        /\ \/ /\ capacity > 0 /\ failed # {}         \* retried by the next worker cycle
              /\ UNCHANGED <<CurrentBatch, SealedBatchIndices, SubscribersWithCurrentBatch>>
           \/ /\ capacity = 0 \/ failed = {}
              /\ ServedOne(SubscribersWithCurrentBatch \union {p})
        /\ UNCHANGED <<Subscribers, SubscriberInfo, SubscriptionWhitelist, SubscribedCollections,
                       SealedBatchSequence, PageState, PendingUpdates, PageUpdatesCount,
                       PendingInit, InitState, LastReplayTime, provider, now>>

\* Collections are sorted: c is the one an initialisation is at.
IsCurrentCollection(p, c) ==
    /\ c \in InitState[p].remaining
    /\ \A d \in InitState[p].remaining : c <= d

\* The cursor moves behind the page, or to the next collection.
advance_init_pagination(p, c, rings, capacity) ==
    \/ /\ Cardinality(rings) = capacity              \* the collection may have more
       /\ \E last \in rings :
            /\ \A r \in rings : Position(r) <= Position(last)
            /\ InitState' = [InitState EXCEPT ![p] =
                                    [InitState[p] EXCEPT !.after_ring_index = last]]
       /\ UNCHANGED PendingInit
    \/ /\ Cardinality(rings) # capacity
       /\ InitState[p].remaining \ {c} # {}
       /\ InitState' = [InitState EXCEPT ![p] =
                            [InitState[p] EXCEPT !.remaining = @ \ {c},
                                                 !.after_ring_index = StartOfCollection]]
       /\ UNCHANGED PendingInit
    \/ /\ Cardinality(rings) # capacity
       /\ InitState[p].remaining \ {c} = {}
       /\ PendingInit' = PendingInit \ {p}
       /\ InitState' = [InitState EXCEPT ![p] = NoInit]

authorize_send_init_page(p) == p \in PendingInit

\* Without a channel, or when the send fails, nothing changes and the next
\* worker cycle tries again: those cases are no step.
send_init_page(p, c, capacity, rings) ==
    /\ authorize_send_init_page(p)
    /\ capacity > 0
    /\ IsCurrentCollection(p, c)
    /\ IsRingPage(rings, c, InitState[p].after_ring_index, capacity)
    /\ advance_init_pagination(p, c, rings, capacity)
    /\ behind' = behind \ ({p} \X {c} \X rings)
    /\ missed' = missed \ ({p} \X {c} \X rings)
    /\ UNCHANGED <<Subscribers, SubscriberInfo, SubscriptionWhitelist, SubscribedCollections,
                   SealedBatchSequence, PageState, PendingUpdates, PageUpdatesCount,
                   SealedBatchIndices, CurrentBatch, SubscribersWithCurrentBatch,
                   LastReplayTime, provider, now>>

\* A subscriber without collections has nothing to be sent.
send_init_page_done(p, capacity) ==
    /\ authorize_send_init_page(p)
    /\ capacity > 0
    /\ InitState[p].remaining = {}
    /\ PendingInit' = PendingInit \ {p}
    /\ InitState' = [InitState EXCEPT ![p] = NoInit]
    /\ UNCHANGED <<Subscribers, SubscriberInfo, SubscriptionWhitelist, SubscribedCollections,
                   SealedBatchSequence, PageState, PendingUpdates, PageUpdatesCount,
                   SealedBatchIndices, CurrentBatch, SubscribersWithCurrentBatch,
                   LastReplayTime, provider, now, behind, missed>>

\* Mutant: a batch that some subscriber received is kept.
authorize_abandon_stuck_batch_unserved ==
    /\ BatchActive
    /\ now - CurrentBatch.sealed_at >= StuckBatchTimeout
    /\ SubscribersWithCurrentBatch = {}

authorize_abandon_stuck_batch ==
    /\ BatchActive
    /\ now - CurrentBatch.sealed_at >= StuckBatchTimeout

abandon_stuck_batch ==
    /\ authorize_abandon_stuck_batch
    /\ clear_batch
    /\ missed' = missed \union {u \in behind : u[1] \in Waiting /\ u \in BatchFor(u[1])}
    /\ UNCHANGED <<Subscribers, SubscriberInfo, SubscriptionWhitelist, SubscribedCollections,
                   SealedBatchSequence, PageState, PendingUpdates, PageUpdatesCount, PendingInit,
                   InitState, LastReplayTime, provider, now, behind>>

-----------------------------------------------------------------------------
(* The members pallet changes roots and reports the change *)

\* Mutant: a change that finds the write page full is dropped.
on_ring_root_change_drops(c, r) ==
    LET page == PageState.write_page
    IN  IF \/ c \notin SubscribedCollections
           \/ <<c, r>> \in PendingUpdates[page]
           \/ PageUpdatesCount[page] >= MaxUpdatesPerBatch
        THEN UNCHANGED <<PageState, PendingUpdates, PageUpdatesCount>>
        ELSE /\ PendingUpdates' = [PendingUpdates EXCEPT ![page] = @ \union {<<c, r>>}]
             /\ PageUpdatesCount' = [PageUpdatesCount EXCEPT ![page] = @ + 1]
             /\ UNCHANGED PageState

\* The hook: buffered on the write page, once for each ring.
on_ring_root_change(c, r) ==
    IF c \notin SubscribedCollections \/ <<c, r>> \in PendingUpdates[PageState.write_page]
    THEN UNCHANGED <<PageState, PendingUpdates, PageUpdatesCount>>
    ELSE LET full == PageUpdatesCount[PageState.write_page] >= MaxUpdatesPerBatch
             page == IF full THEN NextPage(PageState.write_page) ELSE PageState.write_page
         IN  /\ full => page # PageState.send_page   \* bound: not all 2^16 pages are waiting
             /\ PageState' = [PageState EXCEPT !.write_page = page]
             /\ PendingUpdates' = [PendingUpdates EXCEPT ![page] = @ \union {<<c, r>>}]
             /\ PageUpdatesCount' = [PageUpdatesCount EXCEPT ![page] = @ + 1]

\* Parachains that are to hear of a change of the ring.
Audience(c, r) == {u \in Subscribers \X {c} \X {r} : c \in SubscriberInfo[u[1]].collections}

\* A root is built, rebuilt or removed.  A collection marked for deletion builds
\* none; a live one never removes the ring that takes new members.
RingRootChange(c, r, root) ==
    /\ r <= CurrentRingIndex[c]
    /\ \/ root # NoRoot /\ c \notin DeletedCollections
       \/ /\ root = NoRoot /\ Root[c][r] # NoRoot
          /\ r # CurrentRingIndex[c] \/ c \in DeletedCollections
    /\ Root' = [Root EXCEPT ![c][r] = root]
    /\ on_ring_root_change(c, r)
    /\ behind' = behind \union Audience(c, r)
    /\ UNCHANGED <<Subscribers, SubscriberInfo, SubscriptionWhitelist, SubscribedCollections,
                   SealedBatchSequence, PendingInit, InitState, SealedBatchIndices, CurrentBatch,
                   SubscribersWithCurrentBatch, LastReplayTime, DeletedCollections,
                   CurrentRingIndex, now, missed>>

\* The current ring is full: members are taken by the next one.
NextRing(c) ==
    /\ c \notin DeletedCollections
    /\ CurrentRingIndex[c] + 1 \in RingIndex
    /\ CurrentRingIndex' = [CurrentRingIndex EXCEPT ![c] = @ + 1]
    /\ UNCHANGED <<storage, Root, DeletedCollections, now, behind, missed>>

\* delete_collection hides the roots at once and reports nothing; each ring is
\* reported when its own deletion is enqueued.
DeleteCollection(c) ==
    /\ c \notin DeletedCollections
    /\ DeletedCollections' = DeletedCollections \union {c}
    /\ behind' = behind \union UNION {Audience(c, r) : r \in VisibleRings(c)}
    /\ UNCHANGED <<storage, Root, CurrentRingIndex, now, missed>>

\* The last step of a deletion forgets the ring index.
FinalizeCollectionDeletion(c) ==
    /\ c \in DeletedCollections
    /\ \A r \in RingIndex : Root[c][r] = NoRoot
    /\ CurrentRingIndex' = [CurrentRingIndex EXCEPT ![c] = 0]
    /\ UNCHANGED <<storage, Root, DeletedCollections, now, behind, missed>>

Tick ==
    /\ now < MaxNow
    /\ now' = now + 1
    /\ UNCHANGED <<storage, provider, behind, missed>>

-----------------------------------------------------------------------------
Init ==
    /\ Subscribers = {}
    /\ SubscriberInfo = [p \in ParaId |-> NoInfo]
    /\ SubscriptionWhitelist \in {ps \in SUBSET ParaId :
            /\ Cardinality(ps) <= MaxSubscribers
            /\ \A p \in ps : WhitelistCollections[p] \in CollectionLists}
    /\ SubscribedCollections = {}
    /\ SealedBatchSequence = 0
    /\ PageState = [write_page |-> 0, send_page |-> 0, last_update_block |-> 0]
    /\ PendingUpdates = [q \in Page |-> {}]
    /\ PageUpdatesCount = [q \in Page |-> 0]
    /\ PendingInit = {}
    /\ InitState = [p \in ParaId |-> NoInit]
    /\ SealedBatchIndices = [c \in Identifier |-> {}]
    /\ CurrentBatch = NoBatch
    /\ SubscribersWithCurrentBatch = {}
    /\ LastReplayTime = [p \in ParaId |-> [c \in Identifier |-> NoReplay]]
    /\ Root = [c \in Identifier |-> [r \in RingIndex |-> NoRoot]]
    /\ DeletedCollections = {}
    /\ CurrentRingIndex = [c \in Identifier |-> 0]
    /\ now = 0
    /\ behind = {} /\ missed = {}

Provider ==
    \/ \E c \in Identifier, r \in RingIndex, root \in Revision \union {NoRoot} :
            RingRootChange(c, r, root)
    \/ \E c \in Identifier : NextRing(c) \/ DeleteCollection(c) \/ FinalizeCollectionDeletion(c)

Next ==
    \/ \E p \in ParaId : subscribe(p)
    \/ \E p \in ParaId : subscribe_whitelisted(p)
    \/ \E p \in ParaId : unsubscribe(p)
    \/ \E p \in ParaId, c \in Identifier, indices \in SUBSET RingIndex,
          capacity \in ChannelCapacity : request_replay(p, c, indices, capacity)
    \/ enqueue_updates
    \/ \E p \in ParaId, capacity \in ChannelCapacity :
            \E failed \in SUBSET ChunksFor(p, capacity) : send_batch(p, capacity, failed)
    \/ \E p \in ParaId, c \in Identifier, capacity \in ChannelCapacity,
          rings \in SUBSET RingIndex : send_init_page(p, c, capacity, rings)
    \/ \E p \in ParaId, capacity \in ChannelCapacity : send_init_page_done(p, capacity)
    \/ abandon_stuck_batch
    \/ Provider
    \/ Tick

Spec == Init /\ [][Next]_vars

\* Collators run the offchain worker at every interval and blocks keep coming;
\* nothing is assumed of XCM, of the channels or of the users.
FairSpec == Spec /\ WF_vars(Tick) /\ WF_vars(abandon_stuck_batch)

-----------------------------------------------------------------------------
(* Properties *)

TypeOK ==
    /\ Subscribers \subseteq ParaId
    /\ SubscriberInfo \in [ParaId -> [collections : SUBSET Identifier, last_init_sequence : Nat]]
    /\ SubscriptionWhitelist \subseteq ParaId
    /\ SubscribedCollections \subseteq Identifier
    /\ SealedBatchSequence \in Nat
    /\ PageState \in [write_page : Page, send_page : Page, last_update_block : Nat]
    /\ PendingUpdates \in [Page -> SUBSET (Identifier \X RingIndex)]
    /\ PageUpdatesCount \in [Page -> Nat]
    /\ PendingInit \subseteq ParaId
    /\ InitState \in [ParaId -> [remaining : SUBSET Identifier,
                                 after_ring_index : RingIndex \union {StartOfCollection},
                                 sequence : Nat, source_time : Nat]]
    /\ SealedBatchIndices \in [Identifier -> SUBSET RingIndex]
    /\ CurrentBatch \in [sequence : Nat, source_time : Nat, sealed_at : Nat,
                         remaining_subscribers : Nat]
    /\ SubscribersWithCurrentBatch \subseteq ParaId
    /\ LastReplayTime \in [ParaId -> [Identifier -> Int]]
    /\ Root \in [Identifier -> [RingIndex -> Revision \union {NoRoot}]]
    /\ DeletedCollections \subseteq Identifier
    /\ CurrentRingIndex \in [Identifier -> RingIndex]
    /\ now \in Nat
    /\ behind \subseteq ParaId \X Identifier \X RingIndex
    /\ missed \subseteq ParaId \X Identifier \X RingIndex

\* The pallet's own try_state check: the collections whose changes are recorded
\* are those of the subscribers.  A collection missing here loses its changes.
SubscribedCollectionsExact ==
    \A c \in Identifier :
        c \in SubscribedCollections <=>
            \E p \in Subscribers : c \in SubscriberInfo[p].collections

\* remaining_subscribers of the active batch is the number of subscribers that
\* send_batch still accepts, whatever subscribes and unsubscribes meanwhile: were
\* it larger the batch would never end, were it smaller someone would be left out.
\* Nothing of an earlier batch survives it.
BatchAccounting ==
    IF BatchActive
    THEN /\ CurrentBatch.sequence = SealedBatchSequence
         /\ CurrentBatch.remaining_subscribers = Cardinality(Waiting)
         /\ CurrentBatch.remaining_subscribers > 0
         /\ SubscribersWithCurrentBatch \subseteq {p \in Subscribers : Counted(p)}
    ELSE /\ SubscribersWithCurrentBatch = {}
         /\ \A c \in Identifier : SealedBatchIndices[c] = {}

\* Every page fits a batch, so that sealing never truncates and clear_prefix with
\* its limit removes all of it; the counters are right; and pages out of use are
\* empty, so that the write page never moves onto updates that were left behind.
PagesConsistent ==
    /\ \A q \in Page :
        /\ PageUpdatesCount[q] = Cardinality(PendingUpdates[q])
        /\ PageUpdatesCount[q] <= MaxUpdatesPerBatch
        /\ q \notin PagesInUse => PendingUpdates[q] = {}

\* A change is on its way to a subscriber: in the page buffer, in the batch that
\* is being sent, or to be read by a page of the subscriber's initialisation.
Buffered(c, r) == \E q \in PagesInUse : <<c, r>> \in PendingUpdates[q]

InBatch(p, c, r) == BatchActive /\ p \in Waiting /\ r \in SealedBatchIndices[c]

ToInitialise(p, c, r) ==
    /\ p \in PendingInit
    /\ c \in InitState[p].remaining
    /\ VisibleRoot(c, r) # NoRoot
    /\ IsCurrentCollection(p, c) => Position(r) > Position(InitState[p].after_ring_index)

\* The ring is still to be reported by the deletion of its collection.
ToBeDeleted(c, r) == c \in DeletedCollections /\ Root[c][r] # NoRoot

Accounted(u) ==
    /\ u[1] \in Subscribers
    /\ u[2] \in SubscriberInfo[u[1]].collections
    /\ \/ Buffered(u[2], u[3])
       \/ InBatch(u[1], u[2], u[3])
       \/ ToInitialise(u[1], u[2], u[3])
       \/ ToBeDeleted(u[2], u[3])
       \/ u \in missed

\* No change of a ring root gets lost between the hook and the subscribers: what
\* a subscriber has not been sent since it changed is scheduled, or was in a batch
\* that was skipped or abandoned for it, or belongs to a collection that is being
\* deleted and whose ring is still to be reported.
NoSilentLoss == \A u \in behind : Accounted(u)

\* A replay cooldown belongs to a subscription: it never outlives it to delay the
\* replays of the parachain's next subscription.
ReplayTimesOwned ==
    \A p \in ParaId, c \in Identifier :
        LastReplayTime[p][c] # NoReplay => p \in Subscribers /\ c \in SubscriberInfo[p].collections

\* Whatever XCM does, a batch does not block the following ones for ever: it is
\* sent to all or abandoned.
BatchEnds ==
    \A s \in 1 .. MaxSequence : CurrentBatch.sequence = s ~> CurrentBatch.sequence # s

=============================================================================

----------------------- MODULE MembersNotifierProofs -----------------------
(* What holds of the notifier for every number of parachains, collections,  *)
(* rings and limits.                                                        *)
EXTENDS MembersNotifier, FiniteSetTheorems, TLAPS

USE DEF StartOfCollection, NoReplay

LEMMA NextPageType ==
    ASSUME NEW q \in Page PROVE NextPage(q) \in Page
  BY LimitAssumption DEF NextPage, Page

LEMMA PositionType ==
    /\ Position(-1) = -1
    /\ \A r \in RingIndex : Position(r) \in Nat
    /\ \A r, q \in RingIndex : Position(r) = Position(q) => r = q
  BY FiniteAssumption DEF Position

LEMMA FiniteSubset ==
    ASSUME NEW S, IsFiniteSet(S), NEW T \in SUBSET S
    PROVE  IsFiniteSet(T) /\ Cardinality(T) \in Nat /\ Cardinality(T) <= Cardinality(S)
  BY FS_Subset, FS_CardinalityType

BatchTypeOK ==
    /\ CurrentBatch \in [sequence : Nat, source_time : Nat, sealed_at : Nat,
                         remaining_subscribers : Nat]
    /\ SealedBatchIndices \in [Identifier -> SUBSET RingIndex]
    /\ SubscribersWithCurrentBatch \subseteq ParaId

PagesTypeOK ==
    /\ PageState \in [write_page : Page, send_page : Page, last_update_block : Nat]
    /\ PendingUpdates \in [Page -> SUBSET (Identifier \X RingIndex)]
    /\ PageUpdatesCount \in [Page -> Nat]

LEMMA ClearBatchType == clear_batch => BatchTypeOK'
  BY DEF clear_batch, NoBatch, BatchTypeOK

LEMMA ServedOneType ==
    ASSUME BatchTypeOK, NEW served \in SUBSET ParaId, ServedOne(served),
           CurrentBatch.remaining_subscribers > 0
    PROVE  BatchTypeOK'
  <1>1. CASE CurrentBatch.remaining_subscribers = 1
    BY <1>1, ClearBatchType DEF ServedOne
  <1>2. CASE CurrentBatch.remaining_subscribers # 1
    BY <1>2 DEF ServedOne, BatchTypeOK
  <1> QED
    BY <1>1, <1>2

-----------------------------------------------------------------------------
LEMMA TypeInit == Init => TypeOK
  BY FiniteAssumption, LimitAssumption
  DEF Init, TypeOK, NoInfo, NoInit, NoBatch, Page

LEMMA TypeStep == TypeOK /\ [Next]_vars => TypeOK'
  <1> SUFFICES ASSUME TypeOK, [Next]_vars PROVE TypeOK'
    OBVIOUS
  <1> USE FiniteAssumption, LimitAssumption
  <1>1. ASSUME NEW p \in ParaId, NEW cs \in SUBSET Identifier, do_subscribe(p, cs)
        PROVE  TypeOK'
    <2>1. SubscriberInfo' \in [ParaId -> [collections : SUBSET Identifier, last_init_sequence : Nat]]
      BY <1>1 DEF TypeOK, do_subscribe
    <2>2. InitState' \in [ParaId -> [remaining : SUBSET Identifier, after_ring_index : RingIndex \union {-1},
                                     sequence : Nat, source_time : Nat]]
      BY <1>1 DEF TypeOK, do_subscribe
    <2>3. SubscribedCollections' \subseteq Identifier /\ Subscribers' \subseteq ParaId
      BY <1>1, <2>1 DEF TypeOK, do_subscribe, rebuild_subscribed_collections
    <2>4. behind' \subseteq ParaId \X Identifier \X RingIndex
      BY <1>1 DEF TypeOK, do_subscribe
    <2> QED
      BY <1>1, <2>1, <2>2, <2>3, <2>4 DEF TypeOK, do_subscribe, provider
  <1>2. ASSUME NEW p \in ParaId, unsubscribe(p) PROVE TypeOK'
    <2>1. SubscriberInfo' \in [ParaId -> [collections : SUBSET Identifier, last_init_sequence : Nat]]
      BY <1>2 DEF TypeOK, unsubscribe, NoInfo
    <2>2. InitState' \in [ParaId -> [remaining : SUBSET Identifier, after_ring_index : RingIndex \union {-1},
                                     sequence : Nat, source_time : Nat]]
      BY <1>2 DEF TypeOK, unsubscribe, NoInit
    <2>3. SubscribedCollections' \subseteq Identifier /\ Subscribers' \subseteq ParaId
      BY <1>2, <2>1 DEF TypeOK, unsubscribe, rebuild_subscribed_collections
    <2>4. LastReplayTime' \in [ParaId -> [Identifier -> Int]]
      BY <1>2 DEF TypeOK, unsubscribe, clear_replay_times
    <2>5. BatchTypeOK /\ SubscribersWithCurrentBatch \in SUBSET ParaId
      BY DEF TypeOK, BatchTypeOK
    <2>6. BatchTypeOK'
      <3>1. CASE UNCHANGED <<CurrentBatch, SealedBatchIndices, SubscribersWithCurrentBatch>>
        BY <2>5, <3>1 DEF BatchTypeOK
      <3>2. CASE ServedOne(SubscribersWithCurrentBatch) /\ CurrentBatch.remaining_subscribers > 0
        BY <2>5, <3>2, ServedOneType
      <3>3. CASE /\ SubscribersWithCurrentBatch' = SubscribersWithCurrentBatch \ {p}
                 /\ UNCHANGED <<CurrentBatch, SealedBatchIndices>>
        BY <2>5, <3>3 DEF BatchTypeOK
      <3> QED
        BY <1>2, <3>1, <3>2, <3>3 DEF unsubscribe
    <2> QED
      BY <1>2, <2>1, <2>2, <2>3, <2>4, <2>6 DEF TypeOK, BatchTypeOK, unsubscribe, provider
  <1>3. ASSUME NEW p \in ParaId, NEW c \in Identifier, NEW indices \in SUBSET RingIndex,
               NEW capacity \in ChannelCapacity, request_replay(p, c, indices, capacity)
        PROVE  TypeOK'
    BY <1>3 DEF TypeOK, request_replay, provider
  <1>4. ASSUME enqueue_updates PROVE TypeOK'
    <2>1. /\ PageState' \in [write_page : Page, send_page : Page, last_update_block : Nat]
          /\ PendingUpdates' \in [Page -> SUBSET (Identifier \X RingIndex)]
          /\ PageUpdatesCount' \in [Page -> Nat]
      <3>1. /\ PageState.send_page \in Page /\ NextPage(PageState.send_page) \in Page
            /\ PageState.write_page \in Page /\ NextPage(PageState.write_page) \in Page
        BY NextPageType DEF TypeOK
      <3>2. PageState' \in [write_page : Page, send_page : Page, last_update_block : Nat]
        BY <1>4, <3>1 DEF TypeOK, enqueue_updates, cleanup_send_buffer
      <3>3. /\ PendingUpdates' \in [Page -> SUBSET (Identifier \X RingIndex)]
            /\ PageUpdatesCount' \in [Page -> Nat]
        BY <1>4, <3>1 DEF TypeOK, enqueue_updates, cleanup_send_buffer
      <3> QED
        BY <3>2, <3>3
    <2>2. Cardinality(Subscribers) \in Nat
      BY FiniteSubset DEF TypeOK
    <2>3. /\ SealedBatchSequence' \in Nat
          /\ SealedBatchIndices' \in [Identifier -> SUBSET RingIndex]
          /\ CurrentBatch' \in [sequence : Nat, source_time : Nat, sealed_at : Nat,
                                remaining_subscribers : Nat]
      <3>1. CASE drain_without_sealing
        BY <3>1 DEF TypeOK, drain_without_sealing
      <3>2. CASE seal_and_start_batch
        <4>1. SealedBatchIndices' \in [Identifier -> SUBSET RingIndex]
          BY <3>2 DEF seal_and_start_batch
        <4> QED
          BY <2>2, <3>2, <4>1 DEF TypeOK, seal_and_start_batch
      <3> QED
        BY <1>4, <3>1, <3>2 DEF enqueue_updates
    <2> QED
      BY <1>4, <2>1, <2>3 DEF TypeOK, enqueue_updates, provider
  <1>5. ASSUME NEW p \in ParaId, NEW capacity \in ChannelCapacity,
               NEW failed, send_batch(p, capacity, failed)
        PROVE  TypeOK'
    <2>1. BatchTypeOK'
      <3>1. BatchTypeOK /\ SubscribersWithCurrentBatch \union {p} \in SUBSET ParaId
        BY DEF TypeOK, BatchTypeOK
      <3>2. CASE UNCHANGED <<CurrentBatch, SealedBatchIndices, SubscribersWithCurrentBatch>>
        BY <3>1, <3>2 DEF BatchTypeOK
      <3>3. CASE /\ ServedOne(SubscribersWithCurrentBatch \union {p})
                 /\ CurrentBatch.remaining_subscribers > 0
        BY <3>1, <3>3, ServedOneType
      <3> QED
        BY <1>5, <3>2, <3>3 DEF send_batch, authorize_send_batch
    <2>2. /\ behind' \subseteq ParaId \X Identifier \X RingIndex
          /\ missed' \subseteq ParaId \X Identifier \X RingIndex
      BY <1>5 DEF TypeOK, send_batch
    <2> QED
      BY <1>5, <2>1, <2>2 DEF TypeOK, BatchTypeOK, send_batch, provider
  <1>6. ASSUME NEW p \in ParaId, NEW c \in Identifier, NEW capacity \in ChannelCapacity,
               NEW rings \in SUBSET RingIndex, send_init_page(p, c, capacity, rings)
        PROVE  TypeOK'
    <2>1. /\ InitState' \in [ParaId -> [remaining : SUBSET Identifier, after_ring_index : RingIndex \union {-1},
                                        sequence : Nat, source_time : Nat]]
          /\ PendingInit' \subseteq ParaId
      <3>1. PICK init \in [remaining : SUBSET Identifier, after_ring_index : RingIndex \union {-1},
                           sequence : Nat, source_time : Nat] :
                InitState' = [InitState EXCEPT ![p] = init]
        <4>1. InitState[p] \in [remaining : SUBSET Identifier, after_ring_index : RingIndex \union {-1},
                                sequence : Nat, source_time : Nat]
          BY DEF TypeOK
        <4>2. ASSUME NEW last \in rings
              PROVE  [InitState[p] EXCEPT !.after_ring_index = last] \in
                            [remaining : SUBSET Identifier, after_ring_index : RingIndex \union {-1},
                             sequence : Nat, source_time : Nat]
          BY <4>1
        <4>3. [InitState[p] EXCEPT !.remaining = @ \ {c}, !.after_ring_index = StartOfCollection]
                \in [remaining : SUBSET Identifier, after_ring_index : RingIndex \union {-1},
                     sequence : Nat, source_time : Nat]
          <5>1. /\ InitState[p].remaining \ {c} \in SUBSET Identifier
                /\ StartOfCollection \in RingIndex \union {-1}
            BY <4>1
          <5> QED
            BY <4>1, <5>1
        <4>4. NoInit \in [remaining : SUBSET Identifier, after_ring_index : RingIndex \union {-1},
                          sequence : Nat, source_time : Nat]
          BY DEF NoInit
        <4>5. \/ \E last \in rings : InitState' =
                    [InitState EXCEPT ![p] = [InitState[p] EXCEPT !.after_ring_index = last]]
              \/ InitState' = [InitState EXCEPT ![p] =
                    [InitState[p] EXCEPT !.remaining = @ \ {c},
                                         !.after_ring_index = StartOfCollection]]
              \/ InitState' = [InitState EXCEPT ![p] = NoInit]
          BY <1>6, Zenon DEF send_init_page, advance_init_pagination
        <4> QED
          BY <4>2, <4>3, <4>4, <4>5, Zenon
      <3>2. PendingInit' \subseteq ParaId
        BY <1>6 DEF TypeOK, send_init_page, advance_init_pagination
      <3> QED
        BY <3>1, <3>2 DEF TypeOK
    <2> QED
      BY <1>6, <2>1 DEF TypeOK, send_init_page, provider
  <1>7. ASSUME NEW p \in ParaId, NEW capacity \in ChannelCapacity,
               send_init_page_done(p, capacity)
        PROVE  TypeOK'
    BY <1>7 DEF TypeOK, send_init_page_done, provider, NoInit
  <1>8. ASSUME abandon_stuck_batch PROVE TypeOK'
    BY <1>8, ClearBatchType DEF TypeOK, abandon_stuck_batch, BatchTypeOK, BatchFor, provider
  <1>9. ASSUME NEW c \in Identifier, NEW r \in RingIndex, NEW root \in Revision \union {NoRoot},
               RingRootChange(c, r, root)
        PROVE  TypeOK'
    <2>1. /\ PageState' \in [write_page : Page, send_page : Page, last_update_block : Nat]
          /\ PendingUpdates' \in [Page -> SUBSET (Identifier \X RingIndex)]
          /\ PageUpdatesCount' \in [Page -> Nat]
      <3>1. PageState.write_page \in Page /\ NextPage(PageState.write_page) \in Page
        BY NextPageType DEF TypeOK
      <3>2. CASE UNCHANGED <<PageState, PendingUpdates, PageUpdatesCount>>
        BY <3>2 DEF TypeOK
      <3>3. ASSUME NEW page \in Page,
                   PageState' = [PageState EXCEPT !.write_page = page],
                   PendingUpdates' = [PendingUpdates EXCEPT ![page] = @ \union {<<c, r>>}],
                   PageUpdatesCount' = [PageUpdatesCount EXCEPT ![page] = @ + 1]
            PROVE  /\ PageState' \in [write_page : Page, send_page : Page, last_update_block : Nat]
                   /\ PendingUpdates' \in [Page -> SUBSET (Identifier \X RingIndex)]
                   /\ PageUpdatesCount' \in [Page -> Nat]
        <4>1. /\ PageState \in [write_page : Page, send_page : Page, last_update_block : Nat]
              /\ PendingUpdates \in [Page -> SUBSET (Identifier \X RingIndex)]
              /\ PageUpdatesCount \in [Page -> Nat]
          BY DEF TypeOK
        <4> HIDE FiniteAssumption
        <4> QED
          BY <3>3, <4>1
      <3> QED
        BY <1>9, <3>1, <3>2, <3>3 DEF RingRootChange, on_ring_root_change
    <2>2. behind' \subseteq ParaId \X Identifier \X RingIndex
      BY <1>9 DEF TypeOK, RingRootChange, Audience
    <2> QED
      BY <1>9, <2>1, <2>2 DEF TypeOK, RingRootChange
  <1>10. ASSUME NEW c \in Identifier,
                NextRing(c) \/ DeleteCollection(c) \/ FinalizeCollectionDeletion(c)
         PROVE  TypeOK'
    <2>1. CASE NextRing(c)
      BY <2>1 DEF TypeOK, NextRing, storage
    <2>2. CASE DeleteCollection(c)
      <3>1. behind' \subseteq ParaId \X Identifier \X RingIndex
        BY <2>2 DEF TypeOK, DeleteCollection, Audience, VisibleRings
      <3> QED
        BY <2>2, <3>1 DEF TypeOK, DeleteCollection, storage
    <2>3. CASE FinalizeCollectionDeletion(c)
      BY <2>3 DEF TypeOK, FinalizeCollectionDeletion, storage
    <2> QED
      BY <1>10, <2>1, <2>2, <2>3
  <1>11. ASSUME Tick PROVE TypeOK'
    BY <1>11 DEF TypeOK, Tick, storage, provider
  <1>12. ASSUME UNCHANGED vars PROVE TypeOK'
    BY <1>12 DEF TypeOK, vars, storage, provider
  <1>13. ASSUME NEW p \in ParaId, subscribe(p) \/ subscribe_whitelisted(p) PROVE TypeOK'
    BY <1>13, <1>1 DEF subscribe, subscribe_whitelisted, CollectionLists
  <1> QED
    BY <1>2, <1>3, <1>4, <1>5, <1>6, <1>7, <1>8, <1>9, <1>10, <1>11, <1>12, <1>13
    DEF Next, Provider

\* The storage and the history keep their types.
THEOREM TypeCorrect == Spec => []TypeOK
  BY TypeInit, TypeStep, PTL DEF Spec

-----------------------------------------------------------------------------
(* The collections whose changes are recorded *)

LEMMA CollectionsStep ==
    TypeOK /\ SubscribedCollectionsExact /\ [Next]_vars => SubscribedCollectionsExact'
  <1> SUFFICES ASSUME TypeOK, SubscribedCollectionsExact, [Next]_vars
               PROVE  SubscribedCollectionsExact'
    OBVIOUS
  <1>1. CASE rebuild_subscribed_collections
    BY <1>1 DEF rebuild_subscribed_collections, SubscribedCollectionsExact
  <1>2. CASE UNCHANGED <<Subscribers, SubscriberInfo, SubscribedCollections>>
    BY <1>2 DEF SubscribedCollectionsExact
  <1> QED
    BY <1>1, <1>2 DEF Next, Provider, vars, storage, subscribe, subscribe_whitelisted,
        do_subscribe, unsubscribe, request_replay, enqueue_updates, send_batch, send_init_page,
        send_init_page_done, abandon_stuck_batch, RingRootChange, NextRing, DeleteCollection,
        FinalizeCollectionDeletion, Tick

\* The try_state check of the pallet can never fail.
THEOREM CollectionsCorrect == Spec => []SubscribedCollectionsExact
  <1>1. Init => SubscribedCollectionsExact
    BY DEF Init, SubscribedCollectionsExact
  <1> QED
    BY <1>1, CollectionsStep, TypeCorrect, PTL DEF Spec

-----------------------------------------------------------------------------
(* The page buffer *)

\* The page after the write page is out of use unless it is the send page.
LEMMA NextPageFree ==
    ASSUME TypeOK, NextPage(PageState.write_page) # PageState.send_page
    PROVE  NextPage(PageState.write_page) \notin PagesInUse
  BY LimitAssumption DEF TypeOK, NextPage, PagesInUse, Page

LEMMA PagesAfterChange ==
    ASSUME TypeOK, NEW page \in Page,
           PageState' = [PageState EXCEPT !.write_page = page],
           \/ page = PageState.write_page
           \/ page = NextPage(PageState.write_page) /\ page # PageState.send_page
    PROVE  PagesInUse' = PagesInUse \union {page}
  <1>1. /\ PageState'.write_page = page /\ PageState'.send_page = PageState.send_page
        /\ PageState.write_page \in Page /\ PageState.send_page \in Page
    BY DEF TypeOK
  <1>2. CASE page = PageState.write_page
    BY <1>1, <1>2, LimitAssumption DEF PagesInUse, Page
  <1>3. CASE page = NextPage(PageState.write_page) /\ page # PageState.send_page
    BY <1>1, <1>3, LimitAssumption DEF NextPage, PagesInUse, Page
  <1> QED
    BY <1>2, <1>3

LEMMA PagesAfterCleanup ==
    ASSUME TypeOK, cleanup_send_buffer
    PROVE  /\ PageState.send_page # PageState.write_page =>
                PagesInUse' = PagesInUse \ {PageState.send_page}
           /\ PageState.send_page = PageState.write_page =>
                PagesInUse = {PageState.send_page}
  <1>1. /\ PageState.write_page \in Page /\ PageState.send_page \in Page
        /\ PageState'.send_page = NextPage(PageState.send_page)
        /\ PageState'.write_page = IF PageState.send_page = PageState.write_page
                                   THEN NextPage(PageState.write_page) ELSE PageState.write_page
    BY DEF TypeOK, cleanup_send_buffer
  <1> QED
    BY <1>1, LimitAssumption DEF NextPage, PagesInUse, Page

LEMMA PagesStep == TypeOK /\ PagesConsistent /\ [Next]_vars => PagesConsistent'
  <1> SUFFICES ASSUME TypeOK, PagesConsistent, [Next]_vars PROVE PagesConsistent'
    OBVIOUS
  <1>1. ASSUME cleanup_send_buffer PROVE PagesConsistent'
    <2>1. PageState.send_page \in Page
      BY DEF TypeOK
    <2>2. ASSUME NEW q \in Page
          PROVE  /\ PageUpdatesCount'[q] = Cardinality(PendingUpdates'[q])
                 /\ PageUpdatesCount'[q] <= MaxUpdatesPerBatch
      <3>1. CASE q = PageState.send_page
        BY <1>1, <2>1, <3>1, FS_EmptySet, LimitAssumption DEF cleanup_send_buffer, TypeOK
      <3>2. CASE q # PageState.send_page
        BY <1>1, <2>1, <3>2 DEF cleanup_send_buffer, TypeOK, PagesConsistent
      <3> QED
        BY <3>1, <3>2
    <2>3. ASSUME NEW q \in Page, q \notin PagesInUse' PROVE PendingUpdates'[q] = {}
      BY <1>1, <2>1, <2>3, PagesAfterCleanup DEF cleanup_send_buffer, TypeOK, PagesConsistent
    <2> QED
      BY <2>2, <2>3 DEF PagesConsistent
  <1>2. ASSUME NEW c \in Identifier, NEW r \in RingIndex, on_ring_root_change(c, r)
        PROVE  PagesConsistent'
    <2>1. CASE UNCHANGED <<PageState, PendingUpdates, PageUpdatesCount>>
      BY <2>1 DEF PagesConsistent, PagesInUse
    <2>2. ASSUME NEW page \in Page,
                 PageState' = [PageState EXCEPT !.write_page = page],
                 PendingUpdates' = [PendingUpdates EXCEPT ![page] = @ \union {<<c, r>>}],
                 PageUpdatesCount' = [PageUpdatesCount EXCEPT ![page] = @ + 1],
                 <<c, r>> \notin PendingUpdates[page],
                 PageUpdatesCount[page] < MaxUpdatesPerBatch,
                 \/ page = PageState.write_page
                 \/ page = NextPage(PageState.write_page) /\ page # PageState.send_page
          PROVE  PagesConsistent'
      <3>1. PagesInUse' = PagesInUse \union {page}
        BY <2>2, PagesAfterChange
      <3>2. ASSUME NEW q \in Page, q \notin PagesInUse' PROVE PendingUpdates'[q] = {}
        BY <2>2, <3>1, <3>2 DEF TypeOK, PagesConsistent
      <3>3. ASSUME NEW q \in Page
            PROVE  /\ PageUpdatesCount'[q] = Cardinality(PendingUpdates'[q])
                   /\ PageUpdatesCount'[q] <= MaxUpdatesPerBatch
        <4>1. CASE q # page
          BY <2>2, <4>1 DEF TypeOK, PagesConsistent
        <4>2. CASE q = page
          <5>1. IsFiniteSet(PendingUpdates[page])
            <6>1. IsFiniteSet(Identifier \X RingIndex)
              BY FiniteAssumption, FS_Product
            <6> QED
              BY <6>1, FS_Subset DEF TypeOK
          <5>2. Cardinality(PendingUpdates[page] \union {<<c, r>>}) =
                    Cardinality(PendingUpdates[page]) + 1
            BY <2>2, <5>1, FS_AddElement
          <5> QED
            BY <2>2, <4>2, <5>2, LimitAssumption DEF TypeOK, PagesConsistent
        <4> QED
          BY <4>1, <4>2
      <3> QED
        BY <3>2, <3>3 DEF PagesConsistent
    <2>3. PageState.write_page \in Page /\ NextPage(PageState.write_page) \in Page
      BY NextPageType DEF TypeOK
    <2>4. ASSUME NextPage(PageState.write_page) # PageState.send_page
          PROVE  /\ PendingUpdates[NextPage(PageState.write_page)] = {}
                 /\ PageUpdatesCount[NextPage(PageState.write_page)] = 0
      BY <2>3, <2>4, NextPageFree, FS_EmptySet DEF PagesConsistent
    <2>5. CASE c \notin SubscribedCollections \/ <<c, r>> \in PendingUpdates[PageState.write_page]
      BY <1>2, <2>1, <2>5 DEF on_ring_root_change
    <2>6. CASE /\ ~ (c \notin SubscribedCollections
                      \/ <<c, r>> \in PendingUpdates[PageState.write_page])
               /\ PageUpdatesCount[PageState.write_page] >= MaxUpdatesPerBatch
      <3>1. NextPage(PageState.write_page) # PageState.send_page
        BY <1>2, <2>6 DEF on_ring_root_change
      <3> QED
        BY <1>2, <2>2, <2>3, <2>4, <2>6, <3>1, LimitAssumption DEF on_ring_root_change
    <2>7. CASE /\ ~ (c \notin SubscribedCollections
                      \/ <<c, r>> \in PendingUpdates[PageState.write_page])
               /\ ~ (PageUpdatesCount[PageState.write_page] >= MaxUpdatesPerBatch)
      <3>1. PageUpdatesCount[PageState.write_page] < MaxUpdatesPerBatch
        BY <2>3, <2>7, LimitAssumption DEF TypeOK
      <3> QED
        BY <1>2, <2>2, <2>3, <2>7, <3>1 DEF on_ring_root_change
    <2> QED
      BY <2>5, <2>6, <2>7
  <1>3. CASE UNCHANGED <<PageState, PendingUpdates, PageUpdatesCount>>
    BY <1>3 DEF PagesConsistent, PagesInUse
  <1> QED
    BY <1>1, <1>2, <1>3 DEF Next, Provider, vars, storage, subscribe, subscribe_whitelisted,
        do_subscribe, unsubscribe, request_replay, enqueue_updates, send_batch, send_init_page,
        send_init_page_done, abandon_stuck_batch, RingRootChange, NextRing, DeleteCollection,
        FinalizeCollectionDeletion, Tick

\* No page outgrows a batch and no page is reused before it is empty, however the
\* page indices wrap around.
THEOREM PagesCorrect == Spec => []PagesConsistent
  <1>1. Init => PagesConsistent
    BY FS_EmptySet, LimitAssumption DEF Init, PagesConsistent
  <1> QED
    BY <1>1, PagesStep, TypeCorrect, PTL DEF Spec

-----------------------------------------------------------------------------
(* Who is still to receive the batch *)

\* A subscription starts at a sequence number that is already given out.
InitBounded ==
    \A p \in Subscribers : SubscriberInfo[p].last_init_sequence <= SealedBatchSequence

BatchInv == BatchAccounting /\ InitBounded

LEMMA WaitingFinite ==
    ASSUME TypeOK PROVE IsFiniteSet(Waiting) /\ Cardinality(Waiting) \in Nat
  <1>1. Waiting \in SUBSET ParaId
    BY DEF TypeOK, Waiting
  <1> QED
    BY <1>1, FiniteSubset, FiniteAssumption

LEMMA NoneActiveAfterClear ==
    ASSUME clear_batch PROVE BatchAccounting'
  BY DEF clear_batch, BatchAccounting, BatchActive

LEMMA ServedOneAccounting ==
    ASSUME TypeOK, TypeOK', BatchAccounting, BatchActive,
           NEW p \in Waiting, NEW served, ServedOne(served),
           SealedBatchSequence' = SealedBatchSequence,
           Waiting' = Waiting \ {p} \/ CurrentBatch.remaining_subscribers = 1,
           CurrentBatch.remaining_subscribers # 1 =>
                SubscribersWithCurrentBatch' \subseteq {q \in Subscribers' : Counted(q)'}
    PROVE  BatchAccounting'
  <1>1. CASE CurrentBatch.remaining_subscribers = 1
    BY <1>1, NoneActiveAfterClear DEF ServedOne
  <1>2. CASE CurrentBatch.remaining_subscribers # 1
    <2>1. Cardinality(Waiting \ {p}) = Cardinality(Waiting) - 1
      BY WaitingFinite, FS_RemoveElement
    <2>2. CurrentBatch' = [CurrentBatch EXCEPT !.remaining_subscribers = @ - 1]
      BY <1>2 DEF ServedOne
    <2>3. /\ CurrentBatch.remaining_subscribers = Cardinality(Waiting)
          /\ CurrentBatch.remaining_subscribers \in Nat
          /\ CurrentBatch.remaining_subscribers > 1
          /\ CurrentBatch.sequence = SealedBatchSequence
      BY <1>2 DEF BatchAccounting, TypeOK
    <2>4. /\ CurrentBatch'.remaining_subscribers = Cardinality(Waiting')
          /\ CurrentBatch'.remaining_subscribers > 0
          /\ CurrentBatch'.sequence = SealedBatchSequence'
      <3>1. /\ CurrentBatch'.remaining_subscribers = CurrentBatch.remaining_subscribers - 1
            /\ CurrentBatch'.sequence = CurrentBatch.sequence
        BY <2>2 DEF TypeOK
      <3>2. Waiting' = Waiting \ {p}
        BY <1>2
      <3> QED
        BY <2>1, <2>3, <3>1, <3>2
    <2>5. BatchActive'
      BY <2>4 DEF BatchActive, NoBatch, TypeOK
    <2> QED
      BY <1>2, <2>4, <2>5 DEF BatchAccounting
  <1> QED
    BY <1>1, <1>2

LEMMA BatchStep == TypeOK /\ TypeOK' /\ BatchInv /\ [Next]_vars => BatchInv'
  <1> SUFFICES ASSUME TypeOK, TypeOK', BatchInv, [Next]_vars PROVE BatchInv'
    OBVIOUS
  <1> USE FiniteAssumption
  <1>1. ASSUME NEW p \in ParaId, NEW cs \in SUBSET Identifier, do_subscribe(p, cs)
        PROVE  BatchInv'
    <2>1. /\ \A q \in Subscribers : q # p /\ SubscriberInfo'[q] = SubscriberInfo[q]
          /\ SubscriberInfo'[p].last_init_sequence = SealedBatchSequence
          /\ Subscribers' = Subscribers \union {p}
      BY <1>1 DEF do_subscribe, TypeOK
    <2>2. InitBounded'
      BY <1>1, <2>1 DEF BatchInv, InitBounded, do_subscribe, TypeOK
    <2>3. BatchActive => Waiting' = Waiting
      BY <1>1, <2>1 DEF Waiting, Counted, do_subscribe, BatchInv, BatchAccounting, TypeOK
    <2>4. \A q \in Subscribers : Counted(q)' = Counted(q)
      BY <1>1, <2>1 DEF Counted, do_subscribe
    <2>5. BatchAccounting'
      BY <1>1, <2>1, <2>3, <2>4 DEF do_subscribe, BatchInv, BatchAccounting, BatchActive
    <2> QED
      BY <2>2, <2>5 DEF BatchInv
  <1>2. ASSUME NEW p \in ParaId, unsubscribe(p) PROVE BatchInv'
    <2>1. /\ \A q \in Subscribers' : q # p /\ SubscriberInfo'[q] = SubscriberInfo[q]
          /\ Subscribers' = Subscribers \ {p}
          /\ SealedBatchSequence' = SealedBatchSequence
          /\ p \in Subscribers
      BY <1>2 DEF unsubscribe, TypeOK
    <2>2. InitBounded'
      BY <2>1 DEF BatchInv, InitBounded, TypeOK
    <2>3. CASE BatchActive /\ p \in SubscribersWithCurrentBatch
      <3>1. /\ SubscribersWithCurrentBatch' = SubscribersWithCurrentBatch \ {p}
            /\ UNCHANGED <<CurrentBatch, SealedBatchIndices>>
        BY <1>2, <2>3 DEF unsubscribe
      <3>2. \A q \in Subscribers' : Counted(q)' = Counted(q)
        BY <2>1, <3>1 DEF Counted
      <3>3. Waiting' = Waiting
        BY <2>1, <2>3, <3>1, <3>2 DEF Waiting
      <3> QED
        BY <2>1, <2>2, <3>1, <3>2, <3>3 DEF BatchInv, BatchAccounting, BatchActive
    <2>4. CASE BatchActive /\ p \notin SubscribersWithCurrentBatch /\ Counted(p)
      <3>1. ServedOne(SubscribersWithCurrentBatch) /\ p \in Waiting
        BY <1>2, <2>1, <2>4 DEF unsubscribe, Waiting
      <3>2. CASE CurrentBatch.remaining_subscribers # 1
        <4>1. /\ CurrentBatch'.sequence = CurrentBatch.sequence
              /\ SubscribersWithCurrentBatch' = SubscribersWithCurrentBatch
          BY <3>1, <3>2 DEF ServedOne, TypeOK
        <4>2. \A q \in Subscribers' : Counted(q)' = Counted(q)
          BY <2>1, <4>1 DEF Counted
        <4>3. Waiting' = Waiting \ {p}
          BY <2>1, <4>1, <4>2 DEF Waiting
        <4>4. SubscribersWithCurrentBatch' \subseteq {q \in Subscribers' : Counted(q)'}
          BY <2>1, <2>4, <4>1, <4>2 DEF BatchInv, BatchAccounting
        <4> QED
          BY <2>1, <2>2, <2>4, <3>1, <4>3, <4>4, ServedOneAccounting DEF BatchInv
      <3>3. CASE CurrentBatch.remaining_subscribers = 1
        BY <2>1, <2>2, <2>4, <3>1, <3>3, ServedOneAccounting DEF BatchInv
      <3> QED
        BY <3>2, <3>3
    <2>5. CASE ~ BatchActive \/ (p \notin SubscribersWithCurrentBatch /\ ~ Counted(p))
      <3>1. UNCHANGED <<CurrentBatch, SealedBatchIndices, SubscribersWithCurrentBatch>>
        BY <1>2, <2>5 DEF unsubscribe, BatchInv, BatchAccounting
      <3>2. \A q \in Subscribers' : Counted(q)' = Counted(q)
        BY <2>1, <3>1 DEF Counted
      <3>3. BatchActive => Waiting' = Waiting
        BY <2>1, <2>5, <3>1, <3>2 DEF Waiting
      <3>4. BatchActive => p \notin SubscribersWithCurrentBatch
        BY <2>5
      <3> QED
        BY <2>1, <2>2, <3>1, <3>2, <3>3, <3>4 DEF BatchInv, BatchAccounting, BatchActive
    <2> QED
      BY <2>3, <2>4, <2>5
  <1>3. ASSUME enqueue_updates PROVE BatchInv'
    <2>1. CASE drain_without_sealing
      BY <1>3, <2>1 DEF enqueue_updates, drain_without_sealing, BatchInv, BatchAccounting,
            InitBounded, BatchActive, Waiting, Counted
    <2>2. CASE seal_and_start_batch
      <3>1. /\ ~ BatchActive /\ Subscribers # {}
            /\ UNCHANGED <<Subscribers, SubscriberInfo, SubscribersWithCurrentBatch>>
        BY <1>3, <2>2 DEF enqueue_updates, seal_and_start_batch, authorize_enqueue_updates
      <3>2. /\ SealedBatchSequence' = SealedBatchSequence + 1
            /\ CurrentBatch'.sequence = SealedBatchSequence + 1
            /\ CurrentBatch'.remaining_subscribers = Cardinality(Subscribers)
        BY <2>2 DEF seal_and_start_batch
      <3>3. /\ SubscribersWithCurrentBatch = {}
            /\ \A p \in Subscribers : Counted(p)'
        BY <3>1, <3>2 DEF BatchInv, BatchAccounting, InitBounded, Counted, TypeOK
      <3>4. Waiting' = Subscribers
        BY <3>1, <3>3 DEF Waiting
      <3>5. Cardinality(Subscribers) \in Nat /\ Cardinality(Subscribers) # 0
        BY <3>1, FiniteSubset, FS_EmptySet DEF TypeOK
      <3>6. BatchActive'
        BY <3>2 DEF BatchActive, NoBatch, TypeOK
      <3>7. InitBounded'
        BY <3>1, <3>2 DEF InitBounded, BatchInv, TypeOK
      <3> QED
        BY <3>1, <3>2, <3>3, <3>4, <3>5, <3>6, <3>7 DEF BatchInv, BatchAccounting
    <2> QED
      BY <1>3, <2>1, <2>2 DEF enqueue_updates
  <1>4. CASE UNCHANGED <<Subscribers, SubscriberInfo, SealedBatchSequence, CurrentBatch,
                         SealedBatchIndices, SubscribersWithCurrentBatch>>
    BY <1>4 DEF BatchInv, BatchAccounting, InitBounded, BatchActive, Waiting, Counted
  <1>5. ASSUME NEW p \in ParaId, NEW capacity, NEW failed, send_batch(p, capacity, failed)
        PROVE  BatchInv'
    <2>1. /\ UNCHANGED <<Subscribers, SubscriberInfo, SealedBatchSequence>>
          /\ p \in Waiting /\ BatchActive
      BY <1>5 DEF send_batch, authorize_send_batch
    <2>2. CASE UNCHANGED <<CurrentBatch, SealedBatchIndices, SubscribersWithCurrentBatch>>
      BY <1>4, <2>1, <2>2
    <2>3. CASE ServedOne(SubscribersWithCurrentBatch \union {p})
      <3>1. InitBounded'
        BY <2>1 DEF BatchInv, InitBounded
      <3>2. CASE CurrentBatch.remaining_subscribers # 1
        <4>1. /\ CurrentBatch'.sequence = CurrentBatch.sequence
              /\ SubscribersWithCurrentBatch' = SubscribersWithCurrentBatch \union {p}
          BY <2>3, <3>2 DEF ServedOne, TypeOK
        <4>2. \A q \in Subscribers' : Counted(q)' = Counted(q)
          BY <2>1, <4>1 DEF Counted
        <4>3. Waiting' = Waiting \ {p}
          BY <2>1, <4>1, <4>2 DEF Waiting
        <4>4. SubscribersWithCurrentBatch' \subseteq {q \in Subscribers' : Counted(q)'}
          BY <2>1, <4>1, <4>2 DEF BatchInv, BatchAccounting, Waiting
        <4> QED
          BY <2>1, <2>3, <3>1, <4>3, <4>4, ServedOneAccounting DEF BatchInv
      <3>3. CASE CurrentBatch.remaining_subscribers = 1
        BY <2>1, <2>3, <3>1, <3>3, ServedOneAccounting DEF BatchInv
      <3> QED
        BY <3>2, <3>3
    <2> QED
      BY <1>5, <2>2, <2>3 DEF send_batch
  <1>6. ASSUME abandon_stuck_batch PROVE BatchInv'
    <2>1. BatchAccounting'
      BY <1>6, NoneActiveAfterClear DEF abandon_stuck_batch
    <2> QED
      BY <1>6, <2>1 DEF abandon_stuck_batch, BatchInv, InitBounded
  <1>7. ASSUME NEW p \in ParaId, subscribe(p) \/ subscribe_whitelisted(p) PROVE BatchInv'
    BY <1>7, <1>1 DEF subscribe, subscribe_whitelisted, CollectionLists
  <1> QED
    BY <1>2, <1>3, <1>4, <1>5, <1>6, <1>7
    DEF Next, Provider, vars, storage, request_replay, send_init_page,
        send_init_page_done, RingRootChange, NextRing, DeleteCollection,
        FinalizeCollectionDeletion, Tick

\* The batch counter is the number of subscribers still to be served, for every
\* order of subscriptions, cancellations, sends, failures and time-outs.
THEOREM BatchCorrect == Spec => []BatchAccounting
  <1>1. Init => BatchInv
    BY FS_EmptySet DEF Init, BatchInv, BatchAccounting, InitBounded, BatchActive
  <1>2. BatchInv => BatchAccounting
    BY DEF BatchInv
  <1> QED
    BY <1>1, <1>2, BatchStep, TypeCorrect, PTL DEF Spec

-----------------------------------------------------------------------------
(* No change is lost *)

LEMMA LastWaiting ==
    ASSUME TypeOK, Cardinality(Waiting) = 1, NEW p \in Waiting PROVE Waiting = {p}
  BY WaitingFinite, FS_Singleton

\* What is accounted for stays so when nothing it rests on changes.
LEMMA AccountedFrame ==
    ASSUME NEW u, Accounted(u), u \in missed => u \in missed',
           UNCHANGED <<Subscribers, SubscriberInfo, PageState, PendingUpdates, CurrentBatch,
                       SubscribersWithCurrentBatch, SealedBatchIndices, PendingInit, InitState,
                       Root, DeletedCollections>>
    PROVE  Accounted(u)'
  BY DEF Accounted, Buffered, InBatch, ToInitialise, ToBeDeleted, PagesInUse, BatchActive,
         Waiting, Counted, VisibleRoot, IsCurrentCollection

\* Serving one subscriber leaves the others in the batch.
LEMMA StillInBatch ==
    ASSUME TypeOK, BatchInv, BatchActive, NEW p \in Waiting, NEW served, ServedOne(served),
           served \subseteq SubscribersWithCurrentBatch \union {p},
           NEW q \in Waiting, q # p, q \in Subscribers',
           SubscriberInfo'[q] = SubscriberInfo[q]
    PROVE  BatchActive' /\ q \in Waiting' /\ SealedBatchIndices' = SealedBatchIndices
  <1>1. CurrentBatch.remaining_subscribers # 1
    BY LastWaiting DEF BatchInv, BatchAccounting
  <1>2. /\ CurrentBatch'.sequence = CurrentBatch.sequence
        /\ CurrentBatch'.remaining_subscribers = CurrentBatch.remaining_subscribers - 1
        /\ SubscribersWithCurrentBatch' = served
        /\ SealedBatchIndices' = SealedBatchIndices
    BY <1>1 DEF ServedOne, TypeOK
  <1>3. CurrentBatch.remaining_subscribers \in Nat /\ CurrentBatch.remaining_subscribers > 0
    BY DEF BatchInv, BatchAccounting, TypeOK
  <1>4. CurrentBatch'.remaining_subscribers # 0
    BY <1>1, <1>2, <1>3
  <1>5. BatchActive'
    BY <1>4 DEF BatchActive, NoBatch
  <1> QED
    BY <1>2, <1>5 DEF Waiting, Counted

LEMMA LossSubscribe ==
    ASSUME TypeOK, NoSilentLoss, NEW p \in ParaId, NEW cs \in SUBSET Identifier,
           do_subscribe(p, cs), NEW u \in behind'
    PROVE  Accounted(u)'
  <1>1. /\ p \notin Subscribers
        /\ SubscriberInfo'[p].collections = cs
        /\ \A q \in ParaId : q # p => SubscriberInfo'[q] = SubscriberInfo[q]
        /\ \A q \in ParaId : q # p => InitState'[q] = InitState[q]
        /\ InitState'[p].remaining = cs /\ InitState'[p].after_ring_index = -1
    BY DEF do_subscribe, TypeOK
  <1>2. CASE u \in behind
    <2>1. Accounted(u) /\ u[1] \in ParaId /\ u[1] # p
      BY <1>1, <1>2 DEF NoSilentLoss, Accounted, TypeOK
    <2>2. InBatch(u[1], u[2], u[3]) => InBatch(u[1], u[2], u[3])'
      BY <1>1, <2>1 DEF InBatch, do_subscribe, BatchActive, Waiting, Counted
    <2>3. ToInitialise(u[1], u[2], u[3]) => ToInitialise(u[1], u[2], u[3])'
      BY <1>1, <2>1 DEF ToInitialise, do_subscribe, VisibleRoot, IsCurrentCollection, provider
    <2>4. /\ Buffered(u[2], u[3]) => Buffered(u[2], u[3])'
          /\ ToBeDeleted(u[2], u[3]) => ToBeDeleted(u[2], u[3])'
      BY DEF Buffered, ToBeDeleted, PagesInUse, do_subscribe, provider
    <2>5. /\ u[1] \in Subscribers' /\ SubscriberInfo'[u[1]] = SubscriberInfo[u[1]]
          /\ missed' = missed
      BY <1>1, <2>1 DEF do_subscribe, Accounted
    <2> QED
      BY <2>1, <2>2, <2>3, <2>4, <2>5 DEF Accounted
  <1>3. CASE u \notin behind
    <2>1. /\ u \in {p} \X cs \X RingIndex
          /\ VisibleRoot(u[2], u[3]) # NoRoot
      BY <1>3 DEF do_subscribe
    <2>2. u[1] = p /\ u[2] \in cs /\ u[3] \in RingIndex
      BY <2>1
    <2>3. Position(u[3]) \in Nat /\ Position(-1) = -1
      BY <2>2, PositionType
    <2>4. Position(u[3]) > Position(-1)
      BY <2>3
    <2>5. UNCHANGED provider
      BY DEF do_subscribe
    <2>6. VisibleRoot(u[2], u[3])' # NoRoot
      BY <2>1, <2>5 DEF provider, VisibleRoot
    <2> QED
      BY <1>1, <2>2, <2>4, <2>6 DEF Accounted, ToInitialise, do_subscribe
  <1> QED
    BY <1>2, <1>3

LEMMA LossUnsubscribe ==
    ASSUME TypeOK, NoSilentLoss, BatchInv, NEW p \in ParaId, unsubscribe(p), NEW u \in behind'
    PROVE  Accounted(u)'
  <1>1. /\ u \in behind /\ u[1] # p /\ u[1] \in ParaId /\ Accounted(u)
        /\ u \in missed => u \in missed'
    BY DEF unsubscribe, NoSilentLoss, TypeOK
  <1>2. /\ SubscriberInfo'[u[1]] = SubscriberInfo[u[1]]
        /\ InitState'[u[1]] = InitState[u[1]]
        /\ u[1] \in Subscribers => u[1] \in Subscribers'
        /\ u[1] \in PendingInit => u[1] \in PendingInit'
        /\ UNCHANGED <<PageState, PendingUpdates, provider>>
    BY <1>1 DEF unsubscribe, TypeOK
  <1>3. ASSUME InBatch(u[1], u[2], u[3]) PROVE InBatch(u[1], u[2], u[3])'
    <2>1. CASE /\ UNCHANGED <<CurrentBatch, SealedBatchIndices>>
               /\ SubscribersWithCurrentBatch' \subseteq SubscribersWithCurrentBatch
      BY <1>1, <1>2, <1>3, <2>1 DEF InBatch, BatchActive, Waiting, Counted
    <2>2. CASE /\ ServedOne(SubscribersWithCurrentBatch)
               /\ BatchActive /\ p \in Waiting
      <3>1. u[1] \in Waiting /\ u[1] \in Subscribers'
        BY <1>2, <1>3 DEF InBatch, Waiting
      <3> QED
        BY <1>1, <1>2, <1>3, <2>2, <3>1, StillInBatch DEF InBatch
    <2> QED
      BY <2>1, <2>2 DEF unsubscribe, Waiting
  <1>4. ToInitialise(u[1], u[2], u[3]) => ToInitialise(u[1], u[2], u[3])'
    BY <1>2 DEF ToInitialise, VisibleRoot, IsCurrentCollection, provider
  <1>5. /\ Buffered(u[2], u[3]) => Buffered(u[2], u[3])'
        /\ ToBeDeleted(u[2], u[3]) => ToBeDeleted(u[2], u[3])'
    BY <1>2 DEF Buffered, ToBeDeleted, PagesInUse, provider
  <1> QED
    BY <1>1, <1>2, <1>3, <1>4, <1>5 DEF Accounted

LEMMA LossEnqueue ==
    ASSUME TypeOK, NoSilentLoss, BatchInv, SubscribedCollectionsExact, enqueue_updates,
           NEW u \in behind'
    PROVE  Accounted(u)'
  <1>1. /\ u \in behind /\ Accounted(u) /\ u[1] \in ParaId /\ u[2] \in Identifier
        /\ u[3] \in RingIndex
        /\ UNCHANGED <<Subscribers, SubscriberInfo, PendingInit, InitState, provider, missed>>
    BY DEF enqueue_updates, NoSilentLoss, TypeOK
  <1>2. ~ InBatch(u[1], u[2], u[3])
    BY DEF InBatch, enqueue_updates, authorize_enqueue_updates
  <1>3. ToInitialise(u[1], u[2], u[3]) => ToInitialise(u[1], u[2], u[3])'
    BY <1>1 DEF ToInitialise, VisibleRoot, IsCurrentCollection, provider
  <1>4. ToBeDeleted(u[2], u[3]) => ToBeDeleted(u[2], u[3])'
    BY <1>1 DEF ToBeDeleted, provider
  <1>5. ASSUME NEW q \in PagesInUse, <<u[2], u[3]>> \in PendingUpdates[q]
        PROVE  Buffered(u[2], u[3])' \/ InBatch(u[1], u[2], u[3])'
    <2>1. CASE q = PageState.send_page
      <3>1. <<u[2], u[3]>> \in WantedUpdates /\ Subscribers # {}
        BY <1>1, <1>5, <2>1 DEF WantedUpdates, SubscribedCollectionsExact, Accounted
      <3>2. seal_and_start_batch
        BY <3>1 DEF enqueue_updates, drain_without_sealing
      <3>3. /\ u[3] \in SealedBatchIndices'[u[2]]
            /\ CurrentBatch'.sequence = SealedBatchSequence + 1
        BY <1>1, <3>1, <3>2 DEF seal_and_start_batch
      <3>4. BatchActive'
        BY <3>3 DEF BatchActive, NoBatch, TypeOK
      <3>5. u[1] \in Waiting'
        <4>1. SubscribersWithCurrentBatch' = {}
          BY DEF enqueue_updates, authorize_enqueue_updates, BatchInv, BatchAccounting
        <4>2. Counted(u[1])'
          BY <1>1, <3>3 DEF Counted, Accounted, BatchInv, InitBounded, TypeOK
        <4> QED
          BY <1>1, <4>1, <4>2 DEF Waiting, Accounted
      <3> QED
        BY <3>3, <3>4, <3>5 DEF InBatch
    <2>2. CASE q # PageState.send_page
      <3>1. q \in PagesInUse'
        BY <1>5, <2>2, PagesAfterCleanup DEF enqueue_updates
      <3>2. PendingUpdates'[q] = PendingUpdates[q]
        BY <2>2 DEF enqueue_updates, cleanup_send_buffer, TypeOK, PagesInUse
      <3> QED
        BY <1>5, <3>1, <3>2 DEF Buffered
    <2> QED
      BY <2>1, <2>2
  <1> QED
    BY <1>1, <1>2, <1>3, <1>4, <1>5 DEF Accounted, Buffered

LEMMA LossSendBatch ==
    ASSUME TypeOK, NoSilentLoss, BatchInv, NEW p \in ParaId, NEW capacity, NEW failed,
           send_batch(p, capacity, failed), NEW u \in behind'
    PROVE  Accounted(u)'
  <1>1. /\ UNCHANGED <<Subscribers, SubscriberInfo, PageState, PendingUpdates, PendingInit,
                       InitState, provider>>
        /\ p \in Waiting /\ BatchActive
    BY DEF send_batch, authorize_send_batch
  <1>2. u \in behind
    BY DEF send_batch
  <1>3. Accounted(u) /\ u \in ParaId \X Identifier \X RingIndex
    BY <1>2 DEF NoSilentLoss, TypeOK
  <1>4. u \in missed => u \in missed'
    BY DEF send_batch
  <1>5. ASSUME InBatch(u[1], u[2], u[3]), u[1] = p
        PROVE  InBatch(u[1], u[2], u[3])' \/ u \in missed'
    <2>1. u \in {p} \X SubscriberInfo[p].collections \X RingIndex
      BY <1>3, <1>5 DEF Accounted
    <2>2. u \in BatchFor(p)
      BY <1>5, <2>1 DEF BatchFor, InBatch
    <2>3. CASE capacity = 0
      BY <1>2, <2>2, <2>3 DEF send_batch
    <2>4. CASE capacity # 0 /\ failed = {}
      BY <2>2, <2>4 DEF send_batch
    <2>5. CASE capacity # 0 /\ failed # {}
      <3>1. UNCHANGED <<CurrentBatch, SealedBatchIndices, SubscribersWithCurrentBatch>>
        BY <2>5 DEF send_batch
      <3> QED
        BY <1>1, <1>5, <3>1 DEF InBatch, BatchActive, Waiting, Counted
    <2> QED
      BY <2>3, <2>4, <2>5
  <1>6. ASSUME InBatch(u[1], u[2], u[3]), u[1] # p
        PROVE  InBatch(u[1], u[2], u[3])'
    <2>1. CASE UNCHANGED <<CurrentBatch, SealedBatchIndices, SubscribersWithCurrentBatch>>
      BY <1>1, <1>6, <2>1 DEF InBatch, BatchActive, Waiting, Counted
    <2>2. CASE ServedOne(SubscribersWithCurrentBatch \union {p})
      <3>1. u[1] \in Waiting /\ u[1] \in Subscribers'
        BY <1>1, <1>6 DEF InBatch, Waiting
      <3> QED
        BY <1>1, <1>6, <2>2, <3>1, StillInBatch DEF InBatch
    <2> QED
      BY <2>1, <2>2 DEF send_batch
  <1>7. ToInitialise(u[1], u[2], u[3]) => ToInitialise(u[1], u[2], u[3])'
    BY <1>1 DEF ToInitialise, VisibleRoot, IsCurrentCollection, provider
  <1>8. /\ Buffered(u[2], u[3]) => Buffered(u[2], u[3])'
        /\ ToBeDeleted(u[2], u[3]) => ToBeDeleted(u[2], u[3])'
    BY <1>1 DEF Buffered, ToBeDeleted, PagesInUse, provider
  <1> QED
    BY <1>1, <1>3, <1>4, <1>5, <1>6, <1>7, <1>8 DEF Accounted

\* The page of an initialisation takes the first rings in order: one it leaves out
\* comes after the last it took, and then the page was full.
LEMMA LossInitPage ==
    ASSUME TypeOK, NoSilentLoss, NEW p \in ParaId, NEW c \in Identifier,
           NEW capacity \in Nat, NEW rings \in SUBSET RingIndex,
           send_init_page(p, c, capacity, rings), NEW u \in behind'
    PROVE  Accounted(u)'
  <1>1. /\ UNCHANGED <<Subscribers, SubscriberInfo, PageState, PendingUpdates, CurrentBatch,
                       SealedBatchIndices, SubscribersWithCurrentBatch, provider>>
        /\ u \in behind /\ u \notin {p} \X {c} \X rings
        /\ u \in missed => u \in missed'
    BY DEF send_init_page
  <1>2. Accounted(u) /\ u \in ParaId \X Identifier \X RingIndex
    BY <1>1 DEF NoSilentLoss, TypeOK
  <1>3. u[1] = p /\ u[2] = c => u[3] \notin rings
    BY <1>1, <1>2
  <1>4. VisibleRoot(u[2], u[3])' = VisibleRoot(u[2], u[3])
    BY <1>1 DEF VisibleRoot, provider
  <1>5. ASSUME ToInitialise(u[1], u[2], u[3]), u[1] # p PROVE ToInitialise(u[1], u[2], u[3])'
    <2>1. InitState'[u[1]] = InitState[u[1]] /\ u[1] \in PendingInit'
      BY <1>2, <1>5 DEF send_init_page, advance_init_pagination, ToInitialise, TypeOK
    <2> QED
      BY <1>4, <1>5, <2>1 DEF ToInitialise, IsCurrentCollection
  <1>6. ASSUME ToInitialise(u[1], u[2], u[3]), u[1] = p PROVE ToInitialise(u[1], u[2], u[3])'
    <2> DEFINE st == InitState[p]
    <2>1. /\ p \in PendingInit /\ u[2] \in st.remaining /\ VisibleRoot(u[2], u[3]) # NoRoot
          /\ IsCurrentCollection(p, c) /\ c \in st.remaining
          /\ \A d \in st.remaining : c <= d
          /\ u[3] \in RingIndex /\ u[2] \in Int /\ c \in Int
      BY <1>2, <1>6, FiniteAssumption DEF ToInitialise, send_init_page, IsCurrentCollection, TypeOK
    <2>2. CASE Cardinality(rings) = capacity
      <3>1. PICK last \in rings :
                /\ \A r \in rings : Position(r) <= Position(last)
                /\ InitState' = [InitState EXCEPT ![p] = [st EXCEPT !.after_ring_index = last]]
        BY <2>2 DEF send_init_page, advance_init_pagination
      <3>2. /\ InitState'[p].remaining = st.remaining
            /\ InitState'[p].after_ring_index = last
            /\ PendingInit' = PendingInit
        BY <2>2, <3>1 DEF TypeOK, send_init_page, advance_init_pagination
      <3>3. /\ last \in RingIndex
            /\ Position(last) \in Nat /\ Position(u[3]) \in Nat
            /\ Position(u[3]) = Position(last) => u[3] = last
        BY <2>1, <3>1, PositionType
      <3>4. ASSUME u[2] = c PROVE Position(u[3]) > Position(last)
        <4>1. Position(u[3]) > Position(st.after_ring_index)
          BY <1>6, <2>1, <3>4 DEF ToInitialise
        <4>2. u[3] \in VisibleRings(c)
          BY <1>2, <2>1, <3>4 DEF VisibleRings
        <4>3. Position(u[3]) < Position(last) => u[3] \in rings
          BY <3>1, <4>1, <4>2 DEF send_init_page, IsRingPage
        <4> QED
          BY <1>3, <1>6, <2>1, <3>1, <3>3, <3>4, <4>3
      <3>5. ASSUME u[2] # c PROVE ~ IsCurrentCollection(p, u[2])'
        <4>1. c \in InitState'[p].remaining /\ c <= u[2]
          BY <2>1, <3>2
        <4>2. ~ (u[2] <= c)
          BY <2>1, <3>5, <4>1
        <4> QED
          BY <4>1, <4>2 DEF IsCurrentCollection
      <3> QED
        BY <1>4, <1>6, <2>1, <3>2, <3>4, <3>5 DEF ToInitialise
    <2>3. CASE Cardinality(rings) # capacity
      <3>1. rings = {r \in VisibleRings(c) : Position(r) > Position(st.after_ring_index)}
        BY <2>3 DEF send_init_page, IsRingPage
      <3>2. u[2] # c
        <4>1. ASSUME u[2] = c PROVE FALSE
          <5>1. Position(u[3]) > Position(st.after_ring_index)
            BY <1>6, <2>1, <4>1 DEF ToInitialise
          <5>2. u[3] \in VisibleRings(c)
            BY <1>2, <2>1, <4>1 DEF VisibleRings
          <5> QED
            BY <1>3, <1>6, <3>1, <4>1, <5>1, <5>2
        <4> QED
          BY <4>1
      <3>3. st.remaining \ {c} # {}
        BY <2>1, <3>2
      <3>4. /\ InitState' = [InitState EXCEPT ![p] =
                                [st EXCEPT !.remaining = @ \ {c}, !.after_ring_index = -1]]
            /\ PendingInit' = PendingInit
        BY <2>3, <3>3 DEF send_init_page, advance_init_pagination
      <3>5. /\ InitState'[p].remaining = st.remaining \ {c}
            /\ InitState'[p].after_ring_index = -1
        BY <3>4 DEF TypeOK
      <3>6. Position(u[3]) > Position(-1)
        BY <2>1, PositionType
      <3> QED
        BY <1>4, <1>6, <2>1, <3>2, <3>4, <3>5, <3>6 DEF ToInitialise
    <2> QED
      BY <2>2, <2>3
  <1>7. /\ Buffered(u[2], u[3]) => Buffered(u[2], u[3])'
        /\ ToBeDeleted(u[2], u[3]) => ToBeDeleted(u[2], u[3])'
    BY <1>1 DEF Buffered, ToBeDeleted, PagesInUse, provider
  <1>8. InBatch(u[1], u[2], u[3]) => InBatch(u[1], u[2], u[3])'
    BY <1>1 DEF InBatch, BatchActive, Waiting, Counted
  <1> QED
    BY <1>1, <1>2, <1>5, <1>6, <1>7, <1>8 DEF Accounted

LEMMA LossInitDone ==
    ASSUME TypeOK, NoSilentLoss, NEW p \in ParaId, NEW capacity,
           send_init_page_done(p, capacity), NEW u \in behind'
    PROVE  Accounted(u)'
  <1>1. /\ UNCHANGED <<Subscribers, SubscriberInfo, PageState, PendingUpdates, CurrentBatch,
                       SealedBatchIndices, SubscribersWithCurrentBatch, provider, missed>>
        /\ u \in behind /\ Accounted(u) /\ u[1] \in ParaId
    BY DEF send_init_page_done, NoSilentLoss, TypeOK
  <1>2. ASSUME ToInitialise(u[1], u[2], u[3]) PROVE ToInitialise(u[1], u[2], u[3])'
    <2>1. u[1] # p
      BY <1>2 DEF ToInitialise, send_init_page_done
    <2>2. InitState'[u[1]] = InitState[u[1]] /\ u[1] \in PendingInit'
      BY <1>1, <1>2, <2>1 DEF send_init_page_done, ToInitialise, TypeOK
    <2> QED
      BY <1>1, <1>2, <2>2 DEF ToInitialise, IsCurrentCollection, VisibleRoot, provider
  <1>3. /\ Buffered(u[2], u[3]) => Buffered(u[2], u[3])'
        /\ ToBeDeleted(u[2], u[3]) => ToBeDeleted(u[2], u[3])'
        /\ InBatch(u[1], u[2], u[3]) => InBatch(u[1], u[2], u[3])'
    BY <1>1 DEF Buffered, ToBeDeleted, PagesInUse, provider, InBatch, BatchActive, Waiting, Counted
  <1> QED
    BY <1>1, <1>2, <1>3 DEF Accounted

LEMMA LossAbandon ==
    ASSUME TypeOK, NoSilentLoss, abandon_stuck_batch, NEW u \in behind'
    PROVE  Accounted(u)'
  <1>1. /\ UNCHANGED <<Subscribers, SubscriberInfo, PageState, PendingUpdates, PendingInit,
                       InitState, provider>>
        /\ u \in behind /\ Accounted(u) /\ u \in ParaId \X Identifier \X RingIndex
    BY DEF abandon_stuck_batch, NoSilentLoss, TypeOK
  <1>2. ASSUME InBatch(u[1], u[2], u[3]) PROVE u \in missed'
    <2>1. u \in {u[1]} \X SubscriberInfo[u[1]].collections \X RingIndex
      BY <1>1 DEF Accounted
    <2>2. u \in BatchFor(u[1]) /\ u[1] \in Waiting
      BY <1>2, <2>1 DEF BatchFor, InBatch
    <2> QED
      BY <1>1, <2>2 DEF abandon_stuck_batch
  <1>3. u \in missed => u \in missed'
    BY DEF abandon_stuck_batch
  <1>4. /\ ToInitialise(u[1], u[2], u[3]) => ToInitialise(u[1], u[2], u[3])'
        /\ Buffered(u[2], u[3]) => Buffered(u[2], u[3])'
        /\ ToBeDeleted(u[2], u[3]) => ToBeDeleted(u[2], u[3])'
    BY <1>1 DEF ToInitialise, VisibleRoot, IsCurrentCollection, provider, Buffered, ToBeDeleted,
                PagesInUse
  <1> QED
    BY <1>1, <1>2, <1>3, <1>4 DEF Accounted

\* The hook buffers the change whichever page it finds to write to.
LEMMA ChangeBuffered ==
    ASSUME TypeOK, NEW c \in Identifier, NEW r \in RingIndex, on_ring_root_change(c, r)
    PROVE  /\ c \in SubscribedCollections => Buffered(c, r)'
           /\ \A d, s : Buffered(d, s) => Buffered(d, s)'
  <1> DEFINE write == PageState.write_page
  <1>0. write \in Page /\ PageState.send_page \in Page
    BY DEF TypeOK
  <1>1. CASE c \notin SubscribedCollections \/ <<c, r>> \in PendingUpdates[write]
    <2>1. UNCHANGED <<PageState, PendingUpdates>>
      BY <1>1 DEF on_ring_root_change
    <2>2. write \in PagesInUse
      BY <1>0 DEF PagesInUse, Page
    <2>3. PagesInUse' = PagesInUse
      BY <2>1 DEF PagesInUse
    <2> QED
      BY <1>1, <2>1, <2>2, <2>3 DEF Buffered
  <1>2. CASE ~ (c \notin SubscribedCollections \/ <<c, r>> \in PendingUpdates[write])
    <2> DEFINE full == PageUpdatesCount[write] >= MaxUpdatesPerBatch
               page == IF full THEN NextPage(write) ELSE write
    <2>1. /\ full => page # PageState.send_page
          /\ PageState' = [PageState EXCEPT !.write_page = page]
          /\ PendingUpdates' = [PendingUpdates EXCEPT ![page] = @ \union {<<c, r>>}]
      BY <1>2 DEF on_ring_root_change
    <2>2. page \in Page
      BY <1>0, NextPageType
    <2>3. page = write \/ (page = NextPage(write) /\ page # PageState.send_page)
      BY <2>1
    <2> HIDE DEF page, full
    <2>4. PagesInUse' = PagesInUse \union {page}
      BY <2>1, <2>2, <2>3, PagesAfterChange
    <2>5. /\ <<c, r>> \in PendingUpdates'[page]
          /\ \A q \in Page : PendingUpdates[q] \subseteq PendingUpdates'[q]
      BY <2>1, <2>2 DEF TypeOK
    <2>6. PagesInUse \subseteq Page
      BY DEF PagesInUse
    <2> QED
      BY <2>4, <2>5, <2>6 DEF Buffered
  <1> QED
    BY <1>1, <1>2

LEMMA LossRootChange ==
    ASSUME TypeOK, NoSilentLoss, SubscribedCollectionsExact, NEW c \in Identifier,
           NEW r \in RingIndex, NEW root, RingRootChange(c, r, root), NEW u \in behind'
    PROVE  Accounted(u)'
  <1>1. /\ UNCHANGED <<Subscribers, SubscriberInfo, CurrentBatch, SealedBatchIndices,
                       SubscribersWithCurrentBatch, PendingInit, InitState, missed,
                       DeletedCollections>>
        /\ Root' = [Root EXCEPT ![c][r] = root]
        /\ on_ring_root_change(c, r)
        /\ behind' = behind \union Audience(c, r)
    BY DEF RingRootChange
  <1>2. /\ u[1] \in Subscribers
        /\ u[2] \in SubscriberInfo[u[1]].collections
        /\ u[2] \in Identifier
        /\ u \in behind \/ (u[2] = c /\ u[3] = r)
    <2>1. CASE u \in behind
      BY <2>1 DEF NoSilentLoss, Accounted, TypeOK
    <2>2. CASE u \in Audience(c, r)
      BY <2>2 DEF Audience
    <2> QED
      BY <1>1, <2>1, <2>2
  <1>3. CASE u[2] = c /\ u[3] = r
    <2>1. c \in SubscribedCollections
      BY <1>2, <1>3 DEF SubscribedCollectionsExact
    <2>2. Buffered(u[2], u[3])'
      BY <1>1, <1>3, <2>1, ChangeBuffered
    <2> QED
      BY <1>1, <1>2, <2>2 DEF Accounted
  <1>4. CASE ~ (u[2] = c /\ u[3] = r)
    <2>1. Accounted(u) /\ u[3] \in RingIndex
      BY <1>2, <1>4 DEF NoSilentLoss, TypeOK
    <2>2. Root'[u[2]][u[3]] = Root[u[2]][u[3]]
      BY <1>1, <1>2, <1>4, <2>1 DEF TypeOK
    <2>3. Buffered(u[2], u[3]) => Buffered(u[2], u[3])'
      BY <1>1, ChangeBuffered
    <2>4. /\ InBatch(u[1], u[2], u[3]) => InBatch(u[1], u[2], u[3])'
          /\ ToInitialise(u[1], u[2], u[3]) => ToInitialise(u[1], u[2], u[3])'
          /\ ToBeDeleted(u[2], u[3]) => ToBeDeleted(u[2], u[3])'
      BY <1>1, <2>2 DEF InBatch, BatchActive, Waiting, Counted, ToInitialise, VisibleRoot,
            IsCurrentCollection, ToBeDeleted
    <2> QED
      BY <1>1, <2>1, <2>3, <2>4 DEF Accounted
  <1> QED
    BY <1>3, <1>4

LEMMA LossDeleteCollection ==
    ASSUME TypeOK, NoSilentLoss, NEW c \in Identifier, DeleteCollection(c), NEW u \in behind'
    PROVE  Accounted(u)'
  <1>1. UNCHANGED <<storage, Root, missed>> /\ DeletedCollections' = DeletedCollections \union {c}
    BY DEF DeleteCollection
  <1>2. CASE u \in behind
    <2>1. Accounted(u)
      BY <1>2 DEF NoSilentLoss
    <2>2. ToInitialise(u[1], u[2], u[3]) =>
              ToInitialise(u[1], u[2], u[3])' \/ ToBeDeleted(u[2], u[3])'
      BY <1>1 DEF ToInitialise, ToBeDeleted, VisibleRoot, IsCurrentCollection, storage
    <2>3. /\ Buffered(u[2], u[3]) => Buffered(u[2], u[3])'
          /\ InBatch(u[1], u[2], u[3]) => InBatch(u[1], u[2], u[3])'
          /\ ToBeDeleted(u[2], u[3]) => ToBeDeleted(u[2], u[3])'
      BY <1>1 DEF Buffered, PagesInUse, InBatch, BatchActive, Waiting, Counted, ToBeDeleted, storage
    <2> QED
      BY <1>1, <2>1, <2>2, <2>3 DEF Accounted, storage
  <1>3. CASE u \notin behind
    <2>1. PICK r \in VisibleRings(c) : u \in Audience(c, r)
      BY <1>3 DEF DeleteCollection
    <2>2. u[1] \in Subscribers /\ u[2] = c /\ u[3] = r /\ c \in SubscriberInfo[u[1]].collections
      BY <2>1 DEF Audience
    <2>3. Root[c][r] # NoRoot
      BY <2>1 DEF VisibleRings, VisibleRoot
    <2>4. ToBeDeleted(u[2], u[3])'
      BY <1>1, <2>2, <2>3 DEF ToBeDeleted
    <2> QED
      BY <1>1, <2>2, <2>4 DEF Accounted, storage
  <1> QED
    BY <1>2, <1>3

LEMMA LossStep ==
    TypeOK /\ SubscribedCollectionsExact /\ BatchInv /\ NoSilentLoss /\ [Next]_vars
        => NoSilentLoss'
  <1> SUFFICES ASSUME TypeOK, SubscribedCollectionsExact, BatchInv, NoSilentLoss, [Next]_vars,
                      NEW u \in behind'
               PROVE  Accounted(u)'
    BY DEF NoSilentLoss
  <1>1. ASSUME NEW p \in ParaId, subscribe(p) \/ subscribe_whitelisted(p) PROVE Accounted(u)'
    BY <1>1, LossSubscribe, FiniteAssumption DEF subscribe, subscribe_whitelisted, CollectionLists
  <1>2. ASSUME NEW p \in ParaId, NEW c, NEW indices, NEW capacity,
               request_replay(p, c, indices, capacity)
        PROVE  Accounted(u)'
    <2>1. u \in behind /\ (u \in missed => u \in missed')
      BY <1>2 DEF request_replay
    <2> QED
      BY <1>2, <2>1, AccountedFrame DEF request_replay, provider, NoSilentLoss
  <1>3. ASSUME NEW p \in ParaId, NEW capacity \in ChannelCapacity, NEW failed,
               send_batch(p, capacity, failed)
        PROVE  Accounted(u)'
    BY <1>3, LossSendBatch
  <1>4. ASSUME NEW p \in ParaId, NEW c \in Identifier, NEW capacity \in ChannelCapacity,
               NEW rings \in SUBSET RingIndex, send_init_page(p, c, capacity, rings)
        PROVE  Accounted(u)'
    BY <1>4, LossInitPage, LimitAssumption
  <1>5. CASE \/ Tick \/ UNCHANGED vars
             \/ \E c \in Identifier : NextRing(c) \/ FinalizeCollectionDeletion(c)
    <2>1. /\ UNCHANGED <<storage, Root, DeletedCollections, missed>>
          /\ u \in behind
      BY <1>5 DEF Tick, NextRing, FinalizeCollectionDeletion, vars, provider
    <2> QED
      BY <2>1, AccountedFrame DEF storage, NoSilentLoss
  <1>6. ASSUME NEW p \in ParaId, unsubscribe(p) PROVE Accounted(u)'
    BY <1>6, LossUnsubscribe
  <1>7. ASSUME NEW p \in ParaId, NEW capacity, send_init_page_done(p, capacity)
        PROVE  Accounted(u)'
    BY <1>7, LossInitDone
  <1>8. ASSUME Provider PROVE Accounted(u)'
    BY <1>5, <1>8, LossRootChange, LossDeleteCollection DEF Provider
  <1> QED
    BY <1>1, <1>2, <1>3, <1>4, <1>5, <1>6, <1>7, <1>8, LossEnqueue, LossAbandon DEF Next

\* No change of a ring root is lost between the hook and the subscribers, for any
\* number of parachains, collections, rings, pages and channel sizes.
THEOREM LossCorrect == Spec => []NoSilentLoss
  <1>1. Init => NoSilentLoss /\ BatchInv
    BY FS_EmptySet DEF Init, NoSilentLoss, BatchInv, BatchAccounting, InitBounded, BatchActive
  <1> QED
    BY <1>1, LossStep, BatchStep, TypeCorrect, CollectionsCorrect, PTL DEF Spec

-----------------------------------------------------------------------------
(* Replay cooldowns *)

LEMMA ReplayStep == TypeOK /\ ReplayTimesOwned /\ [Next]_vars => ReplayTimesOwned'
  <1> SUFFICES ASSUME TypeOK, ReplayTimesOwned, [Next]_vars,
                      NEW p \in ParaId, NEW c \in Identifier, LastReplayTime'[p][c] # NoReplay
               PROVE  p \in Subscribers' /\ c \in SubscriberInfo'[p].collections
    BY DEF ReplayTimesOwned
  <1>1. CASE UNCHANGED <<LastReplayTime, Subscribers, SubscriberInfo>>
    BY <1>1 DEF ReplayTimesOwned
  <1>2. ASSUME NEW q \in ParaId, NEW cs, do_subscribe(q, cs)
        PROVE  p \in Subscribers' /\ c \in SubscriberInfo'[p].collections
    <2>1. p \in Subscribers /\ c \in SubscriberInfo[p].collections /\ q \notin Subscribers
      BY <1>2 DEF do_subscribe, ReplayTimesOwned
    <2> QED
      BY <1>2, <2>1 DEF do_subscribe, TypeOK
  <1>3. ASSUME NEW q \in ParaId, unsubscribe(q)
        PROVE  p \in Subscribers' /\ c \in SubscriberInfo'[p].collections
    <2>1. /\ Subscribers' = Subscribers \ {q}
          /\ p # q => SubscriberInfo'[p] = SubscriberInfo[p]
          /\ LastReplayTime' = [LastReplayTime EXCEPT ![q] =
                [d \in Identifier |->
                    IF d \in SubscriberInfo[q].collections THEN NoReplay ELSE @[d]]]
      BY <1>3 DEF unsubscribe, clear_replay_times, TypeOK
    <2>2. CASE p # q
      BY <2>1, <2>2 DEF ReplayTimesOwned, TypeOK
    <2>3. CASE p = q
      <3>1. LastReplayTime'[p][c] = IF c \in SubscriberInfo[p].collections
                                    THEN NoReplay ELSE LastReplayTime[p][c]
        BY <2>1, <2>3 DEF TypeOK
      <3> QED
        BY <3>1 DEF ReplayTimesOwned
    <2> QED
      BY <2>2, <2>3
  <1>4. ASSUME NEW q \in ParaId, NEW d \in Identifier, NEW indices, NEW capacity,
               request_replay(q, d, indices, capacity)
        PROVE  p \in Subscribers' /\ c \in SubscriberInfo'[p].collections
    <2>1. /\ UNCHANGED <<Subscribers, SubscriberInfo>>
          /\ q \in Subscribers /\ d \in SubscriberInfo[q].collections
          /\ LastReplayTime' = [LastReplayTime EXCEPT ![q][d] = now]
      BY <1>4 DEF request_replay
    <2>2. CASE p = q /\ c = d
      BY <2>1, <2>2
    <2>3. CASE ~ (p = q /\ c = d)
      <3>1. LastReplayTime'[p][c] = LastReplayTime[p][c]
        BY <2>1, <2>3 DEF TypeOK
      <3> QED
        BY <2>1, <3>1 DEF ReplayTimesOwned
    <2> QED
      BY <2>2, <2>3
  <1> QED
    BY <1>1, <1>2, <1>3, <1>4
    DEF Next, Provider, vars, storage, subscribe, subscribe_whitelisted, enqueue_updates,
        send_batch, send_init_page, send_init_page_done, abandon_stuck_batch, RingRootChange,
        NextRing, DeleteCollection, FinalizeCollectionDeletion, Tick

\* A cooldown never outlives the subscription it was set for.
THEOREM ReplayCorrect == Spec => []ReplayTimesOwned
  <1>1. Init => ReplayTimesOwned
    BY DEF Init, ReplayTimesOwned
  <1> QED
    BY <1>1, ReplayStep, TypeCorrect, PTL DEF Spec

=============================================================================

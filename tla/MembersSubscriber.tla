-------------------------- MODULE MembersSubscriber --------------------------
(***************************************************************************)
(* pallets/members-subscriber: the pallet of a subscriber chain that keeps *)
(* the ring roots the notifier sends, so that proofs of personhood can be  *)
(* verified locally.  Roots are stored under a generation number: clearing *)
(* them starts a new generation and a purge removes the old entries later. *)
(* Ring indices that never arrived are found by a scan and requested again *)
(* from the notifier, a limited number of times.                           *)
(*                                                                         *)
(* The notifier is the environment here: batches have any content and any  *)
(* sequence number.  A call that returns an error, or that ignores a batch,*)
(* changes nothing and is no step.  Root values are determined by their    *)
(* collection, ring and revision, and are left out.                        *)
(***************************************************************************)
EXTENDS SubscriberState

-----------------------------------------------------------------------------
(* Types and empty values *)

RingIndex == 0 .. RingCount - 1
Generation == 0 .. MaxGeneration
Sequence == 0 .. MaxSequence

NoPurge == -1
NotMissing == -1

\* A window that is empty is an absent entry.
NoWindows == [r \in RingIndex |-> <<>>]

NoState == [ring_count |-> 0, next_ring_index |-> 0, next_scan_index |-> 0,
            missing_indices |-> [r \in RingIndex |-> NotMissing], deleted_indices |-> {},
            last_batch_received_time |-> 0]

NoStates == [c \in Identifier |-> NoState]

NoProcessing == [last_processed_sequence |-> 0, last_replay_request_time |-> 0]

Inactive == [status |-> "Inactive", initialized_at_sequence |-> 0]
Terminated == [status |-> "Terminated", initialized_at_sequence |-> 0]
Active(sequence) == [status |-> "Active", initialized_at_sequence |-> sequence]
IsActive == Subscription.status = "Active"

\* RingRootUpdatesBatch; the updates of a batch are of different rings, in ring order.
Batch(indices) ==
    [identifier : Identifier, sequence : Sequence, source_time : 0 .. MaxNow,
     next_ring_index : 0 .. RingCount, updates : [indices -> Revision \union {Deleted}]]

-----------------------------------------------------------------------------
(* Reading the storage *)

current_ring_roots(c, r) == RingRoots[CurrentGeneration][c][r]

Stored(c) == {r \in RingIndex : current_ring_roots(c, r) # <<>>}

Missing(c) == {r \in RingIndex : RingCollectionStates[c].missing_indices[r] # NotMissing}

\* The newest root never expires, a superseded one does after its successor's time.
is_window_record_retained(window, i) ==
    i = Len(window) \/ now < window[i + 1].source_time + OldRootRetentionDuration

\* What verify_membership and is_revision_valid accept.
is_revision_valid(c, r, revision) ==
    LET window == current_ring_roots(c, r)
    IN  \E i \in 1 .. Len(window) :
            window[i].revision = revision /\ is_window_record_retained(window, i)

-----------------------------------------------------------------------------
(* Helpers *)

\* Mutant: the purge jumps to the generation cleared last.
clear_all_ring_data_requeues ==
    /\ CurrentGeneration < MaxGeneration
    /\ CurrentGeneration' = CurrentGeneration + 1
    /\ QueuedRingPurge' = CurrentGeneration

\* Entries of old generations stay where they are and are purged later, the
\* oldest generation first.
clear_all_ring_data ==
    /\ CurrentGeneration < MaxGeneration            \* bound
    /\ CurrentGeneration' = CurrentGeneration + 1
    /\ QueuedRingPurge' = IF QueuedRingPurge = NoPurge THEN CurrentGeneration ELSE QueuedRingPurge

Built(updates) == {r \in DOMAIN updates : updates[r] # Deleted}
Gone(updates) == {r \in DOMAIN updates : updates[r] = Deleted}

\* Mutant: a replayed revision is stored again.
WindowAfter_duplicates(window, revision, source_time) ==
    Append(IF Len(window) >= MaxRecentRootsPerRing THEN Tail(window) ELSE window,
           [revision |-> revision, source_time |-> source_time])

\* A revision already in the window is skipped, the oldest record makes room.
WindowAfter(window, revision, source_time) ==
    IF \E i \in 1 .. Len(window) : window[i].revision = revision
    THEN window
    ELSE Append(IF Len(window) >= MaxRecentRootsPerRing THEN Tail(window) ELSE window,
                [revision |-> revision, source_time |-> source_time])

WindowsAfter(windows, batch) ==
    [r \in RingIndex |->
        IF r \in Built(batch.updates)
        THEN WindowAfter(windows[r], batch.updates[r], batch.source_time)
        ELSE IF r \in Gone(batch.updates) THEN <<>> ELSE windows[r]]

\* The deletions of a batch that find room in deleted_indices, in ring order.
IsTracked(tracked, deleted, updates) ==
    \A r \in Gone(updates) :
        r \in tracked <=>
            \/ r \in deleted
            \/ Cardinality((deleted \ {q \in Built(updates) : q < r})
                              \union {q \in tracked : q < r}) < MaxDeletedRingsPerCollection

\* The frontier covers every index of the batch.
FrontierAfter(frontier, batch) ==
    LET bounds == {frontier, batch.next_ring_index} \union {r + 1 : r \in DOMAIN batch.updates}
    IN  {f \in bounds : \A b \in bounds : b <= f}

\* Mutant: a ring that is built again stays deleted.
DeletedAfter_keeps_built(state, updates, tracked) == state.deleted_indices \union tracked

DeletedAfter(state, updates, tracked) ==
    (state.deleted_indices \ Built(updates)) \union tracked

MissingAfter(state, updates) ==
    [r \in RingIndex |-> IF r \in DOMAIN updates THEN NotMissing ELSE state.missing_indices[r]]

CollectionAfter(state, windows, batch, frontier, tracked) ==
    [ring_count |-> state.ring_count
        + Cardinality({r \in Built(batch.updates) : windows[r] = <<>>})
        - Cardinality({r \in Gone(batch.updates) : windows[r] # <<>>}),
     next_ring_index |-> frontier,
     next_scan_index |-> state.next_scan_index,
     missing_indices |-> MissingAfter(state, batch.updates),
     deleted_indices |-> DeletedAfter(state, batch.updates, tracked),
     last_batch_received_time |-> now]

\* History: an index below the cursor whose deletion found no room.
GivenUpAfter(before, batch, state, tracked) ==
    {u \in before : ~ (u[1] = batch.identifier /\ u[2] \in DOMAIN batch.updates)}
        \union ({batch.identifier} \X
                    {r \in Gone(batch.updates) \ tracked : r < state.next_scan_index})

\* The batch is stored under generation g; `states' and `before' are the states of
\* the collections and the history it finds.
store_ring_roots(batch, g, states, before) ==
    LET c == batch.identifier
        windows == RingRoots[g][c]
    IN  \E tracked \in SUBSET Gone(batch.updates),
           frontier \in FrontierAfter(states[c].next_ring_index, batch) :
            /\ IsTracked(tracked, states[c].deleted_indices, batch.updates)
            /\ RingCollectionStates' = [states EXCEPT ![c] =
                    CollectionAfter(states[c], windows, batch, frontier, tracked)]
            /\ RingRoots' = [RingRoots EXCEPT ![g] =
                    [RingRoots[g] EXCEPT ![c] = WindowsAfter(windows, batch)]]
            /\ given_up' = GivenUpAfter(before, batch, states[c], tracked)

-----------------------------------------------------------------------------
(* Calls *)

\* A lower sequence than that of the active subscription is refused, the same one
\* continues the initialisation.
continues_initialization(batch) ==
    IsActive => batch.sequence = Subscription.initialized_at_sequence

\* A higher sequence drops everything and starts again.
restarts_initialization(batch) ==
    IsActive /\ batch.sequence > Subscription.initialized_at_sequence

has_room_for(c) ==
    c \in RingCollectionExponents \/ Cardinality(RingCollectionExponents) < MaxCollections

initialize_ring_roots(batch) ==
    LET c == batch.identifier
    IN  /\ \/ /\ continues_initialization(batch)
              /\ has_room_for(c)
              /\ store_ring_roots(batch, CurrentGeneration, RingCollectionStates, given_up)
              /\ RingCollectionExponents' = RingCollectionExponents \union {c}
              /\ ProcessingState' = [ProcessingState EXCEPT
                                        !.last_processed_sequence = batch.sequence]
              /\ UNCHANGED <<CurrentGeneration, QueuedRingPurge>>
           \/ /\ restarts_initialization(batch)
              /\ clear_all_ring_data
              /\ store_ring_roots(batch, CurrentGeneration + 1, NoStates, {})
              /\ RingCollectionExponents' = {c}
              /\ ProcessingState' = [NoProcessing EXCEPT
                                        !.last_processed_sequence = batch.sequence]
        /\ Subscription' = Active(batch.sequence)
        /\ UNCHANGED now

accepts_ring_updates(batch) ==
    /\ IsActive
    /\ batch.sequence >= ProcessingState.last_processed_sequence
    /\ batch.identifier \in RingCollectionExponents

process_ring_updates(batch) ==
    /\ accepts_ring_updates(batch)
    /\ store_ring_roots(batch, CurrentGeneration, RingCollectionStates, given_up)
    /\ ProcessingState' = [ProcessingState EXCEPT !.last_processed_sequence = batch.sequence]
    /\ UNCHANGED <<CurrentGeneration, QueuedRingPurge, RingCollectionExponents, Subscription, now>>

\* By the notifier, or by local governance: then the notifier is told, and a
\* failure to tell it is only logged.
terminate_subscription ==
    /\ IsActive
    /\ clear_all_ring_data
    /\ RingCollectionStates' = NoStates
    /\ RingCollectionExponents' = {}
    /\ ProcessingState' = NoProcessing
    /\ Subscription' = Terminated
    /\ given_up' = {}
    /\ UNCHANGED <<RingRoots, now>>

authorize_replay_missing_roots(c, indices) ==
    /\ IsActive
    /\ now - ProcessingState.last_replay_request_time >= ReplayCooldownSeconds
    /\ indices \intersect Missing(c) # {}

\* Indices whose attempts reach the threshold are dropped, the others requested.
Abandoned(c, indices) ==
    {r \in indices \intersect Missing(c) :
        RingCollectionStates[c].missing_indices[r] + 1 >= ReplayAbandonThreshold}

ToSend(c, indices) == (indices \intersect Missing(c)) \ Abandoned(c, indices)

\* Requests go out in chunks, in ring order, until one fails: `sent' are the indices
\* of the chunks before it.
IsSent(sent, to_send) ==
    /\ sent \subseteq to_send
    /\ \A r \in sent, q \in to_send : q < r => q \in sent
    /\ sent = to_send \/ Cardinality(sent) % MaxUpdatesPerBatch = 0

\* The indices were read by the offchain worker, possibly some blocks ago.
replay_missing_roots(c, indices, sent) ==
    LET dropped == Abandoned(c, indices)
    IN  /\ authorize_replay_missing_roots(c, indices)
        /\ IsSent(sent, ToSend(c, indices))
        /\ RingCollectionStates' = [RingCollectionStates EXCEPT ![c] =
                [RingCollectionStates[c] EXCEPT !.missing_indices =
                    [r \in RingIndex |->
                        IF r \in dropped THEN NotMissing
                        ELSE RingCollectionStates[c].missing_indices[r]
                                + (IF r \in ToSend(c, indices) THEN 1 ELSE 0)]]]
        /\ ProcessingState' = IF sent = {} THEN ProcessingState
                              ELSE [ProcessingState EXCEPT !.last_replay_request_time = now]
        /\ given_up' = given_up \union ({c} \X dropped)
        /\ UNCHANGED <<roots, RingCollectionExponents, Subscription, now>>

authorize_purge_stale_ring_roots ==
    QueuedRingPurge # NoPurge /\ QueuedRingPurge < CurrentGeneration

Entries(g) == {u \in Identifier \X RingIndex : RingRoots[g][u[1]][u[2]] # <<>>}

next_purge(g) == IF g + 1 < CurrentGeneration THEN g + 1 ELSE NoPurge

\* A page of entries goes; after the last page the next old generation is queued.
purge_stale_ring_roots(removed) ==
    LET g == QueuedRingPurge
    IN  /\ authorize_purge_stale_ring_roots
        /\ removed \subseteq Entries(g)
        /\ removed = Entries(g) \/ Cardinality(removed) = PurgePageSize
        /\ Cardinality(removed) <= PurgePageSize
        /\ RingRoots' = [RingRoots EXCEPT ![g] =
                [c \in Identifier |-> [r \in RingIndex |->
                    IF <<c, r>> \in removed THEN <<>> ELSE RingRoots[g][c][r]]]]
        /\ QueuedRingPurge' = IF removed # Entries(g) THEN g ELSE next_purge(g)
        /\ UNCHANGED <<CurrentGeneration, RingCollectionStates, RingCollectionExponents,
                       Subscription, ProcessingState, now, given_up>>

authorize_detect_missing_rings(c) ==
    LET state == RingCollectionStates[c]
    IN  /\ IsActive
        /\ now - state.last_batch_received_time >= GapScanCooldownSeconds
        /\ state.next_scan_index < state.next_ring_index
        /\ Cardinality(state.deleted_indices) < MaxDeletedRingsPerCollection
        /\ Cardinality(Missing(c)) < MaxMissingRootsPerCollection

\* Mutant: off by one.
accounted_for_all_but_one(state) ==
    state.ring_count + Cardinality(state.deleted_indices) + 1 >= state.next_ring_index

\* Every index below the frontier is stored or deleted.
accounted_for(state) ==
    state.ring_count + Cardinality(state.deleted_indices) >= state.next_ring_index

\* The scan stops at `cursor': at the end of its page, or at the first gap that
\* missing_indices has no room for.
detect_missing_rings(c, cursor) ==
    LET state == RingCollectionStates[c]
        gaps == {r \in RingIndex : r >= state.next_scan_index
                                    /\ r \notin Stored(c) /\ r \notin state.deleted_indices}
        found == {r \in gaps : r < cursor}
        room == MaxMissingRootsPerCollection - Cardinality(Missing(c))
    IN  /\ authorize_detect_missing_rings(c)
        /\ \/ /\ accounted_for(state)
              /\ cursor = state.next_ring_index
              /\ RingCollectionStates' = [RingCollectionStates EXCEPT ![c] =
                    [state EXCEPT !.missing_indices = [r \in RingIndex |-> NotMissing],
                                  !.next_scan_index = cursor]]
           \/ /\ ~ accounted_for(state)
              /\ cursor \in state.next_scan_index .. state.next_ring_index
              /\ cursor <= state.next_scan_index + MaxGapScanPerCall
              /\ \/ /\ \/ cursor = state.next_ring_index
                       \/ cursor = state.next_scan_index + MaxGapScanPerCall
                    /\ Cardinality(found) <= room
                 \/ cursor \in gaps /\ Cardinality(found) = room
              /\ RingCollectionStates' = [RingCollectionStates EXCEPT ![c] =
                    [state EXCEPT !.missing_indices =
                                        [r \in RingIndex |->
                                            IF r \in found THEN 0 ELSE state.missing_indices[r]],
                                  !.next_scan_index = cursor]]
        /\ UNCHANGED <<roots, RingCollectionExponents, Subscription, ProcessingState, now, given_up>>

Tick ==
    /\ now < MaxNow
    /\ now' = now + 1
    /\ UNCHANGED <<roots, RingCollectionStates, RingCollectionExponents, Subscription,
                   ProcessingState, given_up>>
-----------------------------------------------------------------------------
Init ==
    /\ RingRoots = [g \in Generation |-> [c \in Identifier |-> NoWindows]]
    /\ CurrentGeneration = 0
    /\ QueuedRingPurge = NoPurge
    /\ RingCollectionStates = NoStates
    /\ RingCollectionExponents = {}
    /\ Subscription = Inactive
    /\ ProcessingState = NoProcessing
    /\ now = 0
    /\ given_up = {}

\* What the notifier may send: not dated in the future, and of a limited size.
Batches ==
    UNION {{batch \in Batch(indices) : batch.source_time <= now} :
                indices \in {i \in SUBSET RingIndex : Cardinality(i) <= MaxUpdatesPerBatch}}

Next ==
    \/ \E batch \in Batches : initialize_ring_roots(batch)
    \/ \E batch \in Batches : process_ring_updates(batch)
    \/ terminate_subscription
    \/ \E c \in Identifier, indices, sent \in SUBSET RingIndex :
            replay_missing_roots(c, indices, sent)
    \/ \E removed \in SUBSET (Identifier \X RingIndex) : purge_stale_ring_roots(removed)
    \/ \E c \in Identifier, cursor \in 0 .. RingCount : detect_missing_rings(c, cursor)
    \/ Tick

Spec == Init /\ [][Next]_vars

\* The offchain worker submits a purge at each of its runs.
FairSpec ==
    Spec /\ WF_vars(\E removed \in SUBSET (Identifier \X RingIndex) : purge_stale_ring_roots(removed))

-----------------------------------------------------------------------------
(* Properties *)

CollectionState ==
    [ring_count : Int, next_ring_index : 0 .. RingCount, next_scan_index : 0 .. RingCount,
     missing_indices : [RingIndex -> Int], deleted_indices : SUBSET RingIndex,
     last_batch_received_time : Nat]

TypeOK ==
    /\ RingRoots \in [Generation -> [Identifier ->
            [RingIndex -> Seq([revision : Revision, source_time : Nat])]]]
    /\ CurrentGeneration \in Generation
    /\ QueuedRingPurge \in Generation \union {NoPurge}
    /\ RingCollectionStates \in [Identifier -> CollectionState]
    /\ RingCollectionExponents \subseteq Identifier
    /\ Subscription \in [status : {"Inactive", "Active", "Terminated"},
                        initialized_at_sequence : Nat]
    /\ ProcessingState \in [last_processed_sequence : Nat, last_replay_request_time : Nat]
    /\ now \in Nat
    /\ given_up \subseteq Identifier \X RingIndex

\* What the gap scan infers coverage from: ring_count is the number of live windows,
\* a ring is never both stored and deleted, and both are below the frontier.  Then a
\* sum that reaches the frontier leaves no gap.
CoverageExact ==
    \A c \in Identifier :
        LET state == RingCollectionStates[c]
        IN  /\ state.ring_count = Cardinality(Stored(c))
            /\ Stored(c) \intersect state.deleted_indices = {}
            /\ \A r \in Stored(c) \union state.deleted_indices : r < state.next_ring_index

\* The indices to be requested again are gaps below the cursor of the scan, so that
\* the scan never meets one of them, and the limits of the bounded maps hold.
MissingAreGaps ==
    \A c \in Identifier :
        LET state == RingCollectionStates[c]
        IN  /\ state.next_scan_index <= state.next_ring_index
            /\ \A r \in Missing(c) :
                /\ r < state.next_scan_index
                /\ r \notin Stored(c) /\ r \notin state.deleted_indices
                /\ state.missing_indices[r] \in 0 .. ReplayAbandonThreshold - 1
            /\ Cardinality(Missing(c)) <= MaxMissingRootsPerCollection
            /\ Cardinality(state.deleted_indices) <= MaxDeletedRingsPerCollection

\* The comment on next_scan_index: below the cursor every ring is stored, deleted or
\* to be requested, but for those that replay abandoned and those deleted behind the
\* cursor while deleted_indices was full.
GapsTracked ==
    \A c \in Identifier, r \in RingIndex :
        r < RingCollectionStates[c].next_scan_index =>
            \/ r \in Stored(c) \/ r \in RingCollectionStates[c].deleted_indices
            \/ r \in Missing(c) \/ <<c, r>> \in given_up

\* The purge never touches the live generation, no old entry is forgotten by it, and
\* the generations to come are clean: what is cleared never shows up again.
PurgeSafe ==
    /\ QueuedRingPurge # NoPurge => QueuedRingPurge < CurrentGeneration
    /\ \A g \in Generation :
        Entries(g) # {} =>
            \/ g = CurrentGeneration
            \/ g < CurrentGeneration /\ QueuedRingPurge # NoPurge /\ QueuedRingPurge <= g

\* Without an active subscription nothing is stored; the collections with a state are
\* those initialised, no more than the limit that clear_all_ring_data clears up to.
OnlyInitialized ==
    /\ Cardinality(RingCollectionExponents) <= MaxCollections
    /\ ~ IsActive => RingCollectionExponents = {}
    /\ \A c \in Identifier \ RingCollectionExponents :
        RingCollectionStates[c] = NoState /\ Stored(c) = {}

\* clear_all_ring_data leaves nothing behind that is seen again: old entries stay in reach
\* of the purge, which never touches live ones, and the collections start empty.
StoreClean == PurgeSafe /\ OnlyInitialized

\* The scan decides on figures that are right: those it infers coverage from, and the
\* indices it has found missing.
ScanExact == CoverageExact /\ MissingAreGaps

\* A window holds each revision once and never outgrows its limit, so that a revision
\* names one record.
WindowsDistinct ==
    \A g \in Generation, c \in Identifier, r \in RingIndex :
        LET window == RingRoots[g][c][r]
        IN  /\ Len(window) <= MaxRecentRootsPerRing
            /\ \A i, j \in 1 .. Len(window) :
                window[i].revision = window[j].revision => i = j

\* Old entries are removed in the end, whatever clears arrive meanwhile.
PurgeFinishes == QueuedRingPurge # NoPurge ~> QueuedRingPurge = NoPurge

=============================================================================

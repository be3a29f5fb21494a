---------------------- MODULE MembersSubscriberProofs ----------------------
(* What pallets/members-subscriber keeps right for every number of          *)
(* collections and rings, for every limit, and for every sequence of batches *)
(* and calls, those of a confused notifier included.                        *)
EXTENDS MembersSubscriber, NaturalsInduction, WellFoundedInduction, FiniteSetTheorems,
        SequenceTheorems, TLAPS

-----------------------------------------------------------------------------
(* The inductive invariant, collection by collection *)

Record == [revision : Revision, source_time : Nat]
Windows == [RingIndex -> Seq(Record)]

\* The rings with an entry in the windows of a collection, and those its state misses.
StoredIn(windows) == {r \in RingIndex : windows[r] # <<>>}
MissingIn(state) == {r \in RingIndex : state.missing_indices[r] # NotMissing}

Covered(state, windows) ==
    /\ state.ring_count = Cardinality(StoredIn(windows))
    /\ StoredIn(windows) \intersect state.deleted_indices = {}
    /\ \A r \in StoredIn(windows) \union state.deleted_indices : r < state.next_ring_index

Gaps(state, windows) ==
    /\ state.next_scan_index <= state.next_ring_index
    /\ \A r \in MissingIn(state) :
        /\ r < state.next_scan_index
        /\ r \notin StoredIn(windows) /\ r \notin state.deleted_indices
        /\ state.missing_indices[r] \in 0 .. ReplayAbandonThreshold - 1
    /\ Cardinality(MissingIn(state)) <= MaxMissingRootsPerCollection
    /\ Cardinality(state.deleted_indices) <= MaxDeletedRingsPerCollection

Tracked(c, state, windows, dropped) ==
    \A r \in RingIndex :
        r < state.next_scan_index =>
            \/ r \in StoredIn(windows) \/ r \in state.deleted_indices
            \/ r \in MissingIn(state) \/ <<c, r>> \in dropped

Distinct(window) ==
    /\ Len(window) <= MaxRecentRootsPerRing
    /\ \A i, j \in 1 .. Len(window) : window[i].revision = window[j].revision => i = j

\* A collection of the live generation.
CollectionOK(c, state, windows, dropped) ==
    Covered(state, windows) /\ Gaps(state, windows) /\ Tracked(c, state, windows, dropped)

CollectionsOK ==
    \A c \in Identifier :
        CollectionOK(c, RingCollectionStates[c], RingRoots[CurrentGeneration][c], given_up)

Inv == TypeOK /\ StoreClean /\ CollectionsOK /\ WindowsDistinct

-----------------------------------------------------------------------------
(* Sets of rings *)

LEMMA RingSets ==
    /\ RingIndex \subseteq Nat
    /\ IsFiniteSet(RingIndex)
    /\ \A S \in SUBSET RingIndex : IsFiniteSet(S) /\ Cardinality(S) \in Nat
  <1>1. RingIndex \subseteq Nat
    BY ContentAssumption DEF RingIndex
  <1>2. IsFiniteSet(RingIndex)
    BY FS_Interval, ContentAssumption DEF RingIndex
  <1> QED
    BY <1>1, <1>2, FS_Subset, FS_CardinalityType

\* A set of rings that is not empty has a last one.
LEMMA LastRing ==
    ASSUME NEW S \in SUBSET RingIndex, S # {}
    PROVE  \E x \in S : \A y \in S : y <= x
  <1> DEFINE T == {n \in Nat : \E s \in S : n = RingCount - s}
  <1>1. T \subseteq Nat
    OBVIOUS
  <1>2. \A y \in S : RingCount - y \in T
    BY ContentAssumption DEF RingIndex
  <1>3. T # {}
    BY <1>2
  <1>4. PICK x \in T : \A y \in T : ~ (<<y, x>> \in OpToRel(<, Nat))
    <2> HIDE DEF T
    <2> QED
      BY <1>1, <1>3, NatLessThanWellFounded, WFMin
  <1>5. \A y \in T : ~ (y < x)
    BY <1>1, <1>4 DEF OpToRel
  <1>6. PICK s \in S : x = RingCount - s
    OBVIOUS
  <1>7. \A y \in S : y <= s
    BY <1>2, <1>5, <1>6, ContentAssumption DEF RingIndex
  <1> QED
    BY <1>7

-----------------------------------------------------------------------------
(* Batches *)

\* What is known of a batch the notifier sends.
IsBatch(batch) ==
    /\ batch.identifier \in Identifier
    /\ batch.sequence \in Nat
    /\ batch.source_time \in Nat
    /\ batch.next_ring_index \in 0 .. RingCount
    /\ DOMAIN batch.updates \subseteq RingIndex
    /\ \A r \in DOMAIN batch.updates : batch.updates[r] \in Revision \union {Deleted}

LEMMA BatchFields ==
    ASSUME NEW batch \in Batches
    PROVE  IsBatch(batch)
  <1>1. PICK indices \in SUBSET RingIndex : batch \in Batch(indices)
    BY DEF Batches
  <1>2. /\ batch.identifier \in Identifier
        /\ batch.sequence \in Sequence
        /\ batch.source_time \in 0 .. MaxNow
        /\ batch.next_ring_index \in 0 .. RingCount
        /\ batch.updates \in [indices -> Revision \union {Deleted}]
    BY <1>1 DEF Batch
  <1> QED
    BY <1>2, BoundAssumption DEF IsBatch, Sequence

\* A batch builds some rings and deletes others.
LEMMA BuiltAndGone ==
    ASSUME NEW batch, IsBatch(batch)
    PROVE  /\ Built(batch.updates) \subseteq RingIndex
           /\ Gone(batch.updates) \subseteq RingIndex
           /\ Built(batch.updates) \intersect Gone(batch.updates) = {}
           /\ Built(batch.updates) \union Gone(batch.updates) = DOMAIN batch.updates
           /\ \A r \in Built(batch.updates) : batch.updates[r] \in Revision
  BY DEF IsBatch, Built, Gone

\* The window of a ring that is built again holds its newest revision, each once.
LEMMA WindowGrows ==
    ASSUME NEW window \in Seq(Record), NEW revision \in Revision, NEW source_time \in Nat
    PROVE  LET after == WindowAfter(window, revision, source_time)
           IN  /\ after \in Seq(Record)
               /\ after # <<>>
               /\ Distinct(window) => Distinct(after)
  <1> DEFINE rec == [revision |-> revision, source_time |-> source_time]
             kept == IF Len(window) >= MaxRecentRootsPerRing THEN Tail(window) ELSE window
             after == WindowAfter(window, revision, source_time)
  <1>1. rec \in Record /\ rec.revision = revision
    BY DEF Record
  <1>2. CASE \E i \in 1 .. Len(window) : window[i].revision = revision
    <2>1. after = window
      BY <1>2 DEF WindowAfter
    <2>2. window # <<>>
      BY <1>2
    <2> QED
      BY <2>1, <2>2
  <1>3. CASE ~ \E i \in 1 .. Len(window) : window[i].revision = revision
    <2>1. after = Append(kept, rec)
      BY <1>3 DEF WindowAfter
    <2>2. /\ kept \in Seq(Record)
          /\ Len(window) <= MaxRecentRootsPerRing => Len(kept) < MaxRecentRootsPerRing
          /\ \E d \in 0 .. 1 : \A i \in 1 .. Len(kept) :
                i + d \in 1 .. Len(window) /\ kept[i] = window[i + d]
      <3>1. CASE Len(window) >= MaxRecentRootsPerRing
        <4>1. window # <<>> /\ Len(window) \in Nat /\ kept = Tail(window)
          BY <3>1, PalletAssumption
        <4>2. /\ Tail(window) \in Seq(Record)
              /\ Len(Tail(window)) = Len(window) - 1
              /\ \A i \in 1 .. Len(Tail(window)) : Tail(window)[i] = window[i + 1]
          BY <4>1, HeadTailProperties
        <4> HIDE DEF kept
        <4>3. /\ kept \in Seq(Record)
              /\ Len(kept) = Len(window) - 1
              /\ \A i \in 1 .. Len(kept) : kept[i] = window[i + 1]
          BY <4>1, <4>2, Zenon
        <4>4. \A i \in 1 .. Len(kept) : i + 1 \in 1 .. Len(window)
          BY <4>1, <4>3
        <4>5. Len(window) <= MaxRecentRootsPerRing => Len(kept) < MaxRecentRootsPerRing
          BY <4>1, <4>3, PalletAssumption
        <4> QED
          BY <4>3, <4>4, <4>5
      <3>2. CASE ~ (Len(window) >= MaxRecentRootsPerRing)
        <4>1. kept = window /\ Len(window) \in Nat
          BY <3>2
        <4>2. \A i \in 1 .. Len(kept) : i + 0 \in 1 .. Len(window) /\ kept[i] = window[i + 0]
          BY <4>1
        <4> QED
          BY <3>2, <4>1, <4>2, PalletAssumption
      <3> QED
        BY <3>1, <3>2
    <2> HIDE DEF kept, rec
    <2>3. PICK d \in 0 .. 1 : \A i \in 1 .. Len(kept) :
                i + d \in 1 .. Len(window) /\ kept[i] = window[i + d]
      BY <2>2
    <2>4. /\ after \in Seq(Record)
          /\ after # <<>>
          /\ Len(after) = Len(kept) + 1 /\ Len(kept) \in Nat
          /\ \A i \in 1 .. Len(kept) : after[i] = kept[i]
          /\ after[Len(kept) + 1] = rec
      BY <1>1, <2>1, <2>2, AppendProperties
    <2> HIDE DEF after
    <2>5. \A i \in 1 .. Len(kept) : after[i].revision = window[i + d].revision
                                     /\ after[i].revision # revision
      BY <1>3, <2>3, <2>4
    <2>6. ASSUME Distinct(window)
          PROVE  Distinct(after)
      <3>1. Len(after) <= MaxRecentRootsPerRing
        BY <2>2, <2>4, <2>6, PalletAssumption DEF Distinct
      <3>2. ASSUME NEW i \in 1 .. Len(after), NEW j \in 1 .. Len(after),
                   after[i].revision = after[j].revision
            PROVE  i = j
        <4>1. CASE i \in 1 .. Len(kept) /\ j \in 1 .. Len(kept)
          <5>1. i + d \in 1 .. Len(window) /\ j + d \in 1 .. Len(window)
            BY <2>3, <4>1
          <5>2. window[i + d].revision = window[j + d].revision
            BY <2>5, <3>2, <4>1
          <5>3. i + d = j + d
            BY <2>6, <5>1, <5>2 DEF Distinct
          <5> QED
            BY <5>3
        <4>2. CASE ~ (i \in 1 .. Len(kept)) \/ ~ (j \in 1 .. Len(kept))
          BY <1>1, <2>4, <2>5, <3>2, <4>2
        <4> QED
          BY <4>1, <4>2
      <3> QED
        BY <3>1, <3>2 DEF Distinct
    <2> QED
      BY <2>4, <2>6 DEF after
  <1> QED
    BY <1>2, <1>3

\* What a batch does to the windows of its collection.
LEMMA WindowsGrow ==
    ASSUME NEW windows \in Windows, NEW batch, IsBatch(batch)
    PROVE  LET after == WindowsAfter(windows, batch)
           IN  /\ after \in Windows
               /\ StoredIn(after)
                    = (StoredIn(windows) \ Gone(batch.updates)) \union Built(batch.updates)
               /\ (\A r \in RingIndex : Distinct(windows[r]))
                    => (\A r \in RingIndex : Distinct(after[r]))
  <1> DEFINE after == WindowsAfter(windows, batch)
  <1>1. \A r \in RingIndex : windows[r] \in Seq(Record)
    BY DEF Windows
  <1>2. ASSUME NEW r \in RingIndex
        PROVE  /\ after[r] \in Seq(Record)
               /\ r \in Built(batch.updates) => after[r] # <<>>
               /\ r \in Gone(batch.updates) => after[r] = <<>>
               /\ r \notin DOMAIN batch.updates => after[r] = windows[r]
               /\ Distinct(windows[r]) => Distinct(after[r])
    <2>1. CASE r \in Built(batch.updates)
      <3>1. after[r] = WindowAfter(windows[r], batch.updates[r], batch.source_time)
        BY <2>1 DEF WindowsAfter
      <3>2. batch.updates[r] \in Revision /\ batch.source_time \in Nat
        BY <2>1, BuiltAndGone DEF IsBatch
      <3>3. r \notin Gone(batch.updates) /\ r \in DOMAIN batch.updates
        BY <2>1, BuiltAndGone
      <3> QED
        BY <1>1, <3>1, <3>2, <3>3, WindowGrows
    <2>2. CASE r \in Gone(batch.updates)
      <3>1. after[r] = <<>> /\ r \notin Built(batch.updates) /\ r \in DOMAIN batch.updates
        BY <2>2, BuiltAndGone DEF WindowsAfter
      <3>2. Distinct(<<>>)
        BY PalletAssumption DEF Distinct
      <3> QED
        BY <3>1, <3>2
    <2>3. CASE r \notin DOMAIN batch.updates
      BY <1>1, <2>3, BuiltAndGone DEF WindowsAfter
    <2> QED
      BY <2>1, <2>2, <2>3, BuiltAndGone
  <1>3. after \in Windows
    BY <1>2 DEF WindowsAfter, Windows
  <1>4. StoredIn(after) = (StoredIn(windows) \ Gone(batch.updates)) \union Built(batch.updates)
    <2> HIDE DEF after
    <2> QED
      BY <1>2, BuiltAndGone DEF StoredIn
  <1> QED
    BY <1>2, <1>3, <1>4

\* deleted_indices never outgrows its limit: the last deletion that is new to it found room
\* among all that a batch leaves in it.
LEMMA DeletedBounded ==
    ASSUME NEW batch, IsBatch(batch),
           NEW deleted \in SUBSET RingIndex,
           Cardinality(deleted) <= MaxDeletedRingsPerCollection,
           NEW tracked \in SUBSET Gone(batch.updates),
           IsTracked(tracked, deleted, batch.updates)
    PROVE  Cardinality((deleted \ Built(batch.updates)) \union tracked)
                <= MaxDeletedRingsPerCollection
  <1> DEFINE built == Built(batch.updates)
             after == (deleted \ built) \union tracked
  <1>1. built \subseteq RingIndex /\ tracked \subseteq RingIndex /\ tracked \intersect built = {}
    BY BuiltAndGone
  <1>2. CASE tracked \subseteq deleted
    <2>1. after \subseteq deleted
      BY <1>2
    <2>2. /\ IsFiniteSet(deleted) /\ Cardinality(deleted) \in Nat
          /\ Cardinality(after) \in Nat
          /\ Cardinality(after) <= Cardinality(deleted)
      BY <2>1, RingSets, FS_Subset
    <2> QED
      BY <2>2, PalletAssumption
  <1>3. CASE ~ (tracked \subseteq deleted)
    <2>1. PICK r \in tracked \ deleted : \A q \in tracked \ deleted : q <= r
      BY <1>1, <1>3, LastRing
    <2> DEFINE before == (deleted \ {q \in built : q < r}) \union {q \in tracked : q < r}
    <2>2. Cardinality(before) < MaxDeletedRingsPerCollection
      BY <2>1 DEF IsTracked
    <2>3. before \subseteq RingIndex /\ r \in RingIndex
      BY <1>1
    <2>4. after \subseteq before \union {r}
      <3>1. ASSUME NEW q \in tracked, q \notin deleted, q # r
            PROVE  q < r
        BY <1>1, <2>1, <3>1, RingSets
      <3> QED
        BY <1>1, <3>1
    <2> HIDE DEF before, after
    <2>5. IsFiniteSet(before) /\ Cardinality(before) \in Nat
      BY <2>3, RingSets
    <2>6. IsFiniteSet(before \union {r}) /\ Cardinality(before \union {r}) <= Cardinality(before) + 1
      <3>1. /\ IsFiniteSet(before \union {r})
            /\ Cardinality(before \union {r})
                 = IF r \in before THEN Cardinality(before) ELSE Cardinality(before) + 1
        BY <2>5, FS_AddElement, Zenon
      <3> QED
        BY <2>5, <3>1
    <2>7. /\ Cardinality(after) <= Cardinality(before \union {r}) /\ IsFiniteSet(after)
      BY <2>4, <2>6, FS_Subset
    <2>8. Cardinality(after) \in Nat /\ Cardinality(before \union {r}) \in Nat
      BY <2>6, <2>7, FS_CardinalityType
    <2> QED
      BY <2>2, <2>5, <2>6, <2>7, <2>8, PalletAssumption DEF after
  <1> QED
    BY <1>2, <1>3

\* The frontier a batch leaves is the largest of its bounds.
LEMMA FrontierBounds ==
    ASSUME NEW batch, IsBatch(batch), NEW next \in 0 .. RingCount,
           NEW frontier \in FrontierAfter(next, batch)
    PROVE  /\ frontier \in 0 .. RingCount
           /\ next <= frontier
           /\ \A r \in DOMAIN batch.updates : r < frontier
  <1> DEFINE bounds == {next, batch.next_ring_index} \union {r + 1 : r \in DOMAIN batch.updates}
  <1>1. frontier \in bounds /\ \A b \in bounds : b <= frontier
    BY DEF FrontierAfter
  <1>2. \A r \in DOMAIN batch.updates : r \in 0 .. RingCount - 1
    BY DEF IsBatch, RingIndex
  <1>3. bounds \subseteq 0 .. RingCount
    BY <1>2, ContentAssumption DEF IsBatch
  <1>4. \A r \in DOMAIN batch.updates : r + 1 \in bounds
    OBVIOUS
  <1>5. next \in bounds
    OBVIOUS
  <1> HIDE DEF bounds
  <1> QED
    BY <1>1, <1>2, <1>3, <1>4, <1>5, ContentAssumption

\* The windows a batch creates and removes change ring_count by as much.
LEMMA CountKept ==
    ASSUME NEW windows \in Windows, NEW batch, IsBatch(batch)
    PROVE  Cardinality(StoredIn(WindowsAfter(windows, batch)))
            = Cardinality(StoredIn(windows))
                + Cardinality({r \in Built(batch.updates) : windows[r] = <<>>})
                - Cardinality({r \in Gone(batch.updates) : windows[r] # <<>>})
  <1> DEFINE S == StoredIn(windows)
             B == {r \in Built(batch.updates) : windows[r] = <<>>}
             G == {r \in Gone(batch.updates) : windows[r] # <<>>}
             after == StoredIn(WindowsAfter(windows, batch))
  <1>1. after = (S \ Gone(batch.updates)) \union Built(batch.updates)
    BY WindowsGrow
  <1>2. S \subseteq RingIndex /\ B \subseteq RingIndex /\ G \subseteq RingIndex
    BY BuiltAndGone DEF StoredIn
  <1>3. after = (S \ G) \union B /\ S \intersect B = {} /\ S \intersect G = G
    BY <1>1, BuiltAndGone DEF StoredIn
  <1> HIDE DEF S, B, G, after
  <1>4. /\ IsFiniteSet(S) /\ IsFiniteSet(B) /\ IsFiniteSet(G)
        /\ Cardinality(S) \in Nat /\ Cardinality(B) \in Nat /\ Cardinality(G) \in Nat
    BY <1>2, RingSets
  <1>5. IsFiniteSet(S \ G) /\ Cardinality(S \ G) = Cardinality(S) - Cardinality(G)
    BY <1>3, <1>4, FS_Difference
  <1>6. (S \ G) \intersect B = {}
    BY <1>3
  <1>7. Cardinality(after) = Cardinality(S \ G) + Cardinality(B) - Cardinality({})
    BY <1>3, <1>4, <1>5, <1>6, FS_Union
  <1>8. Cardinality(after) = Cardinality(S) + Cardinality(B) - Cardinality(G)
    BY <1>4, <1>5, <1>7, FS_EmptySet
  <1> QED
    BY <1>8 DEF S, B, G, after

\* store_ring_roots keeps the figures of the collection of the batch right.
LEMMA StoreKeeps ==
    ASSUME NEW batch, IsBatch(batch), now \in Nat,
           NEW state \in CollectionState, NEW windows \in Windows, NEW dropped,
           CollectionOK(batch.identifier, state, windows, dropped),
           NEW tracked \in SUBSET Gone(batch.updates),
           NEW frontier \in FrontierAfter(state.next_ring_index, batch),
           IsTracked(tracked, state.deleted_indices, batch.updates)
    PROVE  LET after == CollectionAfter(state, windows, batch, frontier, tracked)
           IN  /\ after \in CollectionState
               /\ CollectionOK(batch.identifier, after, WindowsAfter(windows, batch),
                               GivenUpAfter(dropped, batch, state, tracked))
  <1> DEFINE c == batch.identifier
             after == CollectionAfter(state, windows, batch, frontier, tracked)
             kept == WindowsAfter(windows, batch)
             built == Built(batch.updates)
             gone == Gone(batch.updates)
             given == GivenUpAfter(dropped, batch, state, tracked)
  <1>1. /\ state.ring_count \in Int
        /\ state.next_ring_index \in 0 .. RingCount
        /\ state.next_scan_index \in 0 .. RingCount
        /\ state.missing_indices \in [RingIndex -> Int]
        /\ state.deleted_indices \in SUBSET RingIndex
    BY DEF CollectionState
  <1>2. /\ built \subseteq RingIndex /\ gone \subseteq RingIndex /\ built \intersect gone = {}
        /\ built \union gone = DOMAIN batch.updates
    BY BuiltAndGone
  <1>3. StoredIn(kept) = (StoredIn(windows) \ gone) \union built
    BY WindowsGrow
  <1>4. /\ frontier \in 0 .. RingCount
        /\ state.next_ring_index <= frontier
        /\ \A r \in DOMAIN batch.updates : r < frontier
    BY <1>1, FrontierBounds
  <1>5. after.ring_count = Cardinality(StoredIn(kept)) /\ after.ring_count \in Int
    <2>1. after.ring_count = state.ring_count
                + Cardinality({r \in built : windows[r] = <<>>})
                - Cardinality({r \in gone : windows[r] # <<>>})
      BY DEF CollectionAfter
    <2>2. /\ Cardinality({r \in built : windows[r] = <<>>}) \in Nat
          /\ Cardinality({r \in gone : windows[r] # <<>>}) \in Nat
      BY <1>2, RingSets
    <2> QED
      BY <1>1, <2>1, <2>2, CountKept DEF CollectionOK, Covered
  <1>6. /\ after.next_ring_index = frontier
        /\ after.next_scan_index = state.next_scan_index
        /\ after.missing_indices = MissingAfter(state, batch.updates)
        /\ after.deleted_indices = (state.deleted_indices \ built) \union tracked
        /\ after.last_batch_received_time = now
    BY DEF CollectionAfter, DeletedAfter
  <1>7. /\ MissingIn(after) = MissingIn(state) \ DOMAIN batch.updates
        /\ \A r \in MissingIn(after) : after.missing_indices[r] = state.missing_indices[r]
        /\ after.missing_indices \in [RingIndex -> Int]
    BY <1>1, <1>6 DEF MissingIn, MissingAfter, NotMissing
  <1>8. after \in CollectionState
    <2>1. after.deleted_indices \in SUBSET RingIndex
      BY <1>1, <1>2, <1>6
    <2>2. after = [ring_count |-> after.ring_count, next_ring_index |-> after.next_ring_index,
                   next_scan_index |-> after.next_scan_index,
                   missing_indices |-> after.missing_indices,
                   deleted_indices |-> after.deleted_indices,
                   last_batch_received_time |-> after.last_batch_received_time]
      BY DEF CollectionAfter
    <2> HIDE DEF after
    <2> QED
      BY <1>1, <1>4, <1>5, <1>6, <1>7, <2>1, <2>2 DEF CollectionState
  <1> HIDE DEF after, kept, given, built, gone
  <1>9. Covered(after, kept)
    <2>1. StoredIn(kept) \intersect after.deleted_indices = {}
      BY <1>2, <1>3, <1>6 DEF CollectionOK, Covered, gone
    <2>2. ASSUME NEW r \in StoredIn(kept) \union after.deleted_indices
          PROVE  r < after.next_ring_index
      <3>1. r \in StoredIn(windows) \union state.deleted_indices \/ r \in DOMAIN batch.updates
        BY <1>2, <1>3, <1>6 DEF gone
      <3>2. r \in RingIndex
        BY <1>1, <1>2, <3>1 DEF StoredIn
      <3> QED
        BY <1>1, <1>4, <1>6, <3>1, <3>2, RingSets DEF CollectionOK, Covered
    <2> QED
      BY <1>5, <2>1, <2>2 DEF Covered
  <1>10. Gaps(after, kept)
    <2>1. after.next_scan_index <= after.next_ring_index
      BY <1>1, <1>4, <1>6 DEF CollectionOK, Gaps
    <2>2. ASSUME NEW r \in MissingIn(after)
          PROVE  /\ r < after.next_scan_index
                 /\ r \notin StoredIn(kept) /\ r \notin after.deleted_indices
                 /\ after.missing_indices[r] \in 0 .. ReplayAbandonThreshold - 1
      <3>1. r \in MissingIn(state) /\ r \notin DOMAIN batch.updates
            /\ after.missing_indices[r] = state.missing_indices[r]
        BY <1>7
      <3>2. /\ r < state.next_scan_index
            /\ r \notin StoredIn(windows) /\ r \notin state.deleted_indices
            /\ state.missing_indices[r] \in 0 .. ReplayAbandonThreshold - 1
        BY <3>1 DEF CollectionOK, Gaps
      <3> QED
        BY <1>2, <1>3, <1>6, <3>1, <3>2 DEF gone
    <2>3. Cardinality(MissingIn(after)) <= MaxMissingRootsPerCollection
      <3>1. MissingIn(state) \in SUBSET RingIndex /\ MissingIn(after) \in SUBSET MissingIn(state)
        BY <1>7 DEF MissingIn
      <3>2. /\ IsFiniteSet(MissingIn(state)) /\ Cardinality(MissingIn(state)) \in Nat
            /\ Cardinality(MissingIn(after)) \in Nat
        BY <3>1, RingSets
      <3>3. Cardinality(MissingIn(after)) <= Cardinality(MissingIn(state))
        BY <3>1, <3>2, FS_Subset
      <3>4. Cardinality(MissingIn(state)) <= MaxMissingRootsPerCollection
        BY DEF CollectionOK, Gaps
      <3> QED
        BY <3>2, <3>3, <3>4, PalletAssumption
    <2>4. Cardinality(after.deleted_indices) <= MaxDeletedRingsPerCollection
      <3>1. Cardinality(state.deleted_indices) <= MaxDeletedRingsPerCollection
        BY DEF CollectionOK, Gaps
      <3> QED
        BY <1>1, <1>6, <3>1, DeletedBounded DEF built
    <2> QED
      BY <2>1, <2>2, <2>3, <2>4 DEF Gaps
  <1>11. Tracked(c, after, kept, given)
    <2> SUFFICES ASSUME NEW r \in RingIndex, r < after.next_scan_index
                 PROVE  \/ r \in StoredIn(kept) \/ r \in after.deleted_indices
                        \/ r \in MissingIn(after) \/ <<c, r>> \in given
      BY DEF Tracked
    <2>1. CASE r \in built
      BY <1>3, <2>1
    <2>2. CASE r \in gone
      <3>1. r \in tracked => r \in after.deleted_indices
        BY <1>6
      <3>2. r \notin tracked => <<c, r>> \in given
        BY <1>6, <2>2 DEF given, gone, GivenUpAfter
      <3> QED
        BY <3>1, <3>2
    <2>3. CASE r \notin DOMAIN batch.updates
      <3>1. \/ r \in StoredIn(windows) \/ r \in state.deleted_indices
            \/ r \in MissingIn(state) \/ <<c, r>> \in dropped
        BY <1>6 DEF CollectionOK, Tracked
      <3>2. <<c, r>> \in dropped => <<c, r>> \in given
        BY <2>3 DEF given, GivenUpAfter
      <3> QED
        BY <1>2, <1>3, <1>6, <1>7, <2>3, <3>1, <3>2
    <2> QED
      BY <1>2, <2>1, <2>2, <2>3
  <1> QED
    BY <1>8, <1>9, <1>10, <1>11 DEF CollectionOK, after, kept, given

-----------------------------------------------------------------------------
(* Storage *)

\* The types, with the names used here.
LEMMA Types ==
    TypeOK <=> /\ RingRoots \in [Generation -> [Identifier -> Windows]]
               /\ CurrentGeneration \in Generation
               /\ QueuedRingPurge \in Generation \union {NoPurge}
               /\ RingCollectionStates \in [Identifier -> CollectionState]
               /\ RingCollectionExponents \subseteq Identifier
               /\ Subscription \in [status : {"Inactive", "Active", "Terminated"},
                                    initialized_at_sequence : Nat]
               /\ ProcessingState \in [last_processed_sequence : Nat,
                                       last_replay_request_time : Nat]
               /\ now \in Nat
               /\ given_up \subseteq Identifier \X RingIndex
  BY Zenon DEF TypeOK, Windows, Record

LEMMA GenerationType == Generation \subseteq Nat
  BY BoundAssumption DEF Generation

\* An entry of a generation is a window that is not empty.
LEMMA EntriesExact ==
    \A g \in Generation :
        Entries(g) = {} <=> \A c \in Identifier : StoredIn(RingRoots[g][c]) = {}
  <1> SUFFICES ASSUME NEW g \in Generation
               PROVE  Entries(g) = {} <=> \A c \in Identifier : StoredIn(RingRoots[g][c]) = {}
    OBVIOUS
  <1>1. \A c \in Identifier, r \in RingIndex :
            <<c, r>> \in Entries(g) <=> r \in StoredIn(RingRoots[g][c])
    BY DEF Entries, StoredIn
  <1>2. \A u \in Entries(g) : \E c \in Identifier, r \in RingIndex : u = <<c, r>>
    BY DEF Entries
  <1>3. \A c \in Identifier : StoredIn(RingRoots[g][c]) \subseteq RingIndex
    BY DEF StoredIn
  <1>4. ASSUME Entries(g) = {}, NEW c \in Identifier
        PROVE  StoredIn(RingRoots[g][c]) = {}
    BY <1>1, <1>3, <1>4
  <1>5. ASSUME \A c \in Identifier : StoredIn(RingRoots[g][c]) = {}
        PROVE  Entries(g) = {}
    <2> SUFFICES ASSUME NEW u \in Entries(g) PROVE FALSE
      OBVIOUS
    <2>1. PICK c \in Identifier, r \in RingIndex : u = <<c, r>>
      BY <1>2
    <2> QED
      BY <1>1, <1>5, <2>1
  <1> QED
    BY <1>4, <1>5

\* A collection that was never initialised, or was cleared.
LEMMA EmptyCollection ==
    ASSUME NEW c, NEW windows, NEW dropped, StoredIn(windows) = {}
    PROVE  NoState \in CollectionState /\ CollectionOK(c, NoState, windows, dropped)
  <1>1. NoState \in CollectionState
    BY ContentAssumption DEF NoState, CollectionState, NotMissing
  <1>2. MissingIn(NoState) = {} /\ NoState.deleted_indices = {} /\ NoState.ring_count = 0
        /\ NoState.next_scan_index = 0 /\ NoState.next_ring_index = 0
    BY DEF NoState, MissingIn
  <1>3. Cardinality({}) = 0
    BY FS_EmptySet
  <1>4. Covered(NoState, windows)
    BY <1>2, <1>3 DEF Covered
  <1>5. Gaps(NoState, windows)
    BY <1>2, <1>3, PalletAssumption DEF Gaps
  <1>6. Tracked(c, NoState, windows, dropped)
    BY <1>2, RingSets DEF Tracked
  <1> QED
    BY <1>1, <1>4, <1>5, <1>6 DEF CollectionOK

LEMMA NoStatesType ==
    NoStates \in [Identifier -> CollectionState] /\ \A c \in Identifier : NoStates[c] = NoState
  <1>1. NoState \in CollectionState
    BY ContentAssumption DEF NoState, CollectionState, NotMissing
  <1> QED
    BY <1>1 DEF NoStates

\* store_ring_roots changes one collection of one generation, and keeps it right.
LEMMA StoreStep ==
    ASSUME TypeOK, WindowsDistinct, NEW batch, IsBatch(batch), NEW g \in Generation,
           NEW states \in [Identifier -> CollectionState],
           NEW before \in SUBSET (Identifier \X RingIndex),
           \A c \in Identifier : CollectionOK(c, states[c], RingRoots[g][c], before),
           store_ring_roots(batch, g, states, before)
    PROVE  /\ RingRoots' \in [Generation -> [Identifier -> Windows]]
           /\ RingCollectionStates' \in [Identifier -> CollectionState]
           /\ given_up' \subseteq Identifier \X RingIndex
           /\ \A c \in Identifier :
                CollectionOK(c, RingCollectionStates'[c], RingRoots'[g][c], given_up')
           /\ \A c \in Identifier \ {batch.identifier} :
                RingCollectionStates'[c] = states[c] /\ RingRoots'[g][c] = RingRoots[g][c]
           /\ \A h \in Generation \ {g} : RingRoots'[h] = RingRoots[h]
           /\ WindowsDistinct'
  <1> DEFINE b == batch.identifier
             windows == RingRoots[g][b]
  <1>1. PICK tracked \in SUBSET Gone(batch.updates),
             frontier \in FrontierAfter(states[b].next_ring_index, batch) :
            /\ IsTracked(tracked, states[b].deleted_indices, batch.updates)
            /\ RingCollectionStates' = [states EXCEPT ![b] =
                    CollectionAfter(states[b], windows, batch, frontier, tracked)]
            /\ RingRoots' = [RingRoots EXCEPT ![g] =
                    [RingRoots[g] EXCEPT ![b] = WindowsAfter(windows, batch)]]
            /\ given_up' = GivenUpAfter(before, batch, states[b], tracked)
    BY DEF store_ring_roots
  <1> DEFINE after == CollectionAfter(states[b], windows, batch, frontier, tracked)
             kept == WindowsAfter(windows, batch)
  <1>2. b \in Identifier /\ windows \in Windows /\ states[b] \in CollectionState /\ now \in Nat
        /\ RingRoots \in [Generation -> [Identifier -> Windows]]
    BY Types DEF IsBatch
  <1>3. /\ after \in CollectionState
        /\ CollectionOK(b, after, kept, given_up')
    BY <1>1, <1>2, StoreKeeps
  <1>4. kept \in Windows
        /\ ((\A r \in RingIndex : Distinct(windows[r]))
              => (\A r \in RingIndex : Distinct(kept[r])))
    BY <1>2, WindowsGrow
  <1>5. RingCollectionStates' = [states EXCEPT ![b] = after]
        /\ RingRoots' = [RingRoots EXCEPT ![g] = [RingRoots[g] EXCEPT ![b] = kept]]
    BY <1>1
  <1> HIDE DEF after, kept
  <1>6. /\ RingRoots' \in [Generation -> [Identifier -> Windows]]
        /\ RingCollectionStates' \in [Identifier -> CollectionState]
    BY <1>2, <1>3, <1>4, <1>5
  <1>7. /\ RingCollectionStates'[b] = after /\ RingRoots'[g][b] = kept
        /\ \A c \in Identifier \ {b} :
            RingCollectionStates'[c] = states[c] /\ RingRoots'[g][c] = RingRoots[g][c]
        /\ \A h \in Generation \ {g} : RingRoots'[h] = RingRoots[h]
    BY <1>2, <1>5
  <1>8. given_up' \subseteq Identifier \X RingIndex
    BY <1>1, <1>2, BuiltAndGone DEF GivenUpAfter
  <1>9. ASSUME NEW c \in Identifier
        PROVE  CollectionOK(c, RingCollectionStates'[c], RingRoots'[g][c], given_up')
    <2>1. CASE c = b
      BY <1>3, <1>7, <2>1
    <2>2. CASE c # b
      <3>1. CollectionOK(c, states[c], RingRoots[g][c], before)
        OBVIOUS
      <3>2. \A r \in RingIndex : <<c, r>> \in before => <<c, r>> \in given_up'
        BY <1>1, <2>2 DEF GivenUpAfter
      <3>3. CollectionOK(c, states[c], RingRoots[g][c], given_up')
        BY <3>1, <3>2 DEF CollectionOK, Tracked
      <3> QED
        BY <1>7, <2>2, <3>3
    <2> QED
      BY <2>1, <2>2
  <1>10. WindowsDistinct'
    <2>1. \A h \in Generation, c \in Identifier, r \in RingIndex : Distinct(RingRoots[h][c][r])
      BY DEF WindowsDistinct, Distinct
    <2>2. \A r \in RingIndex : Distinct(kept[r])
      BY <1>2, <1>4, <2>1
    <2>3. \A h \in Generation, c \in Identifier, r \in RingIndex : Distinct(RingRoots'[h][c][r])
      BY <1>2, <1>7, <2>1, <2>2
    <2> QED
      BY <2>3 DEF WindowsDistinct, Distinct
  <1> QED
    BY <1>6, <1>7, <1>8, <1>9, <1>10

\* Clearing the ring data puts what is stored in reach of the purge, and the next
\* generation is empty.
LEMMA ClearStep ==
    ASSUME TypeOK, PurgeSafe, clear_all_ring_data
    PROVE  /\ CurrentGeneration + 1 \in Generation
           /\ CurrentGeneration' = CurrentGeneration + 1
           /\ QueuedRingPurge' \in Generation
           /\ QueuedRingPurge' < CurrentGeneration'
           /\ \A c \in Identifier : StoredIn(RingRoots[CurrentGeneration + 1][c]) = {}
           /\ \A g \in Generation : Entries(g) # {} =>
                g < CurrentGeneration + 1 /\ QueuedRingPurge' <= g
  <1>1. CurrentGeneration \in Nat /\ CurrentGeneration + 1 \in Generation
    BY Types, BoundAssumption DEF clear_all_ring_data, Generation
  <1>2. QueuedRingPurge \in Generation \union {NoPurge} /\ CurrentGeneration \in Generation
    BY Types
  <1>3. Entries(CurrentGeneration + 1) = {}
    BY <1>1 DEF PurgeSafe
  <1>4. \A c \in Identifier : StoredIn(RingRoots[CurrentGeneration + 1][c]) = {}
    BY <1>1, <1>3, EntriesExact
  <1>5. CASE QueuedRingPurge = NoPurge
    <2>1. QueuedRingPurge' = CurrentGeneration /\ CurrentGeneration' = CurrentGeneration + 1
      BY <1>5 DEF clear_all_ring_data
    <2>2. \A g \in Generation : Entries(g) # {} => g = CurrentGeneration
      BY <1>5 DEF PurgeSafe
    <2> QED
      BY <1>1, <1>2, <1>4, <2>1, <2>2
  <1>6. CASE QueuedRingPurge # NoPurge
    <2>1. QueuedRingPurge' = QueuedRingPurge /\ CurrentGeneration' = CurrentGeneration + 1
      BY <1>6 DEF clear_all_ring_data
    <2>2. QueuedRingPurge \in Nat /\ QueuedRingPurge < CurrentGeneration
          /\ QueuedRingPurge \in Generation
      BY <1>2, <1>6, GenerationType DEF PurgeSafe
    <2>3. \A g \in Generation : Entries(g) # {} =>
            g = CurrentGeneration \/ (g < CurrentGeneration /\ QueuedRingPurge <= g)
      BY DEF PurgeSafe
    <2>4. \A g \in Generation : Entries(g) # {} =>
            g < CurrentGeneration + 1 /\ QueuedRingPurge <= g
      BY <1>1, <2>2, <2>3, GenerationType
    <2> QED
      BY <1>1, <1>4, <2>1, <2>2, <2>4
  <1> QED
    BY <1>5, <1>6

\* One more collection fits when has_room_for says so.
LEMMA ExponentsBounded ==
    ASSUME RingCollectionExponents \subseteq Identifier,
           Cardinality(RingCollectionExponents) <= MaxCollections,
           NEW c \in Identifier, has_room_for(c)
    PROVE  Cardinality(RingCollectionExponents \union {c}) <= MaxCollections
  <1>1. IsFiniteSet(RingCollectionExponents) /\ Cardinality(RingCollectionExponents) \in Nat
    BY ContentAssumption, FS_Subset, FS_CardinalityType
  <1>2. Cardinality(RingCollectionExponents \union {c})
            = IF c \in RingCollectionExponents THEN Cardinality(RingCollectionExponents)
              ELSE Cardinality(RingCollectionExponents) + 1
    BY <1>1, FS_AddElement, Zenon
  <1> QED
    BY <1>1, <1>2, PalletAssumption DEF has_room_for

\* The entries of a generation are kept when its windows are.
LEMMA EntriesKept ==
    ASSUME NEW g, RingRoots'[g] = RingRoots[g]
    PROVE  Entries(g)' = Entries(g)
  BY DEF Entries

\* A batch stored in the live generation keeps the invariant.
LEMMA StoreLive ==
    ASSUME Inv, NEW batch, IsBatch(batch),
           store_ring_roots(batch, CurrentGeneration, RingCollectionStates, given_up),
           RingCollectionExponents' = RingCollectionExponents \union {batch.identifier},
           has_room_for(batch.identifier), IsActive',
           Subscription' \in [status : {"Inactive", "Active", "Terminated"},
                              initialized_at_sequence : Nat],
           ProcessingState' \in [last_processed_sequence : Nat, last_replay_request_time : Nat],
           UNCHANGED <<CurrentGeneration, QueuedRingPurge, now>>
    PROVE  Inv'
  <1> DEFINE b == batch.identifier
             g == CurrentGeneration
  <1>1. /\ TypeOK /\ WindowsDistinct /\ PurgeSafe /\ OnlyInitialized /\ b \in Identifier
        /\ g \in Generation /\ RingCollectionStates \in [Identifier -> CollectionState]
        /\ given_up \in SUBSET (Identifier \X RingIndex)
        /\ RingCollectionExponents \subseteq Identifier
        /\ now \in Nat /\ QueuedRingPurge \in Generation \union {NoPurge}
        /\ \A c \in Identifier :
            CollectionOK(c, RingCollectionStates[c], RingRoots[g][c], given_up)
    BY Types DEF Inv, StoreClean, CollectionsOK, IsBatch
  <1>2. /\ RingRoots' \in [Generation -> [Identifier -> Windows]]
        /\ RingCollectionStates' \in [Identifier -> CollectionState]
        /\ given_up' \subseteq Identifier \X RingIndex
        /\ \A c \in Identifier :
            CollectionOK(c, RingCollectionStates'[c], RingRoots'[g][c], given_up')
        /\ \A c \in Identifier \ {b} :
            RingCollectionStates'[c] = RingCollectionStates[c] /\ RingRoots'[g][c] = RingRoots[g][c]
        /\ \A h \in Generation \ {g} : RingRoots'[h] = RingRoots[h]
        /\ WindowsDistinct'
    BY <1>1, StoreStep
  <1>3. CurrentGeneration' = g /\ QueuedRingPurge' = QueuedRingPurge /\ now' = now
    OBVIOUS
  <1>4. TypeOK'
    <2>1. RingCollectionExponents' \subseteq Identifier
      BY <1>1
    <2> QED
      BY <1>1, <1>2, <1>3, <2>1, Zenon DEF TypeOK, Windows, Record
  <1>5. PurgeSafe'
    <2>1. \A h \in Generation : Entries(h)' # {} => h = g \/ Entries(h) # {}
      BY <1>2, EntriesKept
    <2> QED
      BY <1>1, <1>3, <2>1 DEF PurgeSafe
  <1>6. OnlyInitialized'
    <2>1. Cardinality(RingCollectionExponents') <= MaxCollections
      BY <1>1, ExponentsBounded DEF OnlyInitialized
    <2>2. \A c \in Identifier \ RingCollectionExponents' :
            RingCollectionStates'[c] = NoState /\ Stored(c)' = {}
      BY <1>1, <1>2, <1>3 DEF OnlyInitialized, Stored, current_ring_roots
    <2> QED
      BY <2>1, <2>2 DEF OnlyInitialized
  <1>7. CollectionsOK'
    BY <1>2, <1>3 DEF CollectionsOK
  <1> QED
    BY <1>2, <1>4, <1>5, <1>6, <1>7 DEF Inv, StoreClean

LEMMA ActiveType ==
    ASSUME NEW sequence \in Nat
    PROVE  /\ Active(sequence) \in [status : {"Inactive", "Active", "Terminated"},
                                    initialized_at_sequence : Nat]
           /\ Active(sequence).status = "Active"
  BY DEF Active

-----------------------------------------------------------------------------
(* Calls *)

LEMMA InitializeStep ==
    ASSUME Inv, NEW batch \in Batches, initialize_ring_roots(batch)
    PROVE  Inv'
  <1> DEFINE b == batch.identifier
  <1>1. IsBatch(batch) /\ b \in Identifier /\ batch.sequence \in Nat
    BY BatchFields DEF IsBatch
  <1>2. Subscription' = Active(batch.sequence) /\ now' = now
    BY DEF initialize_ring_roots
  <1>3. IsActive' /\ Subscription' \in [status : {"Inactive", "Active", "Terminated"},
                                        initialized_at_sequence : Nat]
    BY <1>1, <1>2, ActiveType DEF IsActive
  <1>4. ProcessingState \in [last_processed_sequence : Nat, last_replay_request_time : Nat]
    BY Types DEF Inv
  <1>5. CASE /\ has_room_for(b)
             /\ store_ring_roots(batch, CurrentGeneration, RingCollectionStates, given_up)
             /\ RingCollectionExponents' = RingCollectionExponents \union {b}
             /\ ProcessingState' = [ProcessingState EXCEPT
                                        !.last_processed_sequence = batch.sequence]
             /\ UNCHANGED <<CurrentGeneration, QueuedRingPurge>>
    <2>1. ProcessingState' \in [last_processed_sequence : Nat, last_replay_request_time : Nat]
      BY <1>1, <1>4, <1>5
    <2> QED
      BY <1>1, <1>2, <1>3, <1>5, <2>1, StoreLive
  <1>6. CASE /\ clear_all_ring_data
             /\ store_ring_roots(batch, CurrentGeneration + 1, NoStates, {})
             /\ RingCollectionExponents' = {b}
             /\ ProcessingState' = [NoProcessing EXCEPT
                                        !.last_processed_sequence = batch.sequence]
    <2> DEFINE g == CurrentGeneration + 1
    <2>1. TypeOK /\ PurgeSafe /\ WindowsDistinct /\ now \in Nat
      BY Types DEF Inv, StoreClean
    <2>2. /\ g \in Generation
          /\ CurrentGeneration' = g
          /\ QueuedRingPurge' \in Generation
          /\ QueuedRingPurge' < CurrentGeneration'
          /\ \A c \in Identifier : StoredIn(RingRoots[g][c]) = {}
          /\ \A h \in Generation : Entries(h) # {} => h < g /\ QueuedRingPurge' <= h
      BY <1>6, <2>1, ClearStep
    <2>3. \A c \in Identifier : CollectionOK(c, NoStates[c], RingRoots[g][c], {})
      BY <2>2, EmptyCollection, NoStatesType
    <2>4. /\ RingRoots' \in [Generation -> [Identifier -> Windows]]
          /\ RingCollectionStates' \in [Identifier -> CollectionState]
          /\ given_up' \subseteq Identifier \X RingIndex
          /\ \A c \in Identifier :
                CollectionOK(c, RingCollectionStates'[c], RingRoots'[g][c], given_up')
          /\ \A c \in Identifier \ {b} :
                RingCollectionStates'[c] = NoStates[c] /\ RingRoots'[g][c] = RingRoots[g][c]
          /\ \A h \in Generation \ {g} : RingRoots'[h] = RingRoots[h]
          /\ WindowsDistinct'
      BY <1>1, <1>6, <2>1, <2>2, <2>3, NoStatesType, StoreStep
    <2>5. TypeOK'
      <3>1. ProcessingState' \in [last_processed_sequence : Nat, last_replay_request_time : Nat]
        BY <1>1, <1>6 DEF NoProcessing
      <3>2. RingCollectionExponents' \subseteq Identifier /\ CurrentGeneration' \in Generation
            /\ QueuedRingPurge' \in Generation \union {NoPurge} /\ now' \in Nat
        BY <1>1, <1>2, <1>6, <2>1, <2>2
      <3> QED
        BY <1>3, <2>4, <3>1, <3>2, Zenon DEF TypeOK, Windows, Record
    <2>6. PurgeSafe'
      <3>1. \A h \in Generation : Entries(h)' # {} => h = g \/ Entries(h) # {}
        BY <2>4, EntriesKept
      <3>2. QueuedRingPurge' # NoPurge
        BY <2>2, GenerationType DEF NoPurge
      <3> QED
        BY <2>2, <3>1, <3>2 DEF PurgeSafe
    <2>7. OnlyInitialized'
      <3>1. Cardinality(RingCollectionExponents') <= MaxCollections
        <4>1. Cardinality({b}) = 1
          BY FS_Singleton
        <4> QED
          BY <1>6, <4>1, PalletAssumption
      <3>2. \A c \in Identifier \ RingCollectionExponents' :
                RingCollectionStates'[c] = NoState /\ Stored(c)' = {}
        BY <1>6, <2>2, <2>4, NoStatesType DEF Stored, StoredIn, current_ring_roots
      <3> QED
        BY <1>3, <3>1, <3>2 DEF OnlyInitialized
    <2>8. CollectionsOK'
      BY <2>2, <2>4 DEF CollectionsOK
    <2> QED
      BY <2>4, <2>5, <2>6, <2>7, <2>8 DEF Inv, StoreClean
  <1> QED
    BY <1>5, <1>6 DEF initialize_ring_roots

LEMMA ProcessStep ==
    ASSUME Inv, NEW batch \in Batches, process_ring_updates(batch)
    PROVE  Inv'
  <1> DEFINE b == batch.identifier
  <1>1. IsBatch(batch) /\ b \in Identifier /\ batch.sequence \in Nat
    BY BatchFields DEF IsBatch
  <1>2. /\ b \in RingCollectionExponents /\ IsActive
        /\ store_ring_roots(batch, CurrentGeneration, RingCollectionStates, given_up)
        /\ ProcessingState' = [ProcessingState EXCEPT !.last_processed_sequence = batch.sequence]
        /\ UNCHANGED <<CurrentGeneration, QueuedRingPurge, RingCollectionExponents,
                       Subscription, now>>
    BY DEF process_ring_updates, accepts_ring_updates
  <1>3. ProcessingState' \in [last_processed_sequence : Nat, last_replay_request_time : Nat]
    <2>1. ProcessingState \in [last_processed_sequence : Nat, last_replay_request_time : Nat]
      BY Types DEF Inv
    <2> QED
      BY <1>1, <1>2, <2>1
  <1>4. /\ RingCollectionExponents' = RingCollectionExponents \union {b} /\ has_room_for(b)
        /\ IsActive'
        /\ Subscription' \in [status : {"Inactive", "Active", "Terminated"},
                              initialized_at_sequence : Nat]
    BY <1>2, Types DEF Inv, has_room_for, IsActive
  <1> QED
    BY <1>1, <1>2, <1>3, <1>4, StoreLive

LEMMA TerminateStep ==
    ASSUME Inv, terminate_subscription
    PROVE  Inv'
  <1> DEFINE g == CurrentGeneration + 1
  <1>1. TypeOK /\ PurgeSafe /\ WindowsDistinct
        /\ RingRoots \in [Generation -> [Identifier -> Windows]] /\ now \in Nat
    BY Types DEF Inv, StoreClean
  <1>2. /\ clear_all_ring_data
        /\ RingCollectionStates' = NoStates
        /\ RingCollectionExponents' = {}
        /\ ProcessingState' = NoProcessing
        /\ Subscription' = Terminated
        /\ given_up' = {}
        /\ RingRoots' = RingRoots /\ now' = now
    BY DEF terminate_subscription
  <1>3. /\ g \in Generation
        /\ CurrentGeneration' = g
        /\ QueuedRingPurge' \in Generation
        /\ QueuedRingPurge' < CurrentGeneration'
        /\ \A c \in Identifier : StoredIn(RingRoots[g][c]) = {}
        /\ \A h \in Generation : Entries(h) # {} => h < g /\ QueuedRingPurge' <= h
    BY <1>1, <1>2, ClearStep
  <1>4. TypeOK'
    <2>1. /\ NoProcessing \in [last_processed_sequence : Nat, last_replay_request_time : Nat]
          /\ Terminated \in [status : {"Inactive", "Active", "Terminated"},
                             initialized_at_sequence : Nat]
      BY DEF NoProcessing, Terminated
    <2>2. RingCollectionStates' \in [Identifier -> CollectionState]
      BY <1>2, NoStatesType
    <2> QED
      BY <1>1, <1>2, <1>3, <2>1, <2>2, Zenon DEF TypeOK, Windows, Record
  <1>5. PurgeSafe'
    <2>1. \A h \in Generation : Entries(h)' = Entries(h)
      BY <1>2, EntriesKept
    <2>2. QueuedRingPurge' # NoPurge
      BY <1>3, GenerationType DEF NoPurge
    <2> QED
      BY <1>3, <2>1, <2>2 DEF PurgeSafe
  <1>6. OnlyInitialized'
    <2>1. \A c \in Identifier : RingCollectionStates'[c] = NoState /\ Stored(c)' = {}
      BY <1>2, <1>3, NoStatesType DEF Stored, StoredIn, current_ring_roots
    <2>2. Cardinality(RingCollectionExponents') <= MaxCollections
      BY <1>2, FS_EmptySet, PalletAssumption
    <2> QED
      BY <1>2, <2>1, <2>2 DEF OnlyInitialized
  <1>7. CollectionsOK'
    BY <1>2, <1>3, NoStatesType, EmptyCollection DEF CollectionsOK
  <1>8. WindowsDistinct'
    BY <1>1, <1>2 DEF WindowsDistinct
  <1> QED
    BY <1>4, <1>5, <1>6, <1>7, <1>8 DEF Inv, StoreClean

\* A call that changes the state of one initialised collection only.
LEMMA StateStep ==
    ASSUME Inv, NEW c \in Identifier, RingCollectionStates[c] # NoState,
           NEW state \in CollectionState,
           RingCollectionStates' = [RingCollectionStates EXCEPT ![c] = state],
           CollectionOK(c, state, RingRoots[CurrentGeneration][c], given_up'),
           given_up \subseteq given_up', given_up' \subseteq Identifier \X RingIndex,
           ProcessingState' \in [last_processed_sequence : Nat, last_replay_request_time : Nat],
           UNCHANGED <<roots, RingCollectionExponents, Subscription, now>>
    PROVE  Inv'
  <1> DEFINE g == CurrentGeneration
  <1>1. /\ RingRoots' = RingRoots /\ CurrentGeneration' = CurrentGeneration
        /\ QueuedRingPurge' = QueuedRingPurge
        /\ RingCollectionExponents' = RingCollectionExponents
        /\ Subscription' = Subscription /\ now' = now
    BY DEF roots
  <1>2. /\ TypeOK /\ PurgeSafe /\ OnlyInitialized /\ WindowsDistinct /\ CollectionsOK
        /\ RingCollectionStates \in [Identifier -> CollectionState]
    BY Types DEF Inv, StoreClean
  <1>3. /\ RingCollectionStates' \in [Identifier -> CollectionState]
        /\ RingCollectionStates'[c] = state
        /\ \A d \in Identifier \ {c} : RingCollectionStates'[d] = RingCollectionStates[d]
    BY <1>2
  <1>4. TypeOK'
    BY <1>1, <1>2, <1>3, Zenon DEF TypeOK
  <1>5. PurgeSafe'
    BY <1>1, <1>2, EntriesKept DEF PurgeSafe
  <1>6. OnlyInitialized'
    <2>1. \A d \in Identifier \ RingCollectionExponents' :
            d # c /\ RingCollectionStates[d] = NoState /\ Stored(d) = {}
      BY <1>1, <1>2 DEF OnlyInitialized
    <2>2. \A d \in Identifier : Stored(d)' = Stored(d)
      BY <1>1 DEF Stored, current_ring_roots
    <2>3. IsActive' = IsActive
      BY <1>1 DEF IsActive
    <2> QED
      BY <1>1, <1>2, <1>3, <2>1, <2>2, <2>3 DEF OnlyInitialized
  <1>7. CollectionsOK'
    <2> SUFFICES ASSUME NEW d \in Identifier
                 PROVE  CollectionOK(d, RingCollectionStates'[d], RingRoots[g][d], given_up')
      BY <1>1 DEF CollectionsOK
    <2>1. CASE d = c
      BY <1>3, <2>1
    <2>2. CASE d # c
      <3>1. CollectionOK(d, RingCollectionStates[d], RingRoots[g][d], given_up)
        BY <1>2 DEF CollectionsOK
      <3>2. CollectionOK(d, RingCollectionStates[d], RingRoots[g][d], given_up')
        BY <3>1 DEF CollectionOK, Tracked
      <3> QED
        BY <1>3, <2>2, <3>2
    <2> QED
      BY <2>1, <2>2
  <1>8. WindowsDistinct'
    BY <1>1, <1>2 DEF WindowsDistinct
  <1> QED
    BY <1>4, <1>5, <1>6, <1>7, <1>8 DEF Inv, StoreClean

LEMMA ReplayStep ==
    ASSUME Inv, NEW c \in Identifier, NEW indices \in SUBSET RingIndex,
           NEW sent \in SUBSET RingIndex, replay_missing_roots(c, indices, sent)
    PROVE  Inv'
  <1> DEFINE old == RingCollectionStates[c]
             windows == RingRoots[CurrentGeneration][c]
             dropped == Abandoned(c, indices)
             asked == ToSend(c, indices)
             counts == [r \in RingIndex |->
                            IF r \in dropped THEN NotMissing
                            ELSE old.missing_indices[r] + (IF r \in asked THEN 1 ELSE 0)]
             new == [old EXCEPT !.missing_indices = counts]
  <1>1. /\ old \in CollectionState /\ CollectionOK(c, old, windows, given_up) /\ now \in Nat
        /\ ProcessingState \in [last_processed_sequence : Nat, last_replay_request_time : Nat]
        /\ given_up \subseteq Identifier \X RingIndex
    BY Types DEF Inv, CollectionsOK
  <1>2. /\ indices \intersect Missing(c) # {}
        /\ RingCollectionStates' = [RingCollectionStates EXCEPT ![c] = new]
        /\ ProcessingState' = IF sent = {} THEN ProcessingState
                              ELSE [ProcessingState EXCEPT !.last_replay_request_time = now]
        /\ given_up' = given_up \union ({c} \X dropped)
        /\ UNCHANGED <<roots, RingCollectionExponents, Subscription, now>>
    BY DEF replay_missing_roots, authorize_replay_missing_roots
  <1>3. Missing(c) = MissingIn(old)
    BY DEF Missing, MissingIn
  <1>4. old # NoState
    <2>1. MissingIn(NoState) = {}
      BY DEF MissingIn, NoState
    <2> QED
      BY <1>2, <1>3, <2>1
  <1>5. ProcessingState' \in [last_processed_sequence : Nat, last_replay_request_time : Nat]
    BY <1>1, <1>2
  <1>6. /\ old.missing_indices \in [RingIndex -> Int]
        /\ MissingIn(old) \subseteq RingIndex
        /\ \A r \in MissingIn(old) :
            old.missing_indices[r] \in 0 .. ReplayAbandonThreshold - 1
    BY <1>1 DEF CollectionState, MissingIn, CollectionOK, Gaps
  <1>7. /\ dropped \subseteq MissingIn(old) /\ asked \subseteq MissingIn(old)
        /\ \A r \in asked : ~ (old.missing_indices[r] + 1 >= ReplayAbandonThreshold)
    BY <1>3 DEF Abandoned, ToSend
  <1> HIDE DEF dropped, asked
  <1>8. counts \in [RingIndex -> Int]
    BY <1>6, PalletAssumption DEF NotMissing
  <1>9. \A r \in RingIndex :
            IF r \in MissingIn(old) \ dropped
            THEN counts[r] # NotMissing /\ counts[r] \in 0 .. ReplayAbandonThreshold - 1
            ELSE counts[r] = NotMissing
    BY <1>6, <1>7, PalletAssumption DEF NotMissing, MissingIn
  <1> HIDE DEF counts, old
  <1>10. /\ new \in CollectionState
         /\ new.ring_count = old.ring_count /\ new.next_ring_index = old.next_ring_index
         /\ new.next_scan_index = old.next_scan_index
         /\ new.deleted_indices = old.deleted_indices
         /\ new.missing_indices = counts
    BY <1>1, <1>8 DEF CollectionState
  <1> HIDE DEF new
  <1>11. MissingIn(new) = MissingIn(old) \ dropped
         /\ \A r \in MissingIn(new) : new.missing_indices[r] \in 0 .. ReplayAbandonThreshold - 1
    BY <1>6, <1>9, <1>10 DEF MissingIn
  <1>12. Covered(new, windows)
    BY <1>1, <1>10 DEF CollectionOK, Covered
  <1>13. Gaps(new, windows)
    <2>1. Cardinality(MissingIn(new)) <= MaxMissingRootsPerCollection
      <3>1. /\ IsFiniteSet(MissingIn(old)) /\ Cardinality(MissingIn(old)) \in Nat
            /\ Cardinality(MissingIn(new)) \in Nat
            /\ MissingIn(new) \in SUBSET MissingIn(old)
        BY <1>6, <1>11, RingSets
      <3>2. Cardinality(MissingIn(new)) <= Cardinality(MissingIn(old))
        BY <3>1, FS_Subset
      <3>3. Cardinality(MissingIn(old)) <= MaxMissingRootsPerCollection
        BY <1>1 DEF CollectionOK, Gaps
      <3> QED
        BY <3>1, <3>2, <3>3, PalletAssumption
    <2>2. Gaps(old, windows)
      BY <1>1 DEF CollectionOK
    <2> QED
      BY <1>10, <1>11, <2>1, <2>2 DEF Gaps
  <1>14. Tracked(c, new, windows, given_up')
    <2> SUFFICES ASSUME NEW r \in RingIndex, r < new.next_scan_index
                 PROVE  \/ r \in StoredIn(windows) \/ r \in new.deleted_indices
                        \/ r \in MissingIn(new) \/ <<c, r>> \in given_up'
      BY DEF Tracked
    <2>1. \/ r \in StoredIn(windows) \/ r \in old.deleted_indices
          \/ r \in MissingIn(old) \/ <<c, r>> \in given_up
      BY <1>1, <1>10 DEF CollectionOK, Tracked
    <2>2. r \in dropped => <<c, r>> \in given_up'
      BY <1>2
    <2> QED
      BY <1>2, <1>10, <1>11, <2>1, <2>2
  <1>15. given_up \subseteq given_up' /\ given_up' \subseteq Identifier \X RingIndex
    BY <1>1, <1>2, <1>6, <1>7
  <1>16. CollectionOK(c, new, windows, given_up')
    BY <1>12, <1>13, <1>14 DEF CollectionOK
  <1> QED
    BY <1>2, <1>4, <1>5, <1>10, <1>15, <1>16, StateStep DEF old

LEMMA PurgeStep ==
    ASSUME Inv, NEW removed \in SUBSET (Identifier \X RingIndex),
           purge_stale_ring_roots(removed)
    PROVE  Inv'
  <1>0. PICK g \in Generation : g = QueuedRingPurge
    BY Types DEF Inv, purge_stale_ring_roots, authorize_purge_stale_ring_roots
  <1> DEFINE left == [c \in Identifier |-> [r \in RingIndex |->
                        IF <<c, r>> \in removed THEN <<>> ELSE RingRoots[g][c][r]]]
  <1>1. /\ TypeOK /\ PurgeSafe /\ OnlyInitialized /\ WindowsDistinct /\ CollectionsOK
        /\ RingRoots \in [Generation -> [Identifier -> Windows]]
        /\ CurrentGeneration \in Generation
    BY Types DEF Inv, StoreClean
  <1>2. /\ QueuedRingPurge = g /\ g # NoPurge /\ g < CurrentGeneration
        /\ removed \subseteq Entries(g)
        /\ RingRoots' = [RingRoots EXCEPT ![g] = left]
        /\ QueuedRingPurge' = IF removed # Entries(g) THEN g ELSE next_purge(g)
        /\ UNCHANGED <<CurrentGeneration, RingCollectionStates, RingCollectionExponents,
                       Subscription, ProcessingState, now, given_up>>
    BY <1>0 DEF purge_stale_ring_roots, authorize_purge_stale_ring_roots
  <1>3. g \in Nat /\ CurrentGeneration \in Nat /\ g # CurrentGeneration
    BY <1>1, <1>2, GenerationType
  <1>4. left \in [Identifier -> Windows]
    BY <1>1, <1>3 DEF Windows
  <1>5. /\ RingRoots' \in [Generation -> [Identifier -> Windows]]
        /\ RingRoots'[g] = left
        /\ \A h \in Generation \ {g} : RingRoots'[h] = RingRoots[h]
    BY <1>1, <1>2, <1>3, <1>4
  <1>6. QueuedRingPurge' = IF removed # Entries(g) THEN g
                           ELSE IF g + 1 < CurrentGeneration THEN g + 1 ELSE NoPurge
    BY <1>2 DEF next_purge
  <1>7. QueuedRingPurge' \in Generation \union {NoPurge}
        /\ (QueuedRingPurge' # NoPurge => QueuedRingPurge' < CurrentGeneration)
    <2>1. g + 1 < CurrentGeneration => g + 1 \in Generation
      BY <1>1, <1>3, BoundAssumption DEF Generation
    <2> QED
      BY <1>2, <1>3, <1>6, <2>1
  <1>8. TypeOK'
    BY <1>1, <1>2, <1>5, <1>7, Zenon DEF TypeOK, Windows, Record
  <1>9. PurgeSafe'
    <2>1. removed = Entries(g) => Entries(g)' = {}
      <3>1. SUFFICES ASSUME removed = Entries(g), NEW u \in Identifier \X RingIndex,
                            RingRoots'[g][u[1]][u[2]] # <<>>
                     PROVE  FALSE
        BY DEF Entries
      <3>2. PICK c \in Identifier, r \in RingIndex : u = <<c, r>>
        OBVIOUS
      <3>3. RingRoots'[g][c][r] = IF <<c, r>> \in removed THEN <<>> ELSE RingRoots[g][c][r]
        BY <1>5
      <3>4. <<c, r>> \notin Entries(g) /\ RingRoots[g][c][r] # <<>>
        BY <3>1, <3>2, <3>3
      <3> QED
        BY <3>4 DEF Entries
    <2>2. \A h \in Generation \ {g} : Entries(h)' = Entries(h)
      BY <1>5, EntriesKept
    <2>3. ASSUME NEW h \in Generation, Entries(h)' # {}, h # CurrentGeneration
          PROVE  h < CurrentGeneration /\ QueuedRingPurge' # NoPurge /\ QueuedRingPurge' <= h
      <3>0. h \in Nat
        BY GenerationType
      <3>1. CASE h = g
        <4>1. QueuedRingPurge' = g
          BY <1>6, <2>1, <2>3, <3>1
        <4> QED
          BY <1>2, <1>3, <3>1, <4>1
      <3>2. CASE h # g
        <4>1. h < CurrentGeneration /\ g <= h
          <5>1. Entries(h) # {}
            BY <2>2, <2>3, <3>2
          <5> QED
            BY <1>1, <1>2, <2>3, <5>1 DEF PurgeSafe
        <4>2. g + 1 <= h /\ g + 1 < CurrentGeneration
          BY <1>3, <3>0, <3>2, <4>1
        <4> QED
          BY <1>2, <1>3, <1>6, <3>0, <4>1, <4>2 DEF NoPurge
      <3> QED
        BY <3>1, <3>2
    <2> QED
      BY <1>2, <1>7, <2>3 DEF PurgeSafe
  <1>10. RingRoots'[CurrentGeneration] = RingRoots[CurrentGeneration]
    BY <1>1, <1>3, <1>5
  <1>11. OnlyInitialized'
    BY <1>1, <1>2, <1>10 DEF OnlyInitialized, Stored, current_ring_roots, IsActive
  <1>12. CollectionsOK'
    BY <1>1, <1>2, <1>10 DEF CollectionsOK
  <1>13. WindowsDistinct'
    <2>1. \A h \in Generation, c \in Identifier, r \in RingIndex : Distinct(RingRoots[h][c][r])
      BY <1>1 DEF WindowsDistinct, Distinct
    <2>2. Distinct(<<>>)
      BY PalletAssumption DEF Distinct
    <2>3. \A c \in Identifier, r \in RingIndex : Distinct(left[c][r])
      BY <1>3, <2>1, <2>2
    <2>4. \A h \in Generation, c \in Identifier, r \in RingIndex : Distinct(RingRoots'[h][c][r])
      BY <1>5, <2>1, <2>3
    <2> QED
      BY <2>4 DEF WindowsDistinct, Distinct
  <1> QED
    BY <1>8, <1>9, <1>11, <1>12, <1>13 DEF Inv, StoreClean

\* When the sum of what is stored and deleted reaches the frontier, no ring below the
\* frontier is a gap: accounted_for may stand for a scan of all of them.
LEMMA AccountedCovers ==
    ASSUME NEW state \in CollectionState, NEW windows, Covered(state, windows),
           accounted_for(state), NEW r \in RingIndex, r < state.next_ring_index
    PROVE  r \in StoredIn(windows) \/ r \in state.deleted_indices
  <1> DEFINE S == StoredIn(windows)
             D == state.deleted_indices
             n == state.next_ring_index
             all == 0 .. n - 1
  <1>1. S \subseteq RingIndex /\ D \subseteq RingIndex /\ n \in 0 .. RingCount
    BY DEF StoredIn, CollectionState
  <1>2. S \union D \subseteq all /\ S \intersect D = {}
    <2>1. S \intersect D = {} /\ \A q \in S \union D : q < n
      BY DEF Covered
    <2> HIDE DEF S, D, n
    <2> QED
      BY <1>1, <2>1, RingSets, ContentAssumption
  <1>3. n \in Nat /\ IsFiniteSet(all) /\ Cardinality(all) = n
    <2>1. n \in Nat /\ n - 1 \in Int
      BY <1>1, ContentAssumption
    <2> HIDE DEF n
    <2>2. IsFiniteSet(all) /\ Cardinality(all) = IF 0 > n - 1 THEN 0 ELSE n - 1 - 0 + 1
      BY <2>1, FS_Interval
    <2> QED
      BY <2>1, <2>2
  <1>4. Cardinality(S) + Cardinality(D) >= n
    BY DEF accounted_for, Covered
  <1>5. r \in all
    BY <1>3, RingSets
  <1> HIDE DEF S, D, n, all
  <1>6. /\ IsFiniteSet(S) /\ IsFiniteSet(D)
        /\ Cardinality(S) \in Nat /\ Cardinality(D) \in Nat
    BY <1>1, RingSets
  <1>7. Cardinality(S \union D) = Cardinality(S) + Cardinality(D)
    <2>1. Cardinality(S \union D) = Cardinality(S) + Cardinality(D) - Cardinality({})
      BY <1>2, <1>6, FS_Union
    <2> QED
      BY <1>6, <2>1, FS_EmptySet
  <1>8. Cardinality(S \union D) <= Cardinality(all)
        /\ (Cardinality(all) = Cardinality(S \union D) => all = S \union D)
    BY <1>2, <1>3, FS_Subset
  <1>9. all = S \union D
    BY <1>3, <1>4, <1>6, <1>7, <1>8
  <1> QED
    BY <1>5, <1>9 DEF S, D

LEMMA DetectStep ==
    ASSUME Inv, NEW c \in Identifier, NEW cursor \in 0 .. RingCount,
           detect_missing_rings(c, cursor)
    PROVE  Inv'
  <1> DEFINE old == RingCollectionStates[c]
             windows == RingRoots[CurrentGeneration][c]
             gaps == {r \in RingIndex : r >= old.next_scan_index
                                         /\ r \notin Stored(c) /\ r \notin old.deleted_indices}
             found == {r \in gaps : r < cursor}
             room == MaxMissingRootsPerCollection - Cardinality(Missing(c))
  <1>1. /\ old \in CollectionState /\ CollectionOK(c, old, windows, given_up)
        /\ ProcessingState \in [last_processed_sequence : Nat, last_replay_request_time : Nat]
        /\ given_up \subseteq Identifier \X RingIndex
    BY Types DEF Inv, CollectionsOK
  <1>2. Missing(c) = MissingIn(old) /\ Stored(c) = StoredIn(windows)
    BY DEF Missing, MissingIn, Stored, StoredIn, current_ring_roots
  <1>3. /\ old.next_scan_index < old.next_ring_index
        /\ UNCHANGED <<roots, RingCollectionExponents, Subscription, ProcessingState, now, given_up>>
    BY DEF detect_missing_rings, authorize_detect_missing_rings
  <1>4. old # NoState
    BY <1>3 DEF NoState
  <1>5. /\ old.ring_count \in Int
        /\ old.next_ring_index \in 0 .. RingCount
        /\ old.next_scan_index \in 0 .. RingCount
        /\ old.missing_indices \in [RingIndex -> Int]
        /\ old.deleted_indices \in SUBSET RingIndex
    BY <1>1 DEF CollectionState
  <1>6. ASSUME NEW counts \in [RingIndex -> Int],
               RingCollectionStates' = [RingCollectionStates EXCEPT ![c] =
                    [old EXCEPT !.missing_indices = counts, !.next_scan_index = cursor]],
               cursor <= old.next_ring_index,
               LET missing == {r \in RingIndex : counts[r] # NotMissing}
               IN  /\ \A r \in missing :
                        /\ r < cursor
                        /\ r \notin StoredIn(windows) /\ r \notin old.deleted_indices
                        /\ counts[r] \in 0 .. ReplayAbandonThreshold - 1
                   /\ Cardinality(missing) <= MaxMissingRootsPerCollection
                   /\ \A r \in RingIndex : r < cursor =>
                        \/ r \in StoredIn(windows) \/ r \in old.deleted_indices
                        \/ r \in missing \/ <<c, r>> \in given_up
        PROVE  Inv'
    <2> DEFINE new == [old EXCEPT !.missing_indices = counts, !.next_scan_index = cursor]
    <2>1. RingCollectionStates' = [RingCollectionStates EXCEPT ![c] = new]
      BY <1>6
    <2>2. /\ new \in CollectionState
          /\ new.ring_count = old.ring_count /\ new.next_ring_index = old.next_ring_index
          /\ new.next_scan_index = cursor
          /\ new.deleted_indices = old.deleted_indices
          /\ new.missing_indices = counts
      BY <1>1 DEF CollectionState
    <2> HIDE DEF new
    <2>3. MissingIn(new) = {r \in RingIndex : counts[r] # NotMissing}
      BY <2>2 DEF MissingIn
    <2>4. Covered(new, windows)
      BY <1>1, <2>2 DEF CollectionOK, Covered
    <2>5. Gaps(new, windows)
      BY <1>1, <1>6, <2>2, <2>3 DEF CollectionOK, Gaps
    <2>6. Tracked(c, new, windows, given_up')
      BY <1>3, <1>6, <2>2, <2>3 DEF Tracked
    <2>7. CollectionOK(c, new, windows, given_up')
      BY <2>4, <2>5, <2>6 DEF CollectionOK
    <2> QED
      BY <1>1, <1>3, <1>4, <2>1, <2>2, <2>7, StateStep
  <1>7. CASE /\ accounted_for(old)
             /\ cursor = old.next_ring_index
             /\ RingCollectionStates' = [RingCollectionStates EXCEPT ![c] =
                    [old EXCEPT !.missing_indices = [r \in RingIndex |-> NotMissing],
                                !.next_scan_index = cursor]]
    <2> DEFINE counts == [r \in RingIndex |-> NotMissing]
    <2>1. counts \in [RingIndex -> Int]
      BY DEF NotMissing
    <2>2. {r \in RingIndex : counts[r] # NotMissing} = {}
      OBVIOUS
    <2>3. \A r \in RingIndex : r < cursor => r \in StoredIn(windows) \/ r \in old.deleted_indices
      BY <1>1, <1>7, AccountedCovers DEF CollectionOK
    <2>4. Cardinality({}) <= MaxMissingRootsPerCollection
      BY FS_EmptySet, PalletAssumption
    <2>5. cursor <= old.next_ring_index
      BY <1>5, <1>7
    <2> QED
      BY <1>6, <1>7, <2>1, <2>2, <2>3, <2>4, <2>5
  <1>8. CASE /\ cursor \in old.next_scan_index .. old.next_ring_index
             /\ Cardinality(found) <= room
             /\ RingCollectionStates' = [RingCollectionStates EXCEPT ![c] =
                    [old EXCEPT !.missing_indices =
                                    [r \in RingIndex |->
                                        IF r \in found THEN 0 ELSE old.missing_indices[r]],
                                !.next_scan_index = cursor]]
    <2> DEFINE counts == [r \in RingIndex |->
                            IF r \in found THEN 0 ELSE old.missing_indices[r]]
               missing == {r \in RingIndex : counts[r] # NotMissing}
    <2>1. counts \in [RingIndex -> Int]
      BY <1>5
    <2>2. found \subseteq RingIndex /\ MissingIn(old) \subseteq RingIndex
      BY DEF MissingIn
    <2>3. missing = MissingIn(old) \union found
      BY <2>2 DEF MissingIn, NotMissing
    <2>4. cursor <= old.next_ring_index /\ old.next_scan_index <= cursor
      BY <1>5, <1>8
    <2>5. ASSUME NEW r \in missing
          PROVE  /\ r < cursor
                 /\ r \notin StoredIn(windows) /\ r \notin old.deleted_indices
                 /\ counts[r] \in 0 .. ReplayAbandonThreshold - 1
      <3>0. r \in RingIndex /\ r \in Nat
        BY RingSets
      <3>1. CASE r \in found
        BY <1>2, <3>0, <3>1, PalletAssumption
      <3>2. CASE r \notin found
        <4>1. r \in MissingIn(old) /\ counts[r] = old.missing_indices[r]
          BY <2>3, <3>0, <3>2
        <4>2. /\ r < old.next_scan_index
              /\ r \notin StoredIn(windows) /\ r \notin old.deleted_indices
              /\ old.missing_indices[r] \in 0 .. ReplayAbandonThreshold - 1
          BY <1>1, <4>1 DEF CollectionOK, Gaps
        <4> QED
          BY <1>5, <2>4, <3>0, <4>1, <4>2
      <3> QED
        BY <3>1, <3>2
    <2>6. Cardinality(missing) <= MaxMissingRootsPerCollection
      <3> DEFINE m == MissingIn(old)
      <3>1. Cardinality(found) <= MaxMissingRootsPerCollection - Cardinality(m)
        BY <1>2, <1>8
      <3> HIDE DEF m, found, missing
      <3>2. /\ IsFiniteSet(m) /\ IsFiniteSet(found)
            /\ Cardinality(m) \in Nat /\ Cardinality(found) \in Nat
            /\ Cardinality(m \intersect found) \in Nat
        BY <2>2, RingSets DEF m
      <3>3. Cardinality(m \union found)
                = Cardinality(m) + Cardinality(found) - Cardinality(m \intersect found)
        BY <3>2, FS_Union
      <3> QED
        BY <2>3, <3>1, <3>2, <3>3, PalletAssumption DEF m
    <2>7. \A r \in RingIndex : r < cursor =>
            \/ r \in StoredIn(windows) \/ r \in old.deleted_indices
            \/ r \in missing \/ <<c, r>> \in given_up
      <3> SUFFICES ASSUME NEW r \in RingIndex, r < cursor
                   PROVE  \/ r \in StoredIn(windows) \/ r \in old.deleted_indices
                          \/ r \in missing \/ <<c, r>> \in given_up
        OBVIOUS
      <3>1. CASE r < old.next_scan_index
        BY <1>1, <2>3, <3>1 DEF CollectionOK, Tracked
      <3>2. CASE ~ (r < old.next_scan_index)
        <4>1. r >= old.next_scan_index
          BY <1>5, <3>2, RingSets
        <4> QED
          BY <1>2, <2>3, <4>1
      <3> QED
        BY <3>1, <3>2
    <2>8. RingCollectionStates' = [RingCollectionStates EXCEPT ![c] =
                    [old EXCEPT !.missing_indices = counts, !.next_scan_index = cursor]]
      BY <1>8
    <2> HIDE DEF counts, found
    <2> QED
      BY <1>6, <2>1, <2>4, <2>5, <2>6, <2>7, <2>8
  <1>9. QED
    <2>1. room \in Int /\ Cardinality(found) \in Nat
      <3>1. found \subseteq RingIndex /\ Missing(c) \subseteq RingIndex
        BY DEF Missing
      <3> HIDE DEF found
      <3> QED
        BY <3>1, RingSets, PalletAssumption
    <2>2. Cardinality(found) = room => Cardinality(found) <= room
      BY <2>1
    <2> QED
      BY <1>7, <1>8, <2>2 DEF detect_missing_rings

-----------------------------------------------------------------------------
(* Theorems *)

LEMMA InitInv == Init => Inv
  <1> SUFFICES ASSUME Init PROVE Inv
    OBVIOUS
  <1> USE DEF Init
  <1>1. NoWindows \in Windows /\ \A r \in RingIndex : NoWindows[r] = <<>>
    BY DEF NoWindows, Windows
  <1>2. 0 \in Generation
    BY BoundAssumption DEF Generation
  <1>3. \A g \in Generation, c \in Identifier : RingRoots[g][c] = NoWindows
    OBVIOUS
  <1>4. \A g \in Generation, c \in Identifier : StoredIn(RingRoots[g][c]) = {}
    BY <1>1, <1>3 DEF StoredIn
  <1>5. TypeOK
    <2>1. RingRoots \in [Generation -> [Identifier -> Windows]]
      BY <1>1
    <2>2. /\ Inactive \in [status : {"Inactive", "Active", "Terminated"},
                           initialized_at_sequence : Nat]
          /\ NoProcessing \in [last_processed_sequence : Nat, last_replay_request_time : Nat]
      BY DEF Inactive, NoProcessing
    <2> QED
      BY <1>2, <2>1, <2>2, NoStatesType, Types
  <1>6. PurgeSafe
    BY <1>4, EntriesExact DEF PurgeSafe
  <1>7. OnlyInitialized
    <2>1. \A c \in Identifier : RingCollectionStates[c] = NoState /\ Stored(c) = {}
      BY <1>2, <1>4, NoStatesType DEF Stored, StoredIn, current_ring_roots
    <2>2. Cardinality(RingCollectionExponents) <= MaxCollections
      BY FS_EmptySet, PalletAssumption
    <2> QED
      BY <2>1, <2>2 DEF OnlyInitialized
  <1>8. CollectionsOK
    BY <1>2, <1>4, NoStatesType, EmptyCollection DEF CollectionsOK
  <1>9. WindowsDistinct
    BY <1>1, <1>3, PalletAssumption DEF WindowsDistinct
  <1> QED
    BY <1>5, <1>6, <1>7, <1>8, <1>9 DEF Inv, StoreClean

LEMMA TickStep ==
    ASSUME Inv, Tick \/ UNCHANGED vars
    PROVE  Inv'
  <1>1. /\ RingRoots' = RingRoots /\ CurrentGeneration' = CurrentGeneration
        /\ QueuedRingPurge' = QueuedRingPurge /\ RingCollectionStates' = RingCollectionStates
        /\ RingCollectionExponents' = RingCollectionExponents /\ Subscription' = Subscription
        /\ ProcessingState' = ProcessingState /\ given_up' = given_up
        /\ now' \in {now, now + 1}
    BY DEF Tick, vars, roots
  <1>2. TypeOK'
    <2>1. now' \in Nat
      BY <1>1, Types DEF Inv
    <2> QED
      BY <1>1, <2>1, Zenon DEF Inv, TypeOK
  <1>3. StoreClean'
    BY <1>1 DEF Inv, StoreClean, PurgeSafe, OnlyInitialized, Entries, Stored,
                current_ring_roots, IsActive
  <1>4. CollectionsOK' /\ WindowsDistinct'
    BY <1>1 DEF Inv, CollectionsOK, WindowsDistinct
  <1> QED
    BY <1>2, <1>3, <1>4 DEF Inv

LEMMA NextInv == Inv /\ [Next]_vars => Inv'
  BY InitializeStep, ProcessStep, TerminateStep, ReplayStep, PurgeStep, DetectStep, TickStep
  DEF Next

\* The invariant of each collection, in the words of the properties.
LEMMA InvProperties ==
    ASSUME Inv
    PROVE  ScanExact /\ GapsTracked
  <1>1. \A c \in Identifier :
            /\ Missing(c) = MissingIn(RingCollectionStates[c])
            /\ Stored(c) = StoredIn(RingRoots[CurrentGeneration][c])
            /\ CollectionOK(c, RingCollectionStates[c], RingRoots[CurrentGeneration][c], given_up)
    BY DEF Inv, CollectionsOK, Missing, MissingIn, Stored, StoredIn, current_ring_roots
  <1>2. CoverageExact
    BY <1>1 DEF CoverageExact, CollectionOK, Covered
  <1>3. MissingAreGaps
    BY <1>1 DEF MissingAreGaps, CollectionOK, Gaps
  <1>4. GapsTracked
    BY <1>1 DEF GapsTracked, CollectionOK, Tracked
  <1> QED
    BY <1>2, <1>3, <1>4 DEF ScanExact

\* All of it at once: no call of the pallet breaks what the next one relies on.
THEOREM Invariant == Spec => []Inv
  BY InitInv, NextInv, PTL DEF Spec

\* Every value the pallet stores is of the type of its storage item.
THEOREM TypeCorrect == Spec => []TypeOK
  <1>1. Inv => TypeOK
    BY DEF Inv
  <1> QED
    BY <1>1, Invariant, PTL

\* clear_all_ring_data and the purge: old entries stay in reach of the purge, which never
\* touches the live generation, and no collection starts with what another left.
THEOREM StoreCorrect == Spec => []StoreClean
  <1>1. Inv => StoreClean
    BY DEF Inv
  <1> QED
    BY <1>1, Invariant, PTL

\* A revision names one record of a window, whatever is replayed, and the window of a
\* ring keeps within its limit.
THEOREM WindowsCorrect == Spec => []WindowsDistinct
  <1>1. Inv => WindowsDistinct
    BY DEF Inv
  <1> QED
    BY <1>1, Invariant, PTL

\* detect_missing_rings decides on right figures: ring_count counts the live windows,
\* missing_indices holds gaps only, and neither bounded map outgrows its limit.
THEOREM ScanCorrect == Spec => []ScanExact
  BY InvProperties, Invariant, PTL

\* No ring below the cursor of the scan is lost sight of, but for those that the pallet
\* gave up.
THEOREM GapsCorrect == Spec => []GapsTracked
  BY InvProperties, Invariant, PTL
=============================================================================

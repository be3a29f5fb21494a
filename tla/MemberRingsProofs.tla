------------------------- MODULE MemberRingsProofs --------------------------
(* What pallets/members keeps right of its rings, its roots and its keys for   *)
(* every size of rings, pages and queues, for every number of keys and rings,   *)
(* in both modes, and for every order of calls.  The rings and their roots come *)
(* first; then where a key is kept: that entries, pages, counts, roots and the  *)
(* onboarding queue agree.                                                      *)
EXTENDS MemberRings, FiniteSetTheorems, SequenceTheorems, TLAPS

-----------------------------------------------------------------------------
(* The inductive invariant *)

\* The collection is not being deleted and is not deleted.
Standing == lifecycle \in {"Unused", "Live"}
Flexible == Mode = "Flexible"

Status == [total : 0 .. RingCapacity, included : Nat, immutable_since : Int]
Archived == [ring_index : RingIndex, revision : Nat, archived_at : Nat]

QueueTypes ==
    /\ QueuePageIndices \in [head : QueuePage, tail : QueuePage]
    /\ OnboardingQueue \in [QueuePage -> Seq(MemberKey)]

RingTypes ==
    /\ CurrentRingIndex \in RingIndex
    /\ RingKeys \in [RingIndex -> [RingPage -> Seq(MemberKey)]]
    /\ RingKeysStatus \in [RingIndex -> Status]
    /\ StatusKeys \subseteq RingIndex
    /\ PendingSuspensions = [r \in RingIndex |-> PendingSuspensions[r]]

RootTypes ==
    /\ Root = [r \in RingIndex |-> Root[r]]
    /\ \A r \in RingIndex : Root[r] # NoRoot => Root[r].revision \in Nat
    /\ announced = [r \in RingIndex |-> announced[r]]
    /\ OldRoots \subseteq Archived
    /\ now \in Nat

\* The pages of a ring hold its total.
Paged(r) == \A p \in RingPage : Len(RingKeys[r][p]) = InPage(RingKeysStatus[r].total, p)

\* A ring whose root was archived and has not been replaced.
Dead(r) == Root[r] = NoRoot /\ \E o \in OldRoots : o.ring_index = r

\* What is stored of a ring is counted, and keys that are not covered make it stale.  An
\* immutable ring is a full one of an append-only collection.
StatusOK(r) ==
    /\ RingKeysStatus[r].included <= RingKeysStatus[r].total
    /\ r \notin StaleRings => RingKeysStatus[r].total <= RingKeysStatus[r].included
    /\ r \notin StatusKeys => RingKeysStatus[r] = NoStatus
    /\ RingKeysStatus[r].immutable_since # NotImmutable =>
           ~ Flexible /\ RingKeysStatus[r].included = RingCapacity
    /\ PendingSuspensions[r] # {} => Flexible

\* A ring is filled once: what lies ahead of the ring that is being filled is empty, and what
\* was deleted lies behind it and gets no key again.
PlaceOK(r) ==
    /\ (r \in StatusKeys \/ (Standing /\ (CurrentRingIndex <= r \/ Flexible))) => Paged(r)
    /\ Standing /\ CurrentRingIndex < r => RingKeysStatus[r].total = 0 /\ Root[r] = NoRoot
    /\ Standing /\ Dead(r) => r < CurrentRingIndex /\ RingKeysStatus[r].total = 0
    /\ \A p \in RingPage :
           <<r, p>> \in RingDeletionQueue =>
               r \notin StatusKeys /\ (Standing => r < CurrentRingIndex /\ ~ Flexible)

\* What subscribers heard of a ring is its root, unless the ring is to be built or is empty.
HookOK(r) ==
    /\ Root[r] = NoRoot => announced[r] = NoRoot
    /\ \/ announced[r] = Root[r]
       \/ r \in StaleRings
       \/ r \in StatusKeys /\ RingKeysStatus[r].total = 0

RingOK(r) == StatusOK(r) /\ PlaceOK(r) /\ HookOK(r)

CurrentOK == Standing => RingKeysStatus[CurrentRingIndex].total < RingCapacity

ArchivedBefore == \A o \in OldRoots : o.archived_at <= now

Inv ==
    /\ QueueTypes /\ RingTypes /\ RootTypes
    /\ \A r \in RingIndex : RingOK(r)
    /\ CurrentOK /\ ArchivedBefore /\ OldRootsOrdered

-----------------------------------------------------------------------------
(* Sizes, pages and sequences *)

LEMMA Sizes ==
    /\ RingCapacity \in Nat \ {0} /\ RingPageSize \in Nat \ {0} /\ QueuePageCount \in Nat \ {0}
    /\ MaxRing \in Nat /\ RingIndex \subseteq Nat /\ RingPage \subseteq Nat
    /\ 0 \in RingPage /\ 0 \in RingIndex
    /\ Flexible => RingCapacity <= RingPageSize
  <1>1. RingCapacity \div RingPageSize \in Nat
    BY SizesAssumption
  <1> QED
    BY <1>1, SizesAssumption, BoundsAssumption DEF RingIndex, RingPage, Flexible

LEMMA NextPage ==
    ASSUME NEW q \in QueuePage
    PROVE  NextQueuePage(q) \in QueuePage
  BY SizesAssumption DEF QueuePage, NextQueuePage

LEMMA PageSizes ==
    ASSUME NEW n \in Nat, NEW p \in RingPage
    PROVE  /\ InPage(n, p) \in Nat
           /\ n = 0 => InPage(n, p) = 0
           /\ n <= RingPageSize => InPage(n, p) = IF p = 0 THEN n ELSE 0
  <1>1. p \in Nat /\ RingPageSize \in Nat \ {0}
    BY Sizes
  <1>2. p * RingPageSize \in Nat /\ (p = 0 => p * RingPageSize = 0)
        /\ (p # 0 => p * RingPageSize >= RingPageSize)
    BY <1>1
  <1> QED
    BY <1>1, <1>2 DEF InPage, SaturatingSub, Smaller

LEMMA WithoutType ==
    ASSUME NEW keys \in Seq(MemberKey), NEW m
    PROVE  Without(keys, m) \in Seq(MemberKey)
  <1>1. CASE \A i \in 1 .. Len(keys) : keys[i] # m
    BY <1>1 DEF Without
  <1>2. CASE ~ \A i \in 1 .. Len(keys) : keys[i] # m
    <2>1. PICK idx : Without(keys, m)
              = [i \in 1 .. Len(keys) - 1 |-> IF i < idx THEN keys[i] ELSE keys[i + 1]]
      BY <1>2 DEF Without
    <2>2. Len(keys) - 1 \in Nat
      BY <1>2
    <2>3. Without(keys, m) \in [1 .. Len(keys) - 1 -> MemberKey]
      BY <2>1, <2>2
    <2> QED
      BY <2>2, <2>3
  <1> QED
    BY <1>1, <1>2

\* What is known of one ring.
LEMMA RingFacts ==
    ASSUME Inv, NEW r \in RingIndex
    PROVE  /\ r \in Nat /\ CurrentRingIndex \in RingIndex /\ CurrentRingIndex \in Nat
           /\ RingKeys[r] \in [RingPage -> Seq(MemberKey)]
           /\ RingKeysStatus[r] \in Status
           /\ RingKeysStatus[r].total \in Nat /\ RingKeysStatus[r].total <= RingCapacity
           /\ RingKeysStatus[r].included \in Nat
           /\ RingOK(r)
  <1>1. RingTypes /\ RingOK(r)
    BY DEF Inv
  <1>2. RingKeysStatus[r] \in Status /\ RingKeys[r] \in [RingPage -> Seq(MemberKey)]
        /\ CurrentRingIndex \in RingIndex
    BY <1>1 DEF RingTypes
  <1>3. /\ RingKeysStatus[r].total \in 0 .. RingCapacity /\ RingKeysStatus[r].included \in Nat
    BY <1>2 DEF Status
  <1> QED
    BY <1>1, <1>2, <1>3, Sizes

-----------------------------------------------------------------------------
(* Steps that leave a ring alone *)

Untouched(r) ==
    /\ RingKeys'[r] = RingKeys[r] /\ RingKeysStatus'[r] = RingKeysStatus[r]
    /\ r \in StatusKeys' <=> r \in StatusKeys
    /\ PendingSuspensions'[r] # {} => PendingSuspensions[r] # {} \/ Flexible
    /\ r \in StaleRings' <=> r \in StaleRings
    /\ \A p \in RingPage : <<r, p>> \in RingDeletionQueue' => <<r, p>> \in RingDeletionQueue
    /\ Root'[r] = Root[r] /\ announced'[r] = announced[r]
    /\ \A o \in OldRoots' : o.ring_index = r => o \in OldRoots

\* A collection that is being deleted is not revived, and the rings before the one that is
\* being filled stay before it.
Onward ==
    Standing' => Standing /\ CurrentRingIndex' \in Nat /\ CurrentRingIndex <= CurrentRingIndex'

LEMMA RingUntouched ==
    ASSUME Inv, Onward, NEW r \in RingIndex, Untouched(r)
    PROVE  RingOK(r)'
  <1>1. r \in Nat /\ CurrentRingIndex \in Nat /\ StatusOK(r) /\ PlaceOK(r) /\ HookOK(r)
    BY RingFacts DEF RingOK
  <1>2. StatusOK(r)'
    BY <1>1 DEF Untouched, StatusOK, Flexible
  <1>3. HookOK(r)'
    BY <1>1 DEF Untouched, HookOK
  <1>4. Paged(r) => Paged(r)'
    BY DEF Untouched, Paged
  <1>5. Dead(r)' => Dead(r)
    BY DEF Untouched, Dead
  <1>6. PlaceOK(r)'
    BY <1>1, <1>4, <1>5 DEF Untouched, PlaceOK, Onward, Flexible
  <1> QED
    BY <1>2, <1>3, <1>6 DEF RingOK

LEMMA RootsUntouched ==
    ASSUME Inv, UNCHANGED roots, now' \in Nat, now' >= now
    PROVE  RootTypes' /\ ArchivedBefore' /\ OldRootsOrdered'
  <1>1. RootTypes /\ ArchivedBefore /\ OldRootsOrdered
    BY DEF Inv
  <1>2. RootTypes'
    BY <1>1 DEF RootTypes, roots
  <1>3. OldRootsOrdered'
    BY <1>1 DEF OldRootsOrdered, roots
  <1>4. ArchivedBefore'
    <2> SUFFICES ASSUME NEW o \in OldRoots PROVE o.archived_at <= now'
      BY DEF ArchivedBefore, roots
    <2>1. o.archived_at \in Nat /\ now \in Nat /\ o.archived_at <= now
      BY <1>1 DEF RootTypes, Archived, ArchivedBefore
    <2> QED
      BY <2>1
  <1> QED
    BY <1>2, <1>3, <1>4

\* A step that leaves the rings alone, but for positions queued for suspension.
LEMMA Quiet ==
    ASSUME Inv, QueueTypes',
           UNCHANGED <<RingKeys, RingKeysStatus, StatusKeys, StaleRings, RingDeletionQueue, roots>>,
           now' \in Nat, now' >= now,
           PendingSuspensions' = [r \in RingIndex |-> PendingSuspensions'[r]],
           \A r \in RingIndex : PendingSuspensions'[r] # {} => PendingSuspensions[r] # {} \/ Flexible,
           CurrentRingIndex' \in RingIndex,
           Standing' => Standing /\ CurrentRingIndex' = CurrentRingIndex
    PROVE  Inv'
  <1>1. RingTypes /\ CurrentOK
    BY DEF Inv
  <1>2. Onward
    BY Sizes DEF Onward
  <1>3. \A r \in RingIndex : Untouched(r)
    BY DEF Untouched, roots
  <1>4. \A r \in RingIndex : RingOK(r)'
    BY <1>2, <1>3, RingUntouched
  <1>5. RingTypes'
    BY <1>1 DEF RingTypes
  <1>6. CurrentOK'
    BY <1>1 DEF CurrentOK
  <1> QED
    BY <1>4, <1>5, <1>6, RootsUntouched DEF Inv

-----------------------------------------------------------------------------
(* The onboarding queue *)

LEMMA QueueUntouched == ASSUME Inv, UNCHANGED queue PROVE QueueTypes'
  BY DEF Inv, QueueTypes, queue

LEMMA QueueFacts ==
    ASSUME Inv
    PROVE  /\ QueuePageIndices.head \in QueuePage /\ QueuePageIndices.tail \in QueuePage
           /\ \A q \in QueuePage : OnboardingQueue[q] \in Seq(MemberKey)
           /\ OnboardingQueue \in [QueuePage -> Seq(MemberKey)]
  BY DEF Inv, QueueTypes

LEMMA AddQueue ==
    ASSUME Inv, NEW m \in MemberKey, push_to_onboarding_queue(m)
    PROVE  QueueTypes'
  <1>1. PICK head : head = QueuePageIndices.head
    OBVIOUS
  <1>2. PICK tail : tail = QueuePageIndices.tail
    OBVIOUS
  <1>3. PICK full : full = (Len(OnboardingQueue[tail]) >= OnboardingQueuePageSize)
    OBVIOUS
  <1>4. PICK page : page = IF full THEN NextQueuePage(tail) ELSE tail
    OBVIOUS
  <1>5. /\ QueuePageIndices' = [head |-> head, tail |-> page]
        /\ OnboardingQueue' = [OnboardingQueue EXCEPT
                                  ![page] = IF full THEN <<m>> ELSE Append(@, m)]
    BY <1>1, <1>2, <1>3, <1>4 DEF push_to_onboarding_queue
  <1>6. head \in QueuePage /\ page \in QueuePage
    BY <1>1, <1>2, <1>4, QueueFacts, NextPage
  <1>7. <<m>> \in Seq(MemberKey) /\ Append(OnboardingQueue[page], m) \in Seq(MemberKey)
    BY <1>6, QueueFacts
  <1> QED
    BY <1>5, <1>6, <1>7, QueueFacts DEF QueueTypes

LEMMA SuspendFromQueue ==
    ASSUME Inv, NEW m \in MemberKey, queue_member_suspension_onboarding(m)
    PROVE  QueueTypes'
  <1>1. PICK page : page = Members[m].queue_page
    OBVIOUS
  <1>2. /\ OnboardingQueue' = [OnboardingQueue EXCEPT ![page] = Without(@, m)]
        /\ QueuePageIndices' = QueuePageIndices
    BY <1>1 DEF queue_member_suspension_onboarding
  <1>3. page \in QueuePage => Without(OnboardingQueue[page], m) \in Seq(MemberKey)
    BY QueueFacts, WithoutType
  <1> QED
    BY <1>2, <1>3, QueueFacts DEF QueueTypes, Inv

LEMMA IncludeFromQueue ==
    ASSUME Inv, NEW m \in MemberKey, RemoveFromQueue(m)
    PROVE  QueueTypes'
  <1>1. PICK page : page = Members[m].queue_page
    OBVIOUS
  <1>2. PICK keys : keys = Without(OnboardingQueue[page], m)
    OBVIOUS
  <1>3. /\ OnboardingQueue' = [OnboardingQueue EXCEPT ![page] = keys]
        /\ QueuePageIndices' =
               [QueuePageIndices EXCEPT
                   !.head = IF keys = <<>> /\ @ = page /\ @ # QueuePageIndices.tail
                            THEN NextQueuePage(page) ELSE @]
    BY <1>1, <1>2 DEF RemoveFromQueue
  <1>4. page \in QueuePage => keys \in Seq(MemberKey)
    BY <1>2, QueueFacts, WithoutType
  <1>5. OnboardingQueue' \in [QueuePage -> Seq(MemberKey)]
    BY <1>3, <1>4, QueueFacts
  <1>6. PICK head \in QueuePage :
            head = IF keys = <<>> /\ QueuePageIndices.head = page
                                  /\ QueuePageIndices.head # QueuePageIndices.tail
                   THEN NextQueuePage(page) ELSE QueuePageIndices.head
    BY QueueFacts, NextPage
  <1>7. QueuePageIndices' = [QueuePageIndices EXCEPT !.head = head]
    BY <1>3, <1>6
  <1>8. QueuePageIndices' \in [head : QueuePage, tail : QueuePage]
    BY <1>6, <1>7 DEF Inv, QueueTypes
  <1> QED
    BY <1>5, <1>8 DEF QueueTypes

LEMMA MergeQueue ==
    ASSUME Inv, merge_queue_pages
    PROVE  QueueTypes'
  <1>1. PICK head : head = QueuePageIndices.head
    OBVIOUS
  <1>2. PICK next : next = NextQueuePage(head)
    OBVIOUS
  <1>3. /\ OnboardingQueue' = [OnboardingQueue EXCEPT
               ![head] = <<>>, ![next] = OnboardingQueue[head] \o OnboardingQueue[next]]
        /\ QueuePageIndices' = [QueuePageIndices EXCEPT !.head = next]
    BY <1>1, <1>2 DEF merge_queue_pages
  <1>4. head \in QueuePage /\ next \in QueuePage
    BY <1>1, <1>2, QueueFacts, NextPage
  <1>5. <<>> \in Seq(MemberKey) /\ OnboardingQueue[head] \o OnboardingQueue[next] \in Seq(MemberKey)
    BY <1>4, QueueFacts
  <1>6. OnboardingQueue' \in [QueuePage -> Seq(MemberKey)]
    BY <1>3, <1>4, <1>5, QueueFacts
  <1> QED
    BY <1>3, <1>4, <1>6 DEF QueueTypes, Inv

LEMMA LeaveQueue ==
    ASSUME Inv, NEW head \in QueuePage, NEW last \in QueuePage, NEW rest \in Seq(MemberKey),
           LeaveInQueue(head, last, rest)
    PROVE  QueueTypes'
  <1> DEFINE split == Len(rest) - OnboardingQueuePageSize
  <1>1. Len(rest) \in Nat /\ OnboardingQueuePageSize \in Nat /\ <<>> \in Seq(MemberKey)
    BY SizesAssumption
  <1>2. CASE /\ split > 0
             /\ OnboardingQueue' = [OnboardingQueue EXCEPT
                                       ![head] = SubSeq(rest, 1, split),
                                       ![last] = SubSeq(rest, split + 1, Len(rest))]
             /\ UNCHANGED QueuePageIndices
    <2>1. split \in 0 .. Len(rest)
      BY <1>1, <1>2
    <2>2. SubSeq(rest, 1, split) \in Seq(MemberKey)
          /\ SubSeq(rest, split + 1, Len(rest)) \in Seq(MemberKey)
      BY <2>1
    <2> HIDE DEF split
    <2> QED
      BY <1>2, <2>2, QueueFacts DEF QueueTypes, Inv
  <1>3. CASE /\ OnboardingQueue' = [OnboardingQueue EXCEPT ![head] = <<>>, ![last] = rest]
             /\ QueuePageIndices' = [QueuePageIndices EXCEPT !.head = last]
    BY <1>1, <1>3, QueueFacts DEF QueueTypes, Inv
  <1>4. CASE /\ OnboardingQueue' = [OnboardingQueue EXCEPT ![head] = <<>>, ![last] = <<>>]
             /\ QueuePageIndices' = [QueuePageIndices EXCEPT
                    !.head = IF last # QueuePageIndices.tail THEN NextQueuePage(last) ELSE last]
    <2>1. PICK next \in QueuePage :
              next = IF last # QueuePageIndices.tail THEN NextQueuePage(last) ELSE last
      BY NextPage
    <2> QED
      BY <1>1, <1>4, <2>1, QueueFacts DEF QueueTypes, Inv
  <1> QED
    BY <1>2, <1>3, <1>4 DEF LeaveInQueue

-----------------------------------------------------------------------------
(* Calls that leave the rings alone *)

LEMMA QuietCalls ==
    ASSUME Inv,
           \/ \E size \in OnboardingSizes : create_collection(size)
           \/ \E m \in MemberKey : add_members(m)
           \/ start_removal_session
           \/ end_removal_session
           \/ delete_collection
           \/ \E size \in OnboardingSizes : set_onboarding_size(size)
           \/ tick
           \/ merge_queue_pages
           \/ \E q \in QueuePage : delete_onboarding_queue_page(q)
           \/ remove_orphaned_members
           \/ finalize_collection_deletion
           \/ UNCHANGED vars
    PROVE  Inv' /\ UNCHANGED <<RingKeys, RingKeysStatus, StatusKeys, roots>> /\ now' >= now
  <1>1. RingTypes /\ now \in Nat
    BY DEF Inv, RootTypes
  <1>2. UNCHANGED rings => /\ PendingSuspensions' = [r \in RingIndex |-> PendingSuspensions'[r]]
                           /\ CurrentRingIndex' \in RingIndex
    BY <1>1 DEF RingTypes, rings
  <1> DEFINE Goal == Inv' /\ UNCHANGED <<RingKeys, RingKeysStatus, StatusKeys, roots>> /\ now' >= now
  <1>3. ASSUME UNCHANGED <<rings, queue, roots, now>>, Standing' => Standing PROVE Goal
    <2>1. QueueTypes'
      BY <1>3, QueueUntouched
    <2> QED
      BY <1>1, <1>2, <1>3, <2>1, Quiet DEF rings
  <1>4. ASSUME UNCHANGED <<rings, roots, now, lifecycle>>, QueueTypes' PROVE Goal
    BY <1>1, <1>2, <1>4, Quiet DEF rings, Standing
  <1>5. ASSUME NEW size \in OnboardingSizes, create_collection(size) \/ set_onboarding_size(size)
        PROVE  Goal
    BY <1>3, <1>5 DEF create_collection, set_onboarding_size, Standing
  <1>6. ASSUME NEW m \in MemberKey, add_members(m) PROVE Goal
    BY <1>4, <1>6, AddQueue DEF add_members, config
  <1>7. CASE start_removal_session \/ end_removal_session \/ delete_collection
    BY <1>3, <1>7 DEF start_removal_session, end_removal_session, delete_collection, Standing
  <1>8. CASE tick
    <2>1. UNCHANGED <<rings, queue, roots, lifecycle>> /\ now' = now + 1
      BY <1>8 DEF tick, config
    <2>2. QueueTypes'
      BY <2>1, QueueUntouched
    <2> QED
      BY <1>1, <1>2, <2>1, <2>2, Quiet DEF rings, Standing
  <1>9. CASE merge_queue_pages
    BY <1>4, <1>9, MergeQueue DEF merge_queue_pages, config
  <1>10. ASSUME NEW q \in QueuePage, delete_onboarding_queue_page(q) PROVE Goal
    <2>1. QueueTypes'
      BY <1>10, QueueFacts DEF delete_onboarding_queue_page, QueueTypes, Inv
    <2> QED
      BY <1>4, <1>10, <2>1 DEF delete_onboarding_queue_page, config
  <1>11. CASE remove_orphaned_members
    BY <1>3, <1>11 DEF remove_orphaned_members, config, Standing
  <1>12. CASE finalize_collection_deletion
    <2>1. /\ UNCHANGED <<RingKeys, RingKeysStatus, StatusKeys, PendingSuspensions, StaleRings,
                         RingDeletionQueue, roots, now>>
          /\ CurrentRingIndex' = 0 /\ lifecycle' = "Retired"
          /\ QueuePageIndices' = [head |-> 0, tail |-> 0] /\ OnboardingQueue' = OnboardingQueue
      BY <1>12 DEF finalize_collection_deletion
    <2>2. QueueTypes'
      BY <2>1, Sizes, QueueFacts DEF QueueTypes, QueuePage
    <2>3. ~ Standing'
      BY <2>1 DEF Standing
    <2>4. PendingSuspensions' = [r \in RingIndex |-> PendingSuspensions'[r]]
      BY <1>1, <2>1 DEF RingTypes
    <2> QED
      BY <1>1, <2>1, <2>2, <2>3, <2>4, Quiet, Sizes
  <1>13. CASE UNCHANGED vars
    BY <1>3, <1>13 DEF vars, config, Standing
  <1> QED
    BY <1>5, <1>6, <1>7, <1>8, <1>9, <1>10, <1>11, <1>12, <1>13

\* Only the positions that wait to be removed change, in a flexible collection.
LEMMA RemoveMembers ==
    ASSUME Inv, NEW m \in MemberKey, remove_members(m)
    PROVE  Inv' /\ UNCHANGED <<RingKeys, RingKeysStatus, StatusKeys, roots>> /\ now' >= now
  <1>1. RingTypes /\ now \in Nat /\ Flexible /\ UNCHANGED <<lifecycle, roots, now>>
    BY DEF Inv, RootTypes, remove_members, Flexible, config
  <1>2. CASE queue_member_suspension_included(m)
    <2>1. /\ UNCHANGED <<CurrentRingIndex, RingKeys, RingKeysStatus, StatusKeys, StaleRings,
                         RingDeletionQueue, queue>>
          /\ PendingSuspensions' = [PendingSuspensions EXCEPT
                 ![Members[m].ring_index] = @ \union {Members[m].ring_position}]
      BY <1>2 DEF queue_member_suspension_included
    <2>2. PendingSuspensions' = [r \in RingIndex |-> PendingSuspensions'[r]]
      BY <1>1, <2>1 DEF RingTypes
    <2>3. QueueTypes'
      BY <2>1, QueueUntouched
    <2> QED
      BY <1>1, <2>1, <2>2, <2>3, Quiet DEF RingTypes, Standing
  <1>3. CASE queue_member_suspension_onboarding(m)
    <2>1. UNCHANGED rings /\ QueueTypes'
      BY <1>3, SuspendFromQueue DEF queue_member_suspension_onboarding
    <2>2. /\ PendingSuspensions' = [r \in RingIndex |-> PendingSuspensions'[r]]
          /\ CurrentRingIndex' \in RingIndex
      BY <1>1, <2>1 DEF RingTypes, rings
    <2> QED
      BY <1>1, <2>1, <2>2, Quiet DEF rings, Standing
  <1> QED
    BY <1>2, <1>3 DEF remove_members

-----------------------------------------------------------------------------
(* What a step does to immutable rings and to archived roots *)

\* A ring that is immutable and stays is not changed.
ImmutableStep ==
    \A r \in StatusKeys :
        RingKeysStatus[r].immutable_since # NotImmutable /\ r \in StatusKeys' =>
            /\ RingKeysStatus'[r] = RingKeysStatus[r]
            /\ RingKeys'[r] = RingKeys[r]
            /\ Root'[r] = Root[r]

\* A root that is replaced is archived, and an archived root is removed once it has expired.
RootStep ==
    /\ now' >= now
    /\ \A o \in OldRoots :
           \/ \E a \in OldRoots' : a.ring_index = o.ring_index /\ a.revision = o.revision
           \/ now >= o.archived_at + OldRootRetentionDuration
    /\ \A r \in RingIndex :
           \/ Root'[r] = Root[r] \/ Root'[r] = NoRoot \/ Root[r] = NoRoot
           \/ \E a \in OldRoots' : a.ring_index = r /\ a.revision = Root[r].revision

Step == Inv' /\ ImmutableStep /\ RootStep

LEMMA QuietStep ==
    ASSUME Inv', UNCHANGED <<RingKeys, RingKeysStatus, StatusKeys, roots>>, now' >= now
    PROVE  Step
  BY DEF Step, ImmutableStep, RootStep, roots

LEMMA ImmutableFacts ==
    ASSUME Inv, NEW r \in RingIndex, RingKeysStatus[r].immutable_since # NotImmutable
    PROVE  /\ ~ Flexible
           /\ RingKeysStatus[r].included = RingCapacity /\ RingKeysStatus[r].total = RingCapacity
           /\ Standing => r # CurrentRingIndex
  <1>1. StatusOK(r) /\ RingKeysStatus[r].total \in Nat /\ RingKeysStatus[r].included \in Nat
        /\ RingKeysStatus[r].total <= RingCapacity
    BY RingFacts DEF RingOK
  <1>2. ~ Flexible /\ RingKeysStatus[r].included = RingCapacity
        /\ RingKeysStatus[r].included <= RingKeysStatus[r].total
    BY <1>1 DEF StatusOK
  <1> QED
    BY <1>1, <1>2, Sizes DEF Inv, CurrentOK

-----------------------------------------------------------------------------
(* Filling the current ring *)

LEMMA PushedPages ==
    ASSUME Inv, NEW r \in RingIndex, Paged(r), NEW keys \in Seq(MemberKey)
    PROVE  /\ PagesWith(r, keys) \in [RingPage -> Seq(MemberKey)]
           /\ \A p \in RingPage :
                  Len(PagesWith(r, keys)[p]) = InPage(RingKeysStatus[r].total + Len(keys), p)
  <1>1. PICK total \in Nat : total = RingKeysStatus[r].total
    BY RingFacts
  <1>2. ASSUME NEW p \in RingPage
        PROVE  /\ PagesWith(r, keys)[p] \in Seq(MemberKey)
               /\ Len(PagesWith(r, keys)[p]) = InPage(total + Len(keys), p)
    <2>1. PICK base \in Nat : base = p * RingPageSize
      BY Sizes
    <2>2. RingPageSize \in Nat /\ Len(keys) \in Nat
      BY Sizes
    <2>3. PICK n \in Nat : n = InPage(total + Len(keys), p)
      BY <2>2, PageSizes
    <2>4. PagesWith(r, keys)[p] =
              [j \in 1 .. n |-> IF base + j <= total THEN RingKeys[r][p][j]
                                ELSE keys[base + j - total]]
      BY <1>1, <2>1, <2>3 DEF PagesWith
    <2>5. RingKeys[r][p] \in Seq(MemberKey) /\ Len(RingKeys[r][p]) = InPage(total, p)
      BY <1>1, RingFacts DEF Paged
    <2>6. ASSUME NEW j \in 1 .. n
          PROVE  (IF base + j <= total THEN RingKeys[r][p][j] ELSE keys[base + j - total])
                     \in MemberKey
      <3>1. n = Smaller(SaturatingSub(total + Len(keys), base), RingPageSize)
        BY <2>1, <2>3 DEF InPage
      <3>2. j <= RingPageSize /\ base + j <= total + Len(keys)
        BY <2>2, <3>1 DEF Smaller, SaturatingSub
      <3>3. CASE base + j <= total
        <4>1. InPage(total, p) = Smaller(SaturatingSub(total, base), RingPageSize)
          BY <2>1 DEF InPage
        <4>2. j \in 1 .. InPage(total, p)
          BY <2>2, <3>2, <3>3, <4>1 DEF Smaller, SaturatingSub
        <4>3. RingKeys[r][p][j] \in MemberKey
          BY <2>5, <4>2
        <4> QED
          BY <3>3, <4>3
      <3>4. CASE ~ (base + j <= total)
        <4>1. base + j - total \in 1 .. Len(keys)
          BY <2>2, <3>2, <3>4
        <4> QED
          BY <3>4, <4>1
      <3> QED
        BY <3>3, <3>4
    <2>7. PagesWith(r, keys)[p] \in [1 .. n -> MemberKey]
      BY <2>4, <2>6
    <2> QED
      BY <2>3, <2>7
  <1>3. PagesWith(r, keys) = [p \in RingPage |-> PagesWith(r, keys)[p]]
    BY DEF PagesWith
  <1>4. PagesWith(r, keys) \in [RingPage -> Seq(MemberKey)]
    BY <1>2, <1>3
  <1> QED
    BY <1>1, <1>2, <1>4

LEMMA PushStep ==
    ASSUME Inv, QueueTypes', lifecycle = "Live", UNCHANGED <<lifecycle, roots, now>>,
           NEW keys \in Seq(MemberKey), PushToRing(keys),
           RingKeysStatus[CurrentRingIndex].total + Len(keys) <= RingCapacity
    PROVE  Step
  <1>1. PICK r \in RingIndex : r = CurrentRingIndex
    BY DEF Inv, RingTypes
  <1>2. PICK total \in Nat : total = RingKeysStatus[r].total
    BY RingFacts
  <1>3. Len(keys) \in Nat /\ total + Len(keys) \in 0 .. RingCapacity
    BY <1>1, <1>2, Sizes
  <1>4. /\ IsFull(total + Len(keys)) => r < MaxRing
        /\ CurrentRingIndex' = IF IsFull(total + Len(keys)) THEN r + 1 ELSE r
        /\ RingKeys' = [RingKeys EXCEPT ![r] = PagesWith(r, keys)]
        /\ RingKeysStatus' = [RingKeysStatus EXCEPT ![r].total = total + Len(keys)]
        /\ StatusKeys' = StatusKeys \union {r}
        /\ StaleRings' = StaleRings \union {r}
        /\ PendingSuspensions' = PendingSuspensions /\ RingDeletionQueue' = RingDeletionQueue
    BY <1>1, <1>2 DEF PushToRing
  <1>5. Standing /\ Standing'
    BY DEF Standing
  <1>6. StatusOK(r) /\ PlaceOK(r) /\ HookOK(r) /\ RingTypes /\ r \in Nat
    BY <1>1, RingFacts DEF RingOK, Inv
  <1>7. Paged(r)
    BY <1>1, <1>5, <1>6 DEF PlaceOK
  <1>8. /\ RingKeys' \in [RingIndex -> [RingPage -> Seq(MemberKey)]]
        /\ RingKeys'[r] = PagesWith(r, keys)
        /\ \A s \in RingIndex : s # r => RingKeys'[s] = RingKeys[s]
    BY <1>4, <1>6, <1>7, PushedPages DEF RingTypes
  <1>9. /\ RingKeysStatus' \in [RingIndex -> Status]
        /\ RingKeysStatus'[r].total = total + Len(keys)
        /\ RingKeysStatus'[r].included = RingKeysStatus[r].included
        /\ RingKeysStatus'[r].immutable_since = RingKeysStatus[r].immutable_since
        /\ \A s \in RingIndex : s # r => RingKeysStatus'[s] = RingKeysStatus[s]
    <2>1. RingKeysStatus[r] \in Status /\ RingKeysStatus \in [RingIndex -> Status]
      BY <1>6, RingFacts DEF RingTypes
    <2>2. RingKeysStatus' = [RingKeysStatus EXCEPT ![r] = [@ EXCEPT !.total = total + Len(keys)]]
      BY <1>4
    <2>3. /\ [RingKeysStatus[r] EXCEPT !.total = total + Len(keys)] \in Status
          /\ [RingKeysStatus[r] EXCEPT !.total = total + Len(keys)].total = total + Len(keys)
          /\ [RingKeysStatus[r] EXCEPT !.total = total + Len(keys)].included
                 = RingKeysStatus[r].included
          /\ [RingKeysStatus[r] EXCEPT !.total = total + Len(keys)].immutable_since
                 = RingKeysStatus[r].immutable_since
      BY <1>3, <2>1 DEF Status
    <2> QED
      BY <2>1, <2>2, <2>3
  <1>10. CurrentRingIndex' \in RingIndex /\ r <= CurrentRingIndex' /\ CurrentRingIndex' \in Nat
    BY <1>4, <1>6, Sizes DEF RingIndex
  <1>11. RingTypes'
    BY <1>4, <1>6, <1>8, <1>9, <1>10 DEF RingTypes
  <1>12. RingKeysStatus[r].immutable_since = NotImmutable
    BY <1>1, <1>5, ImmutableFacts
  <1>13. RingOK(r)'
    <2>1. StatusOK(r)'
      <3>1. RingKeysStatus[r].included \in Nat /\ RingKeysStatus[r].included <= total
        BY <1>2, <1>6, RingFacts DEF StatusOK
      <3>2. RingKeysStatus'[r].included <= RingKeysStatus'[r].total
        BY <1>3, <1>9, <3>1
      <3> QED
        BY <1>4, <1>6, <1>9, <1>12, <3>2 DEF StatusOK, Flexible
    <2>2. Paged(r)'
      BY <1>2, <1>7, <1>8, <1>9, PushedPages DEF Paged
    <2>3. ~ Dead(r)'
      BY <1>1, <1>5, <1>6 DEF PlaceOK, Dead, roots
    <2>4. \A p \in RingPage : <<r, p>> \notin RingDeletionQueue'
      BY <1>1, <1>4, <1>5, <1>6 DEF PlaceOK
    <2>5. PlaceOK(r)'
      BY <1>6, <1>10, <2>2, <2>3, <2>4 DEF PlaceOK
    <2>6. HookOK(r)'
      BY <1>4, <1>6 DEF HookOK, roots
    <2> QED
      BY <2>1, <2>5, <2>6 DEF RingOK
  <1>14. Onward
    BY <1>1, <1>5, <1>10 DEF Onward
  <1>15. ASSUME NEW s \in RingIndex, s # r PROVE RingOK(s)'
    <2>1. Untouched(s)
      BY <1>4, <1>8, <1>9, <1>15 DEF Untouched, roots
    <2> QED
      BY <1>14, <2>1, RingUntouched
  <1>16. CurrentOK'
    <2>1. CASE IsFull(total + Len(keys))
      <3>1. CurrentRingIndex' = r + 1 /\ r + 1 \in RingIndex /\ r + 1 # r
        BY <1>4, <1>6, <1>10, <2>1
      <3>2. RingKeysStatus[r + 1].total = 0
        BY <1>1, <1>5, <1>6, <3>1, RingFacts DEF RingOK, PlaceOK
      <3> QED
        BY <1>9, <3>1, <3>2, Sizes DEF CurrentOK
    <2>2. CASE ~ IsFull(total + Len(keys))
      BY <1>3, <1>4, <1>9, <2>2, Sizes DEF CurrentOK, IsFull
    <2> QED
      BY <2>1, <2>2
  <1>17. now \in Nat /\ now' = now
    BY DEF Inv, RootTypes
  <1>18. Inv'
    BY <1>11, <1>13, <1>15, <1>16, <1>17, RootsUntouched DEF Inv
  <1>19. ImmutableStep
    <2> SUFFICES ASSUME NEW s \in StatusKeys, RingKeysStatus[s].immutable_since # NotImmutable
                 PROVE  /\ RingKeysStatus'[s] = RingKeysStatus[s] /\ RingKeys'[s] = RingKeys[s]
                        /\ Root'[s] = Root[s]
      BY DEF ImmutableStep
    <2>1. s # r
      BY <1>12
    <2> QED
      BY <1>4, <1>6, <2>1 DEF roots, RingTypes
  <1> QED
    BY <1>17, <1>18, <1>19 DEF Step, RootStep, roots

LEMMA SelfInclude ==
    ASSUME Inv, NEW m \in MemberKey, self_include(m)
    PROVE  Step
  <1>1. PICK keys : keys = <<m>>
    OBVIOUS
  <1>2. /\ lifecycle = "Live" /\ RemoveFromQueue(m) /\ PushToRing(keys)
        /\ UNCHANGED <<lifecycle, roots, now>>
    BY <1>1 DEF self_include, config
  <1>3. RingKeysStatus[CurrentRingIndex].total < RingCapacity
    BY <1>2 DEF Inv, CurrentOK, Standing
  <1>4. keys \in Seq(MemberKey) /\ Len(keys) = 1
    BY <1>1
  <1>5. RingKeysStatus[CurrentRingIndex].total + Len(keys) <= RingCapacity
    BY <1>3, <1>4, RingFacts, Sizes DEF Inv, RingTypes
  <1> QED
    BY <1>2, <1>4, <1>5, IncludeFromQueue, PushStep

LEMMA OnboardMembers ==
    ASSUME Inv, onboard_members
    PROVE  Step
  <1>1. PICK open_slots : open_slots = RingCapacity - RingKeysStatus[CurrentRingIndex].total
    OBVIOUS
  <1>2. PICK head : head = QueuePageIndices.head
    OBVIOUS
  <1>3. PICK both : both = (Len(OnboardingQueue[head]) < open_slots /\ head # QueuePageIndices.tail)
    OBVIOUS
  <1>4. PICK last : last = IF both THEN NextQueuePage(head) ELSE head
    OBVIOUS
  <1>5. PICK waiting : waiting = IF both THEN OnboardingQueue[head] \o OnboardingQueue[last]
                                 ELSE OnboardingQueue[head]
    OBVIOUS
  <1>6. PICK to_include : to_include = Smaller(Len(waiting), open_slots)
    OBVIOUS
  <1>7. /\ should_onboard_members(open_slots, to_include)
        /\ PushToRing(SubSeq(waiting, 1, to_include))
        /\ LeaveInQueue(head, last, SubSeq(waiting, to_include + 1, Len(waiting)))
        /\ UNCHANGED <<lifecycle, roots, now>>
    BY <1>1, <1>2, <1>3, <1>4, <1>5, <1>6 DEF onboard_members, config
  <1>8. lifecycle = "Live" /\ to_include > 0
    BY <1>7 DEF should_onboard_members
  <1>9. head \in QueuePage /\ last \in QueuePage
    BY <1>2, <1>4, QueueFacts, NextPage
  <1>10. waiting \in Seq(MemberKey)
    BY <1>5, <1>9, QueueFacts
  <1>11. RingKeysStatus[CurrentRingIndex].total \in Nat /\ RingCapacity \in Nat
    BY RingFacts, Sizes DEF Inv, RingTypes
  <1>12. /\ to_include \in 1 .. Len(waiting)
         /\ RingKeysStatus[CurrentRingIndex].total + to_include <= RingCapacity
    BY <1>1, <1>6, <1>8, <1>10, <1>11 DEF Smaller
  <1>13. /\ SubSeq(waiting, 1, to_include) \in Seq(MemberKey)
         /\ Len(SubSeq(waiting, 1, to_include)) = to_include
    BY <1>10, <1>12
  <1>14. SubSeq(waiting, to_include + 1, Len(waiting)) \in Seq(MemberKey)
    BY <1>10, <1>12
  <1>15. QueueTypes'
    BY <1>7, <1>9, <1>14, LeaveQueue
  <1> QED
    BY <1>7, <1>8, <1>12, <1>13, <1>15, PushStep

-----------------------------------------------------------------------------
(* Archiving a root *)

\* A step that archives the root of r, which is then gone, newer, or the first.
Supersedes(r) ==
    /\ now' = now
    /\ OldRoots' = archive_root(r)
    /\ \A s \in RingIndex : s # r => Root'[s] = Root[s]
    /\ \/ Root'[r] = NoRoot
       \/ Root[r] # NoRoot /\ Root'[r].revision = Root[r].revision + 1
       \/ Root[r] = NoRoot /\ \A o \in OldRoots : o.ring_index # r

LEMMA ArchiveFacts ==
    ASSUME Inv, NEW r \in RingIndex, Supersedes(r)
    PROVE  /\ OldRoots' \subseteq Archived
           /\ \A o \in OldRoots' : o \in OldRoots
                  \/ (Root[r] # NoRoot /\ o = [ring_index |-> r, revision |-> Root[r].revision,
                                               archived_at |-> now])
           /\ \A o \in OldRoots' : o.ring_index # r => o \in OldRoots
           /\ \A o \in OldRoots' : o.ring_index = r => o.revision \in Nat /\
                  (Root[r] # NoRoot => o.revision <= Root[r].revision)
           /\ \A o \in OldRoots :
                  \E a \in OldRoots' : a.ring_index = o.ring_index /\ a.revision = o.revision
           /\ Root[r] # NoRoot =>
                  \E a \in OldRoots' : a.ring_index = r /\ a.revision = Root[r].revision
  <1>1. RootTypes /\ OldRootsOrdered
    BY DEF Inv
  <1>2. CASE Root[r] = NoRoot
    BY <1>1, <1>2 DEF Supersedes, archive_root, RootTypes, Archived
  <1>3. CASE Root[r] # NoRoot
    <2>1. PICK new : new = [ring_index |-> r, revision |-> Root[r].revision, archived_at |-> now]
      OBVIOUS
    <2>2. new \in Archived /\ new.ring_index = r /\ new.revision = Root[r].revision
          /\ Root[r].revision \in Nat
      BY <1>1, <1>3, <2>1 DEF RootTypes, Archived
    <2>3. OldRoots' = {o \in OldRoots : <<o.ring_index, o.revision>> # <<r, Root[r].revision>>}
                          \union {new}
      BY <1>3, <2>1 DEF Supersedes, archive_root
    <2>4. OldRoots' \subseteq Archived /\ new \in OldRoots'
          /\ \A o \in OldRoots' : o \in OldRoots \/ o = new
      BY <1>1, <2>2, <2>3 DEF RootTypes
    <2>5. \A o \in OldRoots' : o.ring_index # r => o \in OldRoots
      BY <2>2, <2>4
    <2>6. ASSUME NEW o \in OldRoots', o.ring_index = r
          PROVE  o.revision \in Nat /\ o.revision <= Root[r].revision
      <3>1. o.revision \in Nat
        BY <2>4 DEF Archived
      <3>2. o \in OldRoots => o.revision < Root[r].revision
        BY <1>1, <1>3, <2>6 DEF OldRootsOrdered
      <3> QED
        BY <2>2, <2>4, <3>1, <3>2
    <2>7. ASSUME NEW o \in OldRoots
          PROVE  \E a \in OldRoots' : a.ring_index = o.ring_index /\ a.revision = o.revision
      <3>1. CASE <<o.ring_index, o.revision>> = <<r, Root[r].revision>>
        BY <2>2, <2>4, <3>1
      <3>2. CASE <<o.ring_index, o.revision>> # <<r, Root[r].revision>>
        BY <2>3, <3>2
      <3> QED
        BY <3>1, <3>2
    <2> QED
      BY <1>3, <2>1, <2>2, <2>4, <2>5, <2>6, <2>7
  <1> QED
    BY <1>2, <1>3

LEMMA ArchiveStep ==
    ASSUME Inv, NEW r \in RingIndex, Supersedes(r)
    PROVE  OldRoots' \subseteq Archived /\ ArchivedBefore' /\ OldRootsOrdered' /\ RootStep
  <1>1. RootTypes /\ OldRootsOrdered /\ ArchivedBefore
    BY DEF Inv
  <1>2. OldRoots' \subseteq Archived
    BY ArchiveFacts
  <1>3. now' = now /\ now \in Nat
    BY <1>1 DEF Supersedes, RootTypes
  <1> DEFINE new == [ring_index |-> r, revision |-> Root[r].revision, archived_at |-> now]
  <1>4. \A o \in OldRoots' : o \in OldRoots \/ (Root[r] # NoRoot /\ o = new)
    BY ArchiveFacts
  <1>5. new.ring_index = r /\ new.revision = Root[r].revision /\ new.archived_at = now
    OBVIOUS
  <1> HIDE DEF new
  <1>6. \A o \in OldRoots' : o.archived_at <= now
    BY <1>1, <1>3, <1>4, <1>5 DEF ArchivedBefore
  <1>7. RootStep
    BY <1>3, ArchiveFacts DEF RootStep, Supersedes
  <1>8. OldRootsOrdered'
    <2>1. ASSUME NEW o \in OldRoots', Root'[o.ring_index] # NoRoot
          PROVE  o.revision < Root'[o.ring_index].revision
      <3>1. o.ring_index \in RingIndex
        BY <1>2 DEF Archived
      <3>2. CASE o.ring_index # r
        BY <1>1, <2>1, <3>1, <3>2, ArchiveFacts DEF Supersedes, OldRootsOrdered
      <3>3. CASE o.ring_index = r
        <4>1. Root[r] # NoRoot
          BY <1>4, <2>1, <3>3 DEF Supersedes
        <4>2. o.revision \in Nat /\ o.revision <= Root[r].revision /\ Root[r].revision \in Nat
          BY <1>1, <3>3, <4>1, ArchiveFacts DEF RootTypes
        <4>3. Root'[r].revision = Root[r].revision + 1
          BY <2>1, <3>3, <4>1 DEF Supersedes
        <4> QED
          BY <3>3, <4>2, <4>3
      <3> QED
        BY <3>2, <3>3
    <2>2. ASSUME NEW o \in OldRoots', NEW newer \in OldRoots', newer.ring_index = o.ring_index,
                 newer.revision > o.revision
          PROVE  newer.archived_at >= o.archived_at
      <3>1. CASE newer \in OldRoots /\ o \in OldRoots
        BY <1>1, <2>2, <3>1 DEF OldRootsOrdered
      <3>2. CASE newer = new /\ Root[r] # NoRoot
        <4>1. o.archived_at <= now /\ o.archived_at \in Nat
          BY <1>2, <1>6 DEF Archived
        <4> QED
          BY <1>3, <1>5, <3>2, <4>1
      <3>3. CASE o = new /\ newer \in OldRoots /\ Root[r] # NoRoot
        <4>1. newer.revision < Root[r].revision
          BY <1>1, <1>5, <2>2, <3>3 DEF OldRootsOrdered
        <4>2. newer.revision \in Nat /\ Root[r].revision \in Nat
          BY <1>1, <1>2, <3>3 DEF RootTypes, Archived
        <4> QED
          BY <1>5, <2>2, <3>3, <4>1, <4>2
      <3> QED
        BY <1>4, <3>1, <3>2, <3>3
    <2> QED
      BY <2>1, <2>2 DEF OldRootsOrdered
  <1> QED
    BY <1>2, <1>3, <1>6, <1>7, <1>8 DEF ArchivedBefore

\* A step that archives the root of r and changes the rings in changed only.
LEMMA SupersedeStep ==
    ASSUME Inv, NEW r \in RingIndex, Supersedes(r),
           NEW changed \in SUBSET RingIndex,
           UNCHANGED <<lifecycle, CurrentRingIndex, queue>>,
           RingTypes', CurrentOK',
           Root' = [s \in RingIndex |-> Root'[s]], announced' = [s \in RingIndex |-> announced'[s]],
           Root'[r] # NoRoot => Root'[r].revision \in Nat,
           \A s \in RingIndex : s \notin changed => Untouched(s),
           \A s \in changed : RingOK(s)',
           \A s \in changed : RingKeysStatus[s].immutable_since # NotImmutable => s \notin StatusKeys'
    PROVE  Step
  <1>1. RootTypes /\ CurrentRingIndex \in Nat
    BY RingFacts, Sizes DEF Inv
  <1>2. Onward
    BY <1>1 DEF Onward, Standing
  <1>3. \A s \in RingIndex : RingOK(s)'
    BY <1>2, RingUntouched
  <1>4. OldRoots' \subseteq Archived /\ ArchivedBefore' /\ OldRootsOrdered' /\ RootStep
    BY ArchiveStep
  <1>5. \A s \in RingIndex : Root'[s] # NoRoot => Root'[s].revision \in Nat
    BY <1>1 DEF RootTypes, Supersedes
  <1>6. RootTypes'
    BY <1>1, <1>4, <1>5 DEF RootTypes, Supersedes
  <1>7. QueueTypes'
    BY QueueUntouched
  <1>8. ImmutableStep
    BY DEF ImmutableStep, Untouched, Inv, RingTypes
  <1> QED
    BY <1>3, <1>4, <1>6, <1>7, <1>8 DEF Step, Inv

-----------------------------------------------------------------------------
(* Building and deleting rings *)

LEMMA BuildRing ==
    ASSUME Inv, NEW r \in RingIndex, NEW n \in 1 .. RingBuildingMemberLimit, build_ring(r, n)
    PROVE  Step
  <1>1. PICK total \in Nat : total = RingKeysStatus[r].total
    BY RingFacts
  <1>2. PICK included \in Nat : included = RingKeysStatus[r].included + n
    BY RingFacts, SizesAssumption
  <1>3. PICK root : root = [revision |-> next_revision(r),
                            keys |-> Root[r].keys \o [i \in 1 .. n |->
                                         KeyAt(r, RingKeysStatus[r].included + i - 1)]]
    OBVIOUS
  <1>4. PICK since : since = IF BecomesImmutable(total, included) THEN now
                             ELSE RingKeysStatus[r].immutable_since
    OBVIOUS
  <1>5. /\ RingKeysStatus' = [RingKeysStatus EXCEPT ![r].included = included,
                                                    ![r].immutable_since = since]
        /\ should_build_ring(r, n)
        /\ StatusKeys' = StatusKeys \union {r}
        /\ StaleRings' = StaleAfterBuild(r, included)
        /\ OldRoots' = archive_root(r)
        /\ Root' = [Root EXCEPT ![r] = root]
        /\ announced' = [announced EXCEPT ![r] = root]
        /\ UNCHANGED <<lifecycle, CurrentRingIndex, RingKeys, PendingSuspensions, RingDeletionQueue,
                       queue, now>>
    BY <1>1, <1>2, <1>3, <1>4 DEF build_ring, config
  <1>6. StatusOK(r) /\ PlaceOK(r) /\ HookOK(r) /\ RingTypes /\ RootTypes /\ CurrentOK
    BY RingFacts DEF RingOK, Inv
  <1>7. Standing /\ Standing'
    BY <1>5 DEF should_build_ring, Standing
  <1>8. /\ RingKeysStatus[r].included \in Nat /\ total <= RingCapacity
        /\ RingKeysStatus[r].included < included /\ included <= total
    <2>1. RingKeysStatus[r].included \in Nat /\ total <= RingCapacity /\ n \in Nat /\ n > 0
      BY <1>1, RingFacts, SizesAssumption
    <2>2. n <= SaturatingSub(total, RingKeysStatus[r].included)
      BY <1>1, <1>5 DEF should_build_ring
    <2> QED
      BY <1>2, <2>1, <2>2 DEF SaturatingSub
  <1>9. r \in StaleRings /\ r \in StatusKeys /\ ~ Dead(r)
    BY <1>1, <1>6, <1>7, <1>8 DEF StatusOK, PlaceOK, NoStatus
  <1>10. RingKeysStatus[r].immutable_since = NotImmutable
    BY <1>1, <1>8, ImmutableFacts, Sizes
  <1>11. since \in Int /\ (since # NotImmutable => ~ Flexible /\ included = RingCapacity)
    BY <1>4, <1>6, <1>10 DEF RootTypes, BecomesImmutable, Flexible, NotImmutable
  <1>12. /\ RingKeysStatus' \in [RingIndex -> Status]
         /\ RingKeysStatus'[r].total = total
         /\ RingKeysStatus'[r].included = included
         /\ RingKeysStatus'[r].immutable_since = since
         /\ \A s \in RingIndex : s # r => RingKeysStatus'[s] = RingKeysStatus[s]
    <2>1. RingKeysStatus[r] \in Status /\ RingKeysStatus \in [RingIndex -> Status]
      BY <1>6, RingFacts DEF RingTypes
    <2>2. PICK new : new = [RingKeysStatus[r] EXCEPT !.included = included, !.immutable_since = since]
      OBVIOUS
    <2>3. RingKeysStatus' = [RingKeysStatus EXCEPT ![r] = new]
      BY <1>5, <2>1, <2>2
    <2>4. new \in Status /\ new.total = total /\ new.included = included
          /\ new.immutable_since = since
      BY <1>1, <1>11, <2>1, <2>2 DEF Status
    <2> QED
      BY <2>1, <2>3, <2>4
  <1>13. /\ Root'[r] = root /\ announced'[r] = root
         /\ \A s \in RingIndex : s # r => Root'[s] = Root[s] /\ announced'[s] = announced[s]
         /\ Root' = [s \in RingIndex |-> Root'[s]] /\ announced' = [s \in RingIndex |-> announced'[s]]
    BY <1>5, <1>6 DEF RootTypes
  <1>14. root.revision = next_revision(r) /\ root.revision \in Nat /\ root # NoRoot
    <2>1. root.revision = next_revision(r)
      BY <1>3
    <2>2. next_revision(r) \in Nat
      BY <1>6 DEF next_revision, RootTypes
    <2> QED
      BY <2>1, <2>2 DEF NoRoot
  <1>15. Supersedes(r)
    BY <1>5, <1>9, <1>13, <1>14 DEF Supersedes, next_revision, Dead
  <1>16. RingTypes'
    BY <1>5, <1>6, <1>12 DEF RingTypes
  <1>17. CurrentOK'
    BY <1>1, <1>5, <1>6, <1>7, <1>12 DEF CurrentOK, RingTypes
  <1>18. ASSUME NEW s \in RingIndex, s # r PROVE Untouched(s)
    BY <1>5, <1>12, <1>13, <1>15, <1>18, ArchiveFacts DEF Untouched, StaleAfterBuild
  <1>19. RingOK(r)'
    <2>1. StatusOK(r)'
      <3>1. r \notin StaleRings' => total <= included
        BY <1>1, <1>5, <1>9 DEF StaleAfterBuild
      <3> QED
        BY <1>5, <1>6, <1>8, <1>9, <1>11, <1>12, <3>1 DEF StatusOK, Flexible
    <2>2. HookOK(r)'
      BY <1>13, <1>14 DEF HookOK
    <2>3. ~ Dead(r)'
      BY <1>13, <1>14 DEF Dead
    <2>4. Paged(r)'
      BY <1>1, <1>5, <1>6, <1>9, <1>12 DEF PlaceOK, Paged
    <2>5. CurrentRingIndex < r => FALSE
      BY <1>1, <1>6, <1>7, <1>8 DEF PlaceOK
    <2>6. PlaceOK(r)'
      BY <1>5, <1>6, <1>9, <2>3, <2>4, <2>5 DEF PlaceOK
    <2> QED
      BY <2>1, <2>2, <2>6 DEF RingOK
  <1>20. PICK changed \in SUBSET RingIndex : changed = {r}
    OBVIOUS
  <1>21. /\ \A s \in RingIndex : s \notin changed => Untouched(s)
         /\ \A s \in changed : RingOK(s)' /\ RingKeysStatus[s].immutable_since = NotImmutable
    BY <1>10, <1>18, <1>19, <1>20
  <1> QED
    BY <1>5, <1>13, <1>14, <1>15, <1>16, <1>17, <1>21, SupersedeStep

\* The ring's pages are queued, either behind the ring that is being filled in a collection
\* that stays, or in a collection that is being deleted.
LEMMA EnqueueRing ==
    ASSUME Inv, NEW r \in RingIndex, enqueue_ring_for_deletion(r),
           Standing => ~ Flexible /\ r # CurrentRingIndex
    PROVE  Step
  <1>1. PICK total \in Nat : total = RingKeysStatus[r].total
    BY RingFacts
  <1>2. /\ OldRoots' = archive_root(r)
        /\ Root' = [Root EXCEPT ![r] = NoRoot]
        /\ announced' = AnnouncedDeleted(r)
        /\ StaleRings' = StaleRings \ {r}
        /\ PendingSuspensions' = [PendingSuspensions EXCEPT ![r] = {}]
        /\ RingKeysStatus' = [RingKeysStatus EXCEPT ![r] = NoStatus]
        /\ StatusKeys' = StatusKeys \ {r}
        /\ RingDeletionQueue' =
               RingDeletionQueue \union {<<r, p>> : p \in 0 .. PageCount(total) - 1}
        /\ UNCHANGED <<lifecycle, CurrentRingIndex, RingKeys, queue, now>>
    BY <1>1 DEF enqueue_ring_for_deletion, config
  <1>3. StatusOK(r) /\ PlaceOK(r) /\ HookOK(r) /\ RingTypes /\ RootTypes /\ CurrentOK
        /\ r \in Nat /\ CurrentRingIndex \in Nat /\ CurrentRingIndex \in RingIndex
    BY RingFacts DEF RingOK, Inv
  <1>4. NoStatus \in Status /\ NoStatus.total = 0 /\ NoStatus.included = 0
        /\ NoStatus.immutable_since = NotImmutable
    BY Sizes DEF NoStatus, Status, NotImmutable
  <1>5. /\ RingKeysStatus' \in [RingIndex -> Status] /\ RingKeysStatus'[r] = NoStatus
        /\ \A s \in RingIndex : s # r => RingKeysStatus'[s] = RingKeysStatus[s]
    BY <1>2, <1>3, <1>4 DEF RingTypes
  <1>6. /\ Root'[r] = NoRoot /\ announced'[r] = NoRoot
        /\ \A s \in RingIndex : s # r => Root'[s] = Root[s] /\ announced'[s] = announced[s]
        /\ Root' = [s \in RingIndex |-> Root'[s]] /\ announced' = [s \in RingIndex |-> announced'[s]]
    BY <1>2, <1>3 DEF RootTypes, AnnouncedDeleted, HookOK
  <1>7. /\ PendingSuspensions' = [s \in RingIndex |-> PendingSuspensions'[s]]
        /\ PendingSuspensions'[r] = {}
        /\ \A s \in RingIndex : s # r => PendingSuspensions'[s] = PendingSuspensions[s]
    BY <1>2, <1>3 DEF RingTypes
  <1>8. Supersedes(r)
    BY <1>2, <1>6 DEF Supersedes
  <1>9. RingTypes'
    BY <1>2, <1>3, <1>5, <1>7 DEF RingTypes
  <1>10. CurrentOK'
    BY <1>2, <1>3, <1>4, <1>5, Sizes DEF CurrentOK, Standing
  <1>11. ASSUME NEW s \in RingIndex, s # r PROVE Untouched(s)
    <2>1. \A p \in RingPage : <<s, p>> \in RingDeletionQueue' => <<s, p>> \in RingDeletionQueue
      BY <1>2, <1>11
    <2> QED
      BY <1>2, <1>5, <1>6, <1>7, <1>8, <1>11, <2>1, ArchiveFacts DEF Untouched
  <1>12. StatusOK(r)'
    BY <1>2, <1>4, <1>5, <1>7 DEF StatusOK
  <1>13. HookOK(r)'
    BY <1>6 DEF HookOK
  <1>14. PlaceOK(r)'
    <2>1. CASE ~ Standing
      <3>1. ~ Standing'
        BY <1>2, <2>1 DEF Standing
      <3> QED
        BY <1>2, <3>1 DEF PlaceOK
    <2>2. CASE Standing /\ r < CurrentRingIndex
      <3>1. ~ Flexible /\ CurrentRingIndex' = CurrentRingIndex /\ ~ (CurrentRingIndex <= r)
            /\ ~ (CurrentRingIndex < r)
        BY <1>2, <1>3, <2>2
      <3> QED
        BY <1>2, <1>4, <1>5, <2>2, <3>1 DEF PlaceOK, Flexible
    <2>3. CASE Standing /\ CurrentRingIndex < r
      <3>1. total = 0 /\ Root[r] = NoRoot /\ Paged(r) /\ ~ Dead(r)
        BY <1>1, <1>3, <2>3 DEF PlaceOK
      <3>2. OldRoots' = OldRoots
        BY <1>2, <3>1 DEF archive_root
      <3>3. ~ Dead(r)'
        BY <1>6, <3>1, <3>2 DEF Dead
      <3>4. Paged(r)'
        BY <1>1, <1>2, <1>4, <1>5, <3>1 DEF Paged
      <3>5. PageCount(total) = 0
        BY <3>1, Sizes DEF PageCount
      <3>6. \A p \in RingPage : <<r, p>> \notin RingDeletionQueue'
        BY <1>2, <1>3, <2>3, <3>5 DEF PlaceOK
      <3> QED
        BY <1>2, <1>4, <1>5, <1>6, <3>3, <3>4, <3>6 DEF PlaceOK
    <2> QED
      BY <1>3, <2>1, <2>2, <2>3
  <1>15. PICK changed \in SUBSET RingIndex : changed = {r}
    OBVIOUS
  <1>16. /\ \A s \in RingIndex : s \notin changed => Untouched(s)
         /\ \A s \in changed : RingOK(s)' /\ s \notin StatusKeys'
    BY <1>2, <1>11, <1>12, <1>13, <1>14, <1>15 DEF RingOK
  <1> QED
    BY <1>2, <1>6, <1>8, <1>9, <1>10, <1>16, SupersedeStep

LEMMA RemoveRing ==
    ASSUME Inv, NEW r \in RingIndex, remove_ring(r) \/ enqueue_ring_deletion(r)
    PROVE  Step
  BY EnqueueRing DEF remove_ring, enqueue_ring_deletion, Standing, Flexible

LEMMA DeleteRingPage ==
    ASSUME Inv, NEW r \in RingIndex, NEW p \in RingPage, delete_ring_page(r, p)
    PROVE  Step
  <1>1. /\ <<r, p>> \in RingDeletionQueue
        /\ RingDeletionQueue' = RingDeletionQueue \ {<<r, p>>}
        /\ RingKeys' = [RingKeys EXCEPT ![r][p] = <<>>]
        /\ UNCHANGED <<lifecycle, CurrentRingIndex, RingKeysStatus, StatusKeys, PendingSuspensions,
                       StaleRings, queue, roots, now>>
    BY DEF delete_ring_page, config
  <1>2. StatusOK(r) /\ PlaceOK(r) /\ HookOK(r) /\ RingTypes /\ CurrentOK /\ now \in Nat
        /\ r \in Nat /\ CurrentRingIndex \in Nat
    BY RingFacts DEF RingOK, Inv, RootTypes
  <1>3. r \notin StatusKeys /\ (Standing => r < CurrentRingIndex /\ ~ Flexible)
    BY <1>1, <1>2 DEF PlaceOK
  <1>4. /\ RingKeys' \in [RingIndex -> [RingPage -> Seq(MemberKey)]]
        /\ \A s \in RingIndex : s # r => RingKeys'[s] = RingKeys[s]
    <2>1. RingKeys' = [RingKeys EXCEPT ![r] = [RingKeys[r] EXCEPT ![p] = <<>>]]
      BY <1>1, <1>2 DEF RingTypes
    <2>2. [RingKeys[r] EXCEPT ![p] = <<>>] \in [RingPage -> Seq(MemberKey)]
      BY <1>2 DEF RingTypes
    <2> QED
      BY <1>2, <2>1, <2>2 DEF RingTypes
  <1>5. RingTypes'
    BY <1>1, <1>2, <1>4 DEF RingTypes
  <1>6. CurrentOK'
    BY <1>1, <1>2 DEF CurrentOK, Standing
  <1>7. Onward
    BY <1>1, <1>2 DEF Onward, Standing
  <1>8. ASSUME NEW s \in RingIndex, s # r PROVE RingOK(s)'
    BY <1>1, <1>4, <1>7, <1>8, RingUntouched DEF Untouched, roots
  <1>9. RingOK(r)'
    <2>1. StatusOK(r)' /\ HookOK(r)'
      BY <1>1, <1>2 DEF StatusOK, HookOK, roots, Flexible
    <2>2. Dead(r)' => Dead(r)
      BY <1>1 DEF Dead, roots
    <2>3. Standing' => Standing /\ ~ Flexible /\ ~ (CurrentRingIndex <= r) /\ ~ (CurrentRingIndex < r)
      BY <1>1, <1>2, <1>3 DEF Standing
    <2>4. PlaceOK(r)'
      BY <1>1, <1>2, <1>3, <2>2, <2>3 DEF PlaceOK, Flexible
    <2> QED
      BY <2>1, <2>4 DEF RingOK
  <1>10. QueueTypes' /\ RootTypes' /\ ArchivedBefore' /\ OldRootsOrdered'
    BY <1>1, <1>2, QueueUntouched, RootsUntouched
  <1>11. Inv'
    BY <1>5, <1>6, <1>8, <1>9, <1>10 DEF Inv
  <1>12. ImmutableStep
    BY <1>1, <1>2, <1>3, <1>4 DEF ImmutableStep, roots, RingTypes
  <1> QED
    BY <1>1, <1>2, <1>11, <1>12 DEF Step, RootStep, roots

LEMMA CleanUpOldRoots ==
    ASSUME Inv, NEW r \in RingIndex, clean_up_old_roots(r)
    PROVE  Step
  <1>1. /\ OldRoots' = OldRoots \ {o \in Expired(r) :
               Cardinality({older \in Expired(r) : older.revision < o.revision})
                   < OldRootCleanupLimit}
        /\ UNCHANGED <<lifecycle, rings, queue, Root, announced, now>>
    BY DEF clean_up_old_roots, config
  <1>2. OldRoots' \subseteq OldRoots /\ \A o \in OldRoots : o \in OldRoots' \/ o \in Expired(r)
    BY <1>1
  <1>3. RingTypes /\ RootTypes /\ CurrentOK /\ ArchivedBefore /\ OldRootsOrdered
        /\ CurrentRingIndex \in Nat
    BY RingFacts DEF Inv
  <1>4. RingTypes' /\ CurrentOK'
    BY <1>1, <1>3 DEF RingTypes, CurrentOK, Standing, rings
  <1>5. RootTypes' /\ ArchivedBefore'
    BY <1>1, <1>2, <1>3 DEF RootTypes, ArchivedBefore
  <1>6. OldRootsOrdered'
    BY <1>1, <1>2, <1>3 DEF OldRootsOrdered
  <1>7. Onward
    BY <1>1, <1>3 DEF Onward, Standing, rings
  <1>8. \A s \in RingIndex : RingOK(s)'
    BY <1>1, <1>2, <1>7, RingUntouched DEF Untouched, rings
  <1>9. Inv'
    BY <1>1, <1>4, <1>5, <1>6, <1>8, QueueUntouched DEF Inv
  <1>10. ASSUME NEW o \in OldRoots, o \in Expired(r)
         PROVE  now >= o.archived_at + OldRootRetentionDuration
    <2>1. o.revision \in Nat /\ o.ring_index = r
      BY <1>3, <1>10 DEF RootTypes, Archived, Expired
    <2> QED
      BY <1>10, <2>1 DEF Expired
  <1>11. RootStep
    BY <1>1, <1>2, <1>3, <1>10 DEF RootStep, RootTypes
  <1>12. ImmutableStep
    BY <1>1 DEF ImmutableStep, rings
  <1> QED
    BY <1>9, <1>11, <1>12 DEF Step

-----------------------------------------------------------------------------
(* Flexible collections: merging rings and taking suspended keys out *)

\* A ring of a flexible collection has one page.
LEMMA OnePage ==
    ASSUME Inv, Flexible, Standing, NEW r \in RingIndex
    PROVE  /\ Len(RingKeys[r][0]) = RingKeysStatus[r].total
           /\ \A p \in RingPage : p # 0 => Len(RingKeys[r][p]) = 0
           /\ RingKeysStatus[r].immutable_since = NotImmutable
           /\ \A p \in RingPage : <<r, p>> \notin RingDeletionQueue
           /\ RingKeysStatus[r].total > 0 =>
                  ~ Dead(r) /\ r <= CurrentRingIndex /\ r \in StatusKeys
  <1>1. PlaceOK(r) /\ StatusOK(r) /\ RingKeysStatus[r].total \in Nat
        /\ r \in Nat /\ CurrentRingIndex \in Nat
        /\ RingKeysStatus[r].total <= RingPageSize
    BY RingFacts, Sizes DEF RingOK
  <1>2. Paged(r)
    BY <1>1 DEF PlaceOK
  <1>3. \A p \in RingPage :
            Len(RingKeys[r][p]) = IF p = 0 THEN RingKeysStatus[r].total ELSE 0
    BY <1>1, <1>2, PageSizes DEF Paged
  <1> QED
    BY <1>1, <1>3, Sizes DEF PlaceOK, StatusOK, NoStatus

\* The pages of a ring that has that many keys, all on page 0.
LEMMA OnePagePaged ==
    ASSUME Flexible, NEW pages \in [RingPage -> Seq(MemberKey)], NEW n \in 0 .. RingCapacity,
           Len(pages[0]) = n, \A p \in RingPage : p # 0 => Len(pages[p]) = 0
    PROVE  \A p \in RingPage : Len(pages[p]) = InPage(n, p)
  <1>1. n \in Nat /\ n <= RingPageSize
    BY Sizes
  <1>2. \A p \in RingPage : InPage(n, p) = IF p = 0 THEN n ELSE 0
    BY <1>1, PageSizes
  <1> QED
    BY <1>2

LEMMA MergeRings ==
    ASSUME Inv, NEW base \in RingIndex, NEW target \in RingIndex, merge_rings(base, target)
    PROVE  Step
  <1>1. PICK moved : moved = RingKeys[target][0]
    OBVIOUS
  <1>2. /\ lifecycle = "Live" /\ Mode = "Flexible" /\ base # target
        /\ CanMerge(base) /\ CanMerge(target)
        /\ RingKeys' = [RingKeys EXCEPT ![base][0] = @ \o moved, ![target][0] = <<>>]
        /\ RingKeysStatus' = [RingKeysStatus EXCEPT ![base].total = @ + Len(moved),
                                                    ![target] = NoStatus]
        /\ StatusKeys' = (StatusKeys \union {base}) \ {target}
        /\ OldRoots' = archive_root(target)
        /\ Root' = [Root EXCEPT ![target] = NoRoot]
        /\ announced' = AnnouncedDeleted(target)
        /\ StaleRings' = (StaleRings \union {base}) \ {target}
        /\ UNCHANGED <<lifecycle, CurrentRingIndex, PendingSuspensions, RingDeletionQueue, queue, now>>
    BY <1>1 DEF merge_rings, config
  <1>3. Flexible /\ Standing /\ Standing'
    BY <1>2 DEF Flexible, Standing
  <1>4. /\ RingTypes /\ RootTypes /\ CurrentOK /\ CurrentRingIndex \in Nat
        /\ base \in Nat /\ target \in Nat
        /\ StatusOK(base) /\ PlaceOK(base) /\ HookOK(base)
        /\ StatusOK(target) /\ PlaceOK(target) /\ HookOK(target)
    BY RingFacts DEF RingOK, Inv
  <1>5. PICK b \in Nat, t \in Nat :
            /\ b = RingKeysStatus[base].total /\ t = RingKeysStatus[target].total
            /\ b = Len(RingKeys[base][0]) /\ t = Len(moved)
    BY <1>1, <1>3, RingFacts, OnePage
  <1>6. b > 0 /\ t > 0 /\ b + t \in 0 .. RingCapacity /\ base # CurrentRingIndex /\ target # CurrentRingIndex
    <2>1. b \in 1 .. (RingCapacity \div 2) - 1 /\ t \in 1 .. (RingCapacity \div 2) - 1
      BY <1>1, <1>2, <1>5 DEF CanMerge
    <2> QED
      BY <1>2, <2>1, Sizes DEF CanMerge
  <1>7. ~ Dead(base) /\ base < CurrentRingIndex /\ ~ Dead(target) /\ target < CurrentRingIndex
    <2>1. RingKeysStatus[base].total > 0 /\ RingKeysStatus[target].total > 0
      BY <1>5, <1>6
    <2>2. ~ Dead(base) /\ base <= CurrentRingIndex /\ ~ Dead(target) /\ target <= CurrentRingIndex
      BY <1>3, <2>1, OnePage
    <2> QED
      BY <1>4, <1>6, <2>2
  <1>8. /\ RingKeys \in [RingIndex -> [RingPage -> Seq(MemberKey)]]
        /\ RingKeys[base] \in [RingPage -> Seq(MemberKey)]
        /\ RingKeys[target] \in [RingPage -> Seq(MemberKey)]
        /\ 0 \in RingPage
    BY <1>4, Sizes DEF RingTypes
  <1>9. PICK joined : joined = [RingKeys[base] EXCEPT ![0] = RingKeys[base][0] \o moved]
    OBVIOUS
  <1>10. PICK emptied : emptied = [RingKeys[target] EXCEPT ![0] = <<>>]
    OBVIOUS
  <1>11. RingKeys' = [RingKeys EXCEPT ![base] = joined, ![target] = emptied]
    BY <1>2, <1>8, <1>9, <1>10
  <1>12. RingKeys[base][0] \o moved \in Seq(MemberKey) /\ Len(RingKeys[base][0] \o moved) = b + t
    BY <1>1, <1>5, <1>8
  <1>13. /\ joined \in [RingPage -> Seq(MemberKey)] /\ Len(joined[0]) = b + t
         /\ \A p \in RingPage : p # 0 => joined[p] = RingKeys[base][p]
    BY <1>8, <1>9, <1>12
  <1>14. /\ emptied \in [RingPage -> Seq(MemberKey)] /\ Len(emptied[0]) = 0
         /\ \A p \in RingPage : p # 0 => emptied[p] = RingKeys[target][p]
    BY <1>8, <1>10
  <1>15. /\ RingKeys' \in [RingIndex -> [RingPage -> Seq(MemberKey)]]
         /\ RingKeys'[base] = joined /\ RingKeys'[target] = emptied
         /\ \A s \in RingIndex : s \notin {base, target} => RingKeys'[s] = RingKeys[s]
    BY <1>2, <1>8, <1>11, <1>13, <1>14
  <1>16. NoStatus \in Status /\ NoStatus.total = 0 /\ NoStatus.included = 0
         /\ NoStatus.immutable_since = NotImmutable
    BY Sizes DEF NoStatus, Status, NotImmutable
  <1>17. /\ RingKeysStatus' \in [RingIndex -> Status]
         /\ RingKeysStatus'[target] = NoStatus
         /\ RingKeysStatus'[base].total = b + t
         /\ RingKeysStatus'[base].included = RingKeysStatus[base].included
         /\ RingKeysStatus'[base].immutable_since = RingKeysStatus[base].immutable_since
         /\ \A s \in RingIndex : s \notin {base, target} => RingKeysStatus'[s] = RingKeysStatus[s]
    <2>1. RingKeysStatus[base] \in Status /\ RingKeysStatus \in [RingIndex -> Status]
      BY <1>4 DEF RingTypes
    <2>2. PICK new : new = [RingKeysStatus[base] EXCEPT !.total = b + t]
      OBVIOUS
    <2>3. RingKeysStatus' = [RingKeysStatus EXCEPT ![base] = new, ![target] = NoStatus]
      BY <1>2, <1>5, <2>1, <2>2
    <2>4. new \in Status /\ new.total = b + t /\ new.included = RingKeysStatus[base].included
          /\ new.immutable_since = RingKeysStatus[base].immutable_since
      BY <1>6, <2>1, <2>2 DEF Status
    <2> QED
      BY <1>2, <1>16, <2>1, <2>3, <2>4
  <1>18. /\ Root'[target] = NoRoot /\ announced'[target] = NoRoot
         /\ \A s \in RingIndex : s # target => Root'[s] = Root[s] /\ announced'[s] = announced[s]
         /\ Root' = [s \in RingIndex |-> Root'[s]] /\ announced' = [s \in RingIndex |-> announced'[s]]
    BY <1>2, <1>4 DEF RootTypes, AnnouncedDeleted, HookOK
  <1>19. Supersedes(target)
    BY <1>2, <1>18 DEF Supersedes
  <1>20. RingTypes'
    BY <1>2, <1>4, <1>15, <1>17 DEF RingTypes
  <1>21. CurrentOK'
    BY <1>2, <1>3, <1>4, <1>6, <1>17 DEF CurrentOK, RingTypes
  <1>22. ASSUME NEW s \in RingIndex, s \notin {base, target} PROVE Untouched(s)
    BY <1>2, <1>15, <1>17, <1>18, <1>19, <1>22, ArchiveFacts DEF Untouched
  <1>23. RingOK(base)'
    <2>1. StatusOK(base)'
      <3>1. RingKeysStatus[base].included \in Nat /\ RingKeysStatus[base].included <= b
        BY <1>4, <1>5, RingFacts DEF StatusOK
      <3>2. RingKeysStatus'[base].included <= RingKeysStatus'[base].total
        BY <1>17, <3>1
      <3>3. RingKeysStatus'[base].immutable_since = NotImmutable
        BY <1>3, <1>17, OnePage
      <3> QED
        BY <1>2, <1>3, <3>2, <3>3 DEF StatusOK, Flexible
    <2>2. Paged(base)'
      <3>1. \A p \in RingPage : p # 0 => Len(joined[p]) = 0
        BY <1>3, <1>13, OnePage
      <3> QED
        BY <1>3, <1>6, <1>13, <1>15, <1>17, <3>1, OnePagePaged DEF Paged
    <2>3. ~ Dead(base)'
      BY <1>2, <1>7, <1>18, <1>19, ArchiveFacts DEF Dead
    <2>4. \A p \in RingPage : <<base, p>> \notin RingDeletionQueue'
      BY <1>2, <1>3, OnePage
    <2>5. ~ (CurrentRingIndex' < base)
      BY <1>2, <1>4, <1>7
    <2>6. PlaceOK(base)'
      BY <2>2, <2>3, <2>4, <2>5 DEF PlaceOK
    <2>7. HookOK(base)'
      BY <1>2, <1>4, <1>18 DEF HookOK
    <2> QED
      BY <2>1, <2>6, <2>7 DEF RingOK
  <1>24. RingOK(target)'
    <2>1. StatusOK(target)'
      BY <1>3, <1>16, <1>17 DEF StatusOK, Flexible
    <2>2. Paged(target)'
      <3>1. \A p \in RingPage : p # 0 => Len(emptied[p]) = 0
        BY <1>3, <1>14, OnePage
      <3>2. 0 \in 0 .. RingCapacity
        BY Sizes
      <3> QED
        BY <1>3, <1>14, <1>15, <1>16, <1>17, <3>1, <3>2, OnePagePaged DEF Paged
    <2>3. \A p \in RingPage : <<target, p>> \notin RingDeletionQueue'
      BY <1>2, <1>3, OnePage
    <2>4. ~ (CurrentRingIndex' < target) /\ target < CurrentRingIndex'
      BY <1>2, <1>4, <1>7
    <2>5. PlaceOK(target)'
      BY <1>16, <1>17, <2>2, <2>3, <2>4 DEF PlaceOK
    <2>6. HookOK(target)'
      BY <1>18 DEF HookOK
    <2> QED
      BY <2>1, <2>5, <2>6 DEF RingOK
  <1>25. PICK changed \in SUBSET RingIndex : changed = {base, target}
    OBVIOUS
  <1>26. /\ \A s \in RingIndex : s \notin changed => Untouched(s)
         /\ \A s \in changed : RingOK(s)' /\ RingKeysStatus[s].immutable_since = NotImmutable
    BY <1>3, <1>22, <1>23, <1>24, <1>25, OnePage
  <1> QED
    BY <1>2, <1>18, <1>19, <1>20, <1>21, <1>26, SupersedeStep

\* The elements of a finite set of numbers are numbered from 0, in their order.
LEMMA Ranks ==
    ASSUME NEW S \in SUBSET Nat, IsFiniteSet(S), NEW n \in 0 .. Cardinality(S) - 1
    PROVE  Kept(S, n) \in S /\ Cardinality({j \in S : j < Kept(S, n)}) = n
  <1>1. PICK size \in Nat : size = Cardinality(S)
    BY FS_CardinalityType
  <1> DEFINE Below(i) == {j \in S : j < i}
             rank == [i \in S |-> Cardinality(Below(i))]
  <1>2. ASSUME NEW i \in S, NEW k \in S, i < k
        PROVE  Cardinality(Below(i)) < Cardinality(Below(k))
    <2>1. IsFiniteSet(Below(k)) /\ Cardinality(Below(k)) \in Nat
      BY FS_Subset, FS_CardinalityType
    <2>2. IsFiniteSet(Below(k) \ {i}) /\ Cardinality(Below(k) \ {i}) = Cardinality(Below(k)) - 1
      <3>1. i \in Below(k)
        BY <1>2
      <3> HIDE DEF Below
      <3> QED
        BY <2>1, <3>1, FS_RemoveElement
    <2>3. Below(i) \in SUBSET (Below(k) \ {i})
      <3>1. ASSUME NEW j \in S, j < i PROVE j < k /\ j # i
        <4>1. i \in Nat /\ j \in Nat /\ k \in Nat
          OBVIOUS
        <4> QED
          BY <1>2, <3>1, <4>1
      <3> QED
        BY <3>1
    <2>4. Cardinality(Below(i)) <= Cardinality(Below(k) \ {i}) /\ IsFiniteSet(Below(i))
      BY <2>2, <2>3, FS_Subset
    <2>5. Cardinality(Below(i)) \in Nat
      BY <2>4, FS_CardinalityType
    <2> QED
      BY <2>1, <2>2, <2>4, <2>5
  <1>3. ASSUME NEW i \in S PROVE Cardinality(Below(i)) \in 0 .. size - 1
    <2>1. IsFiniteSet(S \ {i}) /\ Cardinality(S \ {i}) = size - 1
      BY <1>1, FS_RemoveElement
    <2>2. Below(i) \in SUBSET (S \ {i})
      OBVIOUS
    <2>3. Cardinality(Below(i)) <= Cardinality(S \ {i}) /\ IsFiniteSet(Below(i))
      BY <2>1, <2>2, FS_Subset
    <2>4. Cardinality(Below(i)) \in Nat
      BY <2>3, FS_CardinalityType
    <2> QED
      BY <1>1, <2>1, <2>3, <2>4
  <1> HIDE DEF Below
  <1>4. rank \in [S -> 0 .. size - 1]
    BY <1>3
  <1>5. \A i, k \in S : rank[i] = rank[k] => i = k
    <2> SUFFICES ASSUME NEW i \in S, NEW k \in S, i # k PROVE rank[i] # rank[k]
      OBVIOUS
    <2>1. Cardinality(Below(i)) \in Nat /\ Cardinality(Below(k)) \in Nat
      BY <1>1, <1>3
    <2>2. i < k \/ k < i
      OBVIOUS
    <2>3. Cardinality(Below(i)) # Cardinality(Below(k))
      BY <1>2, <2>1, <2>2
    <2> QED
      BY <2>3
  <1>6. rank \in Injection(S, 0 .. size - 1)
    <2> HIDE DEF rank
    <2> QED
      BY <1>4, <1>5 DEF Injection, IsInjective
  <1>7. IsFiniteSet(0 .. size - 1) /\ Cardinality(0 .. size - 1) = size
    BY <1>1, FS_Interval
  <1>8. rank \in Surjection(S, 0 .. size - 1)
    BY <1>1, <1>6, <1>7, FS_Injection
  <1>9. \E i \in S : Cardinality(Below(i)) = n
    BY <1>1, <1>8 DEF Surjection
  <1> QED
    BY <1>9 DEF Kept, Below

\* The keys that are kept, closed up.
LEMMA KeptKeys ==
    ASSUME NEW keys \in Seq(MemberKey), NEW pending
    PROVE  LET kept == (0 .. Len(keys) - 1) \ pending
               closed == [n \in 1 .. Cardinality(kept) |-> keys[Kept(kept, n - 1) + 1]]
           IN  /\ Cardinality(kept) \in Nat /\ Cardinality(kept) <= Len(keys)
               /\ closed \in Seq(MemberKey) /\ Len(closed) = Cardinality(kept)
  <1>1. PICK len \in Nat : len = Len(keys)
    OBVIOUS
  <1>2. PICK kept : kept = (0 .. Len(keys) - 1) \ pending
    OBVIOUS
  <1>3. IsFiniteSet(0 .. len - 1) /\ Cardinality(0 .. len - 1) = len
    BY FS_Interval
  <1>4. kept \in SUBSET (0 .. len - 1)
    BY <1>1, <1>2
  <1>5. IsFiniteSet(kept) /\ Cardinality(kept) <= len
    BY <1>3, <1>4, FS_Subset
  <1>6. PICK total \in Nat : total = Cardinality(kept)
    BY <1>5, FS_CardinalityType
  <1>7. ASSUME NEW n \in 1 .. total PROVE keys[Kept(kept, n - 1) + 1] \in MemberKey
    <2>1. n - 1 \in 0 .. Cardinality(kept) - 1 /\ kept \in SUBSET Nat
      BY <1>4, <1>6
    <2>2. PICK i \in kept : i = Kept(kept, n - 1)
      BY <1>5, <2>1, Ranks
    <2>3. i \in 0 .. len - 1
      BY <1>4
    <2>4. Kept(kept, n - 1) + 1 \in 1 .. Len(keys)
      BY <1>1, <2>2, <2>3
    <2> QED
      BY <2>4
  <1>8. PICK closed : closed = [n \in 1 .. total |-> keys[Kept(kept, n - 1) + 1]]
    OBVIOUS
  <1>9. closed \in [1 .. total -> MemberKey]
    BY <1>7, <1>8
  <1>10. closed \in Seq(MemberKey) /\ Len(closed) = total
    BY <1>9
  <1> QED
    BY <1>1, <1>2, <1>5, <1>6, <1>8, <1>10

LEMMA RemoveSuspendedKeys ==
    ASSUME Inv, NEW r \in RingIndex, remove_suspended_keys(r)
    PROVE  Step
  <1>1. PICK keys : keys = RingKeys[r][0]
    OBVIOUS
  <1>2. PICK kept : kept = (0 .. Len(keys) - 1) \ PendingSuspensions[r]
    OBVIOUS
  <1>3. PICK new_total : new_total = Cardinality(kept)
    OBVIOUS
  <1>4. PICK closed : closed = [n \in 1 .. new_total |-> keys[Kept(kept, n - 1) + 1]]
    OBVIOUS
  <1>5. /\ lifecycle = "Live" /\ PendingSuspensions[r] # {}
        /\ RingKeys' = [RingKeys EXCEPT ![r][0] = closed]
        /\ RingKeysStatus' = [RingKeysStatus EXCEPT ![r].total = new_total, ![r].included = 0]
        /\ StatusKeys' = StatusKeys \union {r}
        /\ OldRoots' = archive_root(r)
        /\ Root' = [Root EXCEPT ![r] = Restarted(@)]
        /\ StaleRings' = IF new_total > 0 THEN StaleRings \union {r} ELSE StaleRings
        /\ PendingSuspensions' = [PendingSuspensions EXCEPT ![r] = {}]
        /\ UNCHANGED <<lifecycle, CurrentRingIndex, RingDeletionQueue, queue, announced, now>>
    BY <1>1, <1>2, <1>3, <1>4 DEF remove_suspended_keys, config
  <1>6. /\ RingTypes /\ RootTypes /\ CurrentOK /\ CurrentRingIndex \in Nat /\ r \in Nat
        /\ StatusOK(r) /\ PlaceOK(r) /\ HookOK(r) /\ 0 \in RingPage
    BY RingFacts, Sizes DEF RingOK, Inv
  <1>7. Flexible /\ Standing /\ Standing'
    BY <1>5, <1>6 DEF StatusOK, Standing
  <1>8. PICK total \in Nat : total = RingKeysStatus[r].total /\ total = Len(keys)
                             /\ total <= RingCapacity
    BY <1>1, <1>7, RingFacts, OnePage
  <1>9. keys \in Seq(MemberKey) /\ RingKeys[r] \in [RingPage -> Seq(MemberKey)]
    BY <1>1, <1>6 DEF RingTypes
  <1>10. /\ new_total \in 0 .. RingCapacity /\ new_total <= total
         /\ closed \in Seq(MemberKey) /\ Len(closed) = new_total
    <2>1. /\ Cardinality(kept) \in Nat /\ Cardinality(kept) <= Len(keys)
          /\ closed \in Seq(MemberKey) /\ Len(closed) = Cardinality(kept)
      BY <1>2, <1>3, <1>4, <1>9, KeptKeys, Zenon
    <2> QED
      BY <1>3, <1>8, <2>1, Sizes
  <1>11. PICK pages : pages = [RingKeys[r] EXCEPT ![0] = closed]
    OBVIOUS
  <1>12. /\ pages \in [RingPage -> Seq(MemberKey)] /\ Len(pages[0]) = new_total
         /\ \A p \in RingPage : p # 0 => pages[p] = RingKeys[r][p]
    BY <1>6, <1>9, <1>10, <1>11
  <1>13. /\ RingKeys' \in [RingIndex -> [RingPage -> Seq(MemberKey)]]
         /\ RingKeys'[r] = pages
         /\ \A s \in RingIndex : s # r => RingKeys'[s] = RingKeys[s]
    <2>1. RingKeys' = [RingKeys EXCEPT ![r] = pages]
      BY <1>5, <1>6, <1>11 DEF RingTypes
    <2> QED
      BY <1>6, <1>12, <2>1 DEF RingTypes
  <1>14. /\ RingKeysStatus' \in [RingIndex -> Status]
         /\ RingKeysStatus'[r].total = new_total
         /\ RingKeysStatus'[r].included = 0
         /\ RingKeysStatus'[r].immutable_since = RingKeysStatus[r].immutable_since
         /\ \A s \in RingIndex : s # r => RingKeysStatus'[s] = RingKeysStatus[s]
    <2>1. RingKeysStatus[r] \in Status /\ RingKeysStatus \in [RingIndex -> Status]
      BY <1>6 DEF RingTypes
    <2>2. PICK new : new = [RingKeysStatus[r] EXCEPT !.total = new_total, !.included = 0]
      OBVIOUS
    <2>3. RingKeysStatus' = [RingKeysStatus EXCEPT ![r] = new]
      BY <1>5, <2>1, <2>2
    <2>4. new \in Status /\ new.total = new_total /\ new.included = 0
          /\ new.immutable_since = RingKeysStatus[r].immutable_since
      BY <1>10, <2>1, <2>2 DEF Status
    <2> QED
      BY <2>1, <2>3, <2>4
  <1>15. RingKeysStatus[r].immutable_since = NotImmutable
         /\ \A p \in RingPage : <<r, p>> \notin RingDeletionQueue
    BY <1>7, OnePage
  <1>16. /\ Root'[r] = Restarted(Root[r])
         /\ \A s \in RingIndex : s # r => Root'[s] = Root[s]
         /\ Root' = [s \in RingIndex |-> Root'[s]]
    BY <1>5, <1>6 DEF RootTypes
  <1>17. /\ Root[r] = NoRoot => Root'[r] = NoRoot
         /\ Root[r] # NoRoot => /\ Root'[r] # NoRoot /\ Root'[r].revision = Root[r].revision + 1
                                /\ Root'[r].revision \in Nat
    <2>1. CASE Root[r] = NoRoot
      BY <1>16, <2>1 DEF Restarted
    <2>2. CASE Root[r] # NoRoot
      <3>1. Root'[r] = [revision |-> Root[r].revision + 1, keys |-> <<>>]
        BY <1>16, <2>2 DEF Restarted
      <3>2. Root[r].revision \in Nat
        BY <1>6, <2>2 DEF RootTypes
      <3>3. Root'[r].revision = Root[r].revision + 1 /\ Root'[r].revision \in Nat
        BY <3>1, <3>2
      <3> QED
        BY <2>2, <3>3 DEF NoRoot
    <2> QED
      BY <2>1, <2>2
  <1>18. Supersedes(r)
    BY <1>5, <1>16, <1>17 DEF Supersedes
  <1>19. /\ PendingSuspensions' = [s \in RingIndex |-> PendingSuspensions'[s]]
         /\ PendingSuspensions'[r] = {}
         /\ \A s \in RingIndex : s # r => PendingSuspensions'[s] = PendingSuspensions[s]
    BY <1>5, <1>6 DEF RingTypes
  <1>20. RingTypes'
    BY <1>5, <1>6, <1>13, <1>14, <1>19 DEF RingTypes
  <1>21. CurrentOK'
    <2>1. CASE CurrentRingIndex = r
      <3>1. total < RingCapacity
        BY <1>6, <1>7, <1>8, <2>1 DEF CurrentOK
      <3> QED
        BY <1>5, <1>10, <1>14, <2>1, <3>1, Sizes DEF CurrentOK
    <2>2. CASE CurrentRingIndex # r
      BY <1>5, <1>6, <1>7, <1>14, <2>2 DEF CurrentOK, RingTypes
    <2> QED
      BY <2>1, <2>2
  <1>22. ASSUME NEW s \in RingIndex, s # r PROVE Untouched(s)
    BY <1>5, <1>6, <1>13, <1>14, <1>16, <1>18, <1>19, <1>22, ArchiveFacts DEF Untouched, RootTypes
  <1>23. StatusOK(r)'
    <2>1. r \notin StaleRings' => new_total <= 0
      BY <1>5, <1>10
    <2> QED
      BY <1>5, <1>10, <1>14, <1>15, <1>19, <2>1 DEF StatusOK
  <1>24. Paged(r)'
    <2>1. \A p \in RingPage : p # 0 => Len(pages[p]) = 0
      BY <1>7, <1>12, OnePage
    <2> QED
      BY <1>7, <1>10, <1>12, <1>13, <1>14, <2>1, OnePagePaged DEF Paged
  <1>25. PlaceOK(r)'
    <2>1. total = 0 => new_total = 0
      BY <1>10
    <2>2. Dead(r)' => Dead(r)
      BY <1>5, <1>17 DEF Dead, archive_root
    <2>3. CurrentRingIndex < r => new_total = 0 /\ Root'[r] = NoRoot
      BY <1>6, <1>7, <1>8, <1>17, <2>1 DEF PlaceOK
    <2>4. Dead(r)' => r < CurrentRingIndex /\ new_total = 0
      BY <1>6, <1>7, <1>8, <2>1, <2>2 DEF PlaceOK
    <2> QED
      BY <1>5, <1>14, <1>15, <1>24, <2>3, <2>4 DEF PlaceOK
  <1>26. HookOK(r)'
    <2>1. new_total > 0 => r \in StaleRings'
      BY <1>5
    <2>2. new_total > 0 \/ new_total = 0
      BY <1>10
    <2> QED
      BY <1>5, <1>6, <1>14, <1>17, <2>1, <2>2 DEF HookOK
  <1>27. PICK changed \in SUBSET RingIndex : changed = {r}
    OBVIOUS
  <1>28. /\ \A s \in RingIndex : s \notin changed => Untouched(s)
         /\ \A s \in changed : RingOK(s)' /\ RingKeysStatus[s].immutable_since = NotImmutable
    BY <1>15, <1>22, <1>23, <1>25, <1>26, <1>27 DEF RingOK
  <1>29. announced' = [s \in RingIndex |-> announced'[s]]
    BY <1>5, <1>6 DEF RootTypes
  <1> QED
    BY <1>5, <1>16, <1>17, <1>18, <1>20, <1>21, <1>28, <1>29, SupersedeStep

-----------------------------------------------------------------------------
(* The invariant and the properties *)

LEMMA InitInv == Init => Inv
  <1> SUFFICES ASSUME Init PROVE Inv
    OBVIOUS
  <1>1. NoStatus \in Status /\ NoStatus.total = 0 /\ NoStatus.included = 0
        /\ NoStatus.immutable_since = NotImmutable
    BY Sizes DEF NoStatus, Status, NotImmutable
  <1>2. QueueTypes
    BY Sizes DEF Init, QueueTypes, QueuePage
  <1>3. RingTypes
    BY <1>1, Sizes DEF Init, RingTypes
  <1>4. RootTypes /\ ArchivedBefore /\ OldRootsOrdered
    BY DEF Init, RootTypes, ArchivedBefore, OldRootsOrdered
  <1>5. CurrentOK
    BY <1>1, Sizes DEF Init, CurrentOK
  <1>6. ASSUME NEW r \in RingIndex PROVE RingOK(r)
    <2>1. RingKeysStatus[r] = NoStatus /\ Root[r] = NoRoot /\ announced[r] = NoRoot
          /\ PendingSuspensions[r] = {}
      BY DEF Init
    <2>2. StatusOK(r)
      BY <1>1, <2>1 DEF StatusOK
    <2>3. Paged(r)
      BY <1>1, <2>1, PageSizes DEF Paged, Init
    <2>4. PlaceOK(r)
      BY <1>1, <2>1, <2>3 DEF PlaceOK, Init, Dead
    <2>5. HookOK(r)
      BY <2>1 DEF HookOK
    <2> QED
      BY <2>2, <2>4, <2>5 DEF RingOK
  <1> QED
    BY <1>2, <1>3, <1>4, <1>5, <1>6 DEF Inv

LEMMA NextStep == ASSUME Inv, [Next]_vars PROVE Step
  <1>1. CASE \/ \E size \in OnboardingSizes : create_collection(size)
             \/ \E m \in MemberKey : add_members(m)
             \/ start_removal_session
             \/ end_removal_session
             \/ delete_collection
             \/ \E size \in OnboardingSizes : set_onboarding_size(size)
             \/ tick
             \/ merge_queue_pages
             \/ \E q \in QueuePage : delete_onboarding_queue_page(q)
             \/ remove_orphaned_members
             \/ finalize_collection_deletion
             \/ UNCHANGED vars
    BY <1>1, QuietCalls, QuietStep
  <1>2. CASE \E m \in MemberKey : remove_members(m)
    BY <1>2, RemoveMembers, QuietStep
  <1>3. CASE \E m \in MemberKey : self_include(m)
    BY <1>3, SelfInclude
  <1>4. CASE onboard_members
    BY <1>4, OnboardMembers
  <1>5. CASE \E r \in RingIndex : remove_ring(r) \/ enqueue_ring_deletion(r)
    BY <1>5, RemoveRing
  <1>6. CASE \E base, target \in RingIndex : merge_rings(base, target)
    BY <1>6, MergeRings
  <1>7. CASE \E r \in RingIndex : remove_suspended_keys(r)
    BY <1>7, RemoveSuspendedKeys
  <1>8. CASE \E r \in RingIndex, n \in 1 .. RingBuildingMemberLimit : build_ring(r, n)
    BY <1>8, BuildRing
  <1>9. CASE \E r \in RingIndex, p \in RingPage : delete_ring_page(r, p)
    BY <1>9, DeleteRingPage
  <1>10. CASE \E r \in RingIndex : clean_up_old_roots(r)
    BY <1>10, CleanUpOldRoots
  <1> QED
    BY <1>1, <1>2, <1>3, <1>4, <1>5, <1>6, <1>7, <1>8, <1>9, <1>10 DEF Next

\* What ProofsKept says of one step.
RetentionStep ==
    \A r \in DOMAIN Root : \A revision \in {Root[r].revision} \union {o.revision : o \in OldRoots} :
        is_revision_valid(r, revision) /\ ~is_revision_valid(r, revision)' =>
            \/ lifecycle' # "Live"
            \/ Root'[r] = NoRoot
            \/ \E o \in OldRoots \union OldRoots' :
                   /\ o.ring_index = r /\ o.revision = revision
                   /\ now' >= o.archived_at + OldRootRetentionDuration

\* A revision that is no longer accepted is archived, and was for as long as it is retained.
LEMMA RetentionLemma == ASSUME Inv, Step PROVE RetentionStep
  <1> SUFFICES ASSUME NEW r \in DOMAIN Root, NEW revision,
                      is_revision_valid(r, revision), ~ is_revision_valid(r, revision)',
                      lifecycle' = "Live", Root'[r] # NoRoot
               PROVE  \E o \in OldRoots \union OldRoots' :
                          /\ o.ring_index = r /\ o.revision = revision
                          /\ now' >= o.archived_at + OldRootRetentionDuration
    BY DEF RetentionStep
  <1>1. r \in RingIndex
    BY DEF Inv, RootTypes
  <1>2. RootStep /\ RootTypes /\ RootTypes'
    BY DEF Step, Inv
  <1>3. OldRootRetentionDuration \in Nat /\ now \in Nat /\ now' \in Nat /\ now' >= now
    BY <1>2, SizesAssumption DEF RootTypes, RootStep
  <1>4. ASSUME NEW a \in OldRoots', a.ring_index = r, a.revision = revision
        PROVE  now' >= a.archived_at + OldRootRetentionDuration
    <2>1. ~ (now' < a.archived_at + OldRootRetentionDuration)
      BY <1>4 DEF is_revision_valid
    <2>2. a.archived_at \in Nat
      BY <1>2 DEF RootTypes, Archived
    <2> QED
      BY <1>3, <2>1, <2>2
  <1>5. CASE Root[r].revision = revision
    <2>1. Root'[r] # Root[r] /\ Root[r] # NoRoot
      BY <1>5 DEF is_revision_valid
    <2>2. \E a \in OldRoots' : a.ring_index = r /\ a.revision = revision
      BY <1>1, <1>2, <1>5, <2>1 DEF RootStep
    <2> QED
      BY <1>4, <2>2
  <1>6. CASE Root[r].revision # revision
    <2>1. PICK o \in OldRoots : o.ring_index = r /\ o.revision = revision
      BY <1>6 DEF is_revision_valid
    <2>2. CASE \E a \in OldRoots' : a.ring_index = r /\ a.revision = revision
      BY <1>4, <2>2
    <2>3. CASE now >= o.archived_at + OldRootRetentionDuration
      <3>1. o.archived_at \in Nat
        BY <1>2 DEF RootTypes, Archived
      <3>2. now' >= o.archived_at + OldRootRetentionDuration
        BY <1>3, <2>3, <3>1
      <3> QED
        BY <2>1, <3>2
    <2> QED
      BY <1>2, <2>1, <2>2, <2>3 DEF RootStep
  <1> QED
    BY <1>5, <1>6

\* Every call of the pallet keeps the rings filled in order, counted and, with keys that the
\* root does not cover, marked as stale, and keeps the archived roots in order.
THEOREM Invariant == Spec => []Inv
  <1>1. Inv /\ [Next]_vars => Inv'
    BY NextStep DEF Step
  <1> QED
    BY InitInv, <1>1, PTL DEF Spec

\* A ring with keys its root does not cover is marked as stale after every sequence of calls, so
\* mark_ring_stale_authorized is never needed (onboard_members, do_self_include, merge_rings,
\* remove_suspended_keys, build_ring, enqueue_ring_for_deletion).
THEOREM LostCorrect == Spec => []NoRingLost
  <1>1. Inv => NoRingLost
    <2> SUFFICES ASSUME Inv, NEW r \in DOMAIN RingKeysStatus PROVE ~ ensure_can_mark_ring_stale(r)
      BY DEF NoRingLost
    <2>1. r \in RingIndex
      BY DEF Inv, RingTypes
    <2>2. /\ r \notin StaleRings => RingKeysStatus[r].total <= RingKeysStatus[r].included
          /\ RingKeysStatus[r].total \in Nat /\ RingKeysStatus[r].included \in Nat
      BY <2>1, RingFacts DEF RingOK, StatusOK
    <2> QED
      BY <2>2 DEF ensure_can_mark_ring_stale
  <1> QED
    BY Invariant, <1>1, PTL

\* What on_ring_root_change said last of a ring is its root, or that it is deleted, unless the
\* ring waits to be built or has no member, whatever was built, merged, suspended or deleted.
THEOREM AnnouncedCorrect == Spec => []AnnouncedExact
  <1>1. Inv => AnnouncedExact
    <2> SUFFICES ASSUME Inv, NEW r \in DOMAIN announced
                 PROVE  \/ announced[r] = Root[r] \/ r \in StaleRings
                        \/ r \in StatusKeys /\ RingKeysStatus[r].total = 0
      BY DEF AnnouncedExact
    <2>1. r \in RingIndex
      BY DEF Inv, RootTypes
    <2> QED
      BY <2>1, RingFacts DEF RingOK, HookOK
  <1> QED
    BY Invariant, <1>1, PTL

\* What a proof relies on is kept: archived roots are older than the root and in the order of
\* their archival, an accepted revision is refused only with its ring, its collection or after
\* its retention period, and an immutable ring does not change until it is removed
\* (archive_root, clean_up_old_roots, build_ring, get_root_at_revision).
THEOREM ProofsCorrect == Spec => ProofsKept
  <1>1. Inv => OldRootsOrdered
    BY DEF Inv
  <1>2. Inv /\ [Next]_vars => RetentionStep
    BY NextStep, RetentionLemma
  <1>3. Inv /\ [Next]_vars => ImmutableStep
    BY NextStep DEF Step
  <1>4. Spec => []OldRootsOrdered
    BY Invariant, <1>1, PTL
  <1>5. Spec => RetentionKept
    BY Invariant, <1>2, PTL DEF Spec, RetentionKept, RetentionStep
  <1>6. Spec => ImmutableKept
    BY Invariant, <1>3, PTL DEF Spec, ImmutableKept, ImmutableStep
  <1> QED
    BY <1>4, <1>5, <1>6 DEF ProofsKept

-----------------------------------------------------------------------------
(* Keys, pages and totals: the inductive invariant *)

\* An entry of Members is of one of four kinds.
EntryOK(m) ==
    \/ Members[m] = Absent
    \/ Members[m] = Suspended
    \/ \E q \in QueuePage, t \in Nat : Members[m] = Onboarding(q, t)
    \/ \E r \in RingIndex, p \in RingPage, i \in Nat : Members[m] = Included(r, p, i)

EntriesOK == Members = [m \in MemberKey |-> Members[m]] /\ \A m \in MemberKey : EntryOK(m)

\* A key is in the ring, the page and the position of its entry, which is not to be removed.
Held ==
    \A m \in MemberKey, r \in RingIndex, p \in RingPage, i \in Nat :
        Members[m] = Included(r, p, i) =>
            /\ i < Len(RingKeys[r][p])
            /\ RingKeys[r][p][i + 1] = m
            /\ i \notin PendingSuspensions[r]

\* The keys of a ring have entries, unless they are to be removed.
Known ==
    \A r \in StatusKeys, p \in RingPage, i \in Nat :
        i < Len(RingKeys[r][p]) /\ i \notin PendingSuspensions[r] =>
            Members[RingKeys[r][p][i + 1]] = Included(r, p, i)

\* Of a ring without a status only pages that are to be deleted are left.
GoneOK(r) ==
    /\ PendingSuspensions[r] = {} /\ Root[r] = NoRoot /\ r \notin StaleRings
    /\ \A p \in RingPage : RingKeys[r][p] # <<>> => <<r, p>> \in RingDeletionQueue

\* What is to be removed is on the first page.
PendingOK == \A r \in RingIndex : \A i \in PendingSuspensions[r] : i \in Nat /\ i < Len(RingKeys[r][0])

\* A key that is onboarding is on the page of its entry.
Queued ==
    \A m \in MemberKey, q \in QueuePage, t \in Nat :
        Members[m] = Onboarding(q, t) =>
            /\ IsQueued(q)
            /\ \E i \in 1 .. Len(OnboardingQueue[q]) : OnboardingQueue[q][i] = m

\* The keys of a page of the queue have entries, and are there once.
QueuePageOK(q) ==
    /\ Len(OnboardingQueue[q]) <= OnboardingQueuePageSize
    /\ OnboardingQueue[q] # <<>> => q \in QueueKeys
    /\ \A i \in 1 .. Len(OnboardingQueue[q]) :
           \E t \in Nat : Members[OnboardingQueue[q][i]] = Onboarding(q, t)
    /\ \A i, j \in 1 .. Len(OnboardingQueue[q]) :
           OnboardingQueue[q][i] = OnboardingQueue[q][j] => i = j

\* A root commits to the first keys of its ring.
RootedOK(r) == Root[r].keys = [i \in 1 .. RingKeysStatus[r].included |-> KeyAt(r, i - 1)]

\* The positions that hold a key, over all rings.
Filled == {x \in RingIndex \X Position : x[2] < RingKeysStatus[x[1]].total}
Counted == ActiveMembers \in Nat /\ ActiveMembers = Cardinality(Filled)

\* Nothing is left of a collection that is deleted.
Ended == lifecycle = "Retired" => StatusKeys = {} /\ RingDeletionQueue = {} /\ QueueKeys = {}

RingPart ==
    /\ Held /\ Known /\ PendingOK
    /\ \A r \in RingIndex \ StatusKeys : GoneOK(r)

QueuePart == QueueTypes /\ Queued /\ \A q \in QueuePage : QueuePageOK(q)

RoomOK == RingKeysStatus[CurrentRingIndex].total < RingCapacity

KeysInv ==
    /\ EntriesOK /\ RingPart /\ QueuePart
    /\ \A r \in RingIndex : RootedOK(r)
    /\ Counted /\ RoomOK /\ Ended

-----------------------------------------------------------------------------
(* Entries, positions and totals *)

\* Entries of different kinds, or of different places, are different.
LEMMA EntryKinds ==
    /\ Absent # Suspended
    /\ \A q, t : Onboarding(q, t) # Absent /\ Onboarding(q, t) # Suspended
    /\ \A r, p, i : Included(r, p, i) # Absent /\ Included(r, p, i) # Suspended
    /\ \A q, t, r, p, i : Onboarding(q, t) # Included(r, p, i)
    /\ \A q, t, q2, t2 : Onboarding(q, t) = Onboarding(q2, t2) => q = q2 /\ t = t2
    /\ \A r, p, i, r2, p2, i2 :
           Included(r, p, i) = Included(r2, p2, i2) => r = r2 /\ p = p2 /\ i = i2
  <1>1. \A q, t, r, p, i : /\ Onboarding(q, t) # Absent /\ Onboarding(q, t) # Suspended
                           /\ Included(r, p, i) # Absent /\ Included(r, p, i) # Suspended
                           /\ Onboarding(q, t) # Included(r, p, i)
                           /\ Absent # Suspended
    <2>1. /\ Absent.at = "Absent" /\ Suspended.at = "Suspended"
          /\ \A q, t : Onboarding(q, t).at = "Onboarding"
          /\ \A r, p, i : Included(r, p, i).at = "Included"
      BY DEF Absent, Suspended, Onboarding, Included
    <2> QED
      BY <2>1
  <1>2. \A q, t, q2, t2 : Onboarding(q, t) = Onboarding(q2, t2) => q = q2 /\ t = t2
    <2>1. \A q, t : Onboarding(q, t).queue_page = q /\ Onboarding(q, t).queued_at = t
      BY DEF Onboarding
    <2> QED
      BY <2>1
  <1>3. \A r, p, i, r2, p2, i2 :
            Included(r, p, i) = Included(r2, p2, i2) => r = r2 /\ p = p2 /\ i = i2
    <2>1. \A r, p, i : /\ Included(r, p, i).ring_index = r /\ Included(r, p, i).ring_page = p
                       /\ Included(r, p, i).ring_position = i
      BY DEF Included
    <2> QED
      BY <2>1
  <1> QED
    BY <1>1, <1>2, <1>3

LEMMA EntryFields ==
    /\ \A q, t : /\ Onboarding(q, t).at = "Onboarding"
                 /\ Onboarding(q, t).queue_page = q /\ Onboarding(q, t).queued_at = t
    /\ \A r, p, i : /\ Included(r, p, i).at = "Included" /\ Included(r, p, i).ring_index = r
                    /\ Included(r, p, i).ring_page = p /\ Included(r, p, i).ring_position = i
    /\ Absent.at = "Absent" /\ Suspended.at = "Suspended"
  BY DEF Absent, Suspended, Onboarding, Included

\* The kind of an entry tells the place.
LEMMA EntryAt ==
    ASSUME KeysInv, NEW m \in MemberKey
    PROVE  /\ Members[m].at = "Onboarding" =>
                  \E q \in QueuePage, t \in Nat : Members[m] = Onboarding(q, t)
           /\ Members[m].at = "Included" =>
                  \E r \in RingIndex, p \in RingPage, i \in Nat : Members[m] = Included(r, p, i)
  <1>1. EntryOK(m)
    BY DEF KeysInv, EntriesOK
  <1> QED
    BY <1>1, EntryFields DEF EntryOK

\* Positions of a ring, and the page and the place in it that hold them.
LEMMA Division ==
    ASSUME NEW i \in Nat
    PROVE  /\ i \div RingPageSize \in Nat /\ i % RingPageSize \in 0 .. RingPageSize - 1
           /\ i = (i \div RingPageSize) * RingPageSize + (i % RingPageSize)
           /\ i < RingCapacity => i \div RingPageSize \in RingPage
           /\ i < RingPageSize => i \div RingPageSize = 0 /\ i % RingPageSize = i
  <1>1. RingPageSize \in Nat \ {0} /\ RingCapacity \in Nat
    BY Sizes
  <1>2. /\ i \div RingPageSize \in Nat /\ i % RingPageSize \in 0 .. RingPageSize - 1
        /\ i = (i \div RingPageSize) * RingPageSize + (i % RingPageSize)
        /\ i < RingPageSize => i \div RingPageSize = 0 /\ i % RingPageSize = i
    BY <1>1
  <1>3. ASSUME i < RingCapacity PROVE i \div RingPageSize \in RingPage
    <2>1. i \div RingPageSize <= RingCapacity \div RingPageSize
      BY <1>1, <1>3
    <2>2. RingCapacity \div RingPageSize \in Nat
      BY <1>1
    <2> QED
      BY <1>2, <2>1, <2>2 DEF RingPage
  <1> QED
    BY <1>2, <1>3

\* A position is on one page only.
LEMMA OnPage ==
    ASSUME NEW p \in Nat, NEW j \in 0 .. RingPageSize - 1
    PROVE  /\ p * RingPageSize + j \in Nat
           /\ (p * RingPageSize + j) \div RingPageSize = p
           /\ (p * RingPageSize + j) % RingPageSize = j
  <1>1. RingPageSize \in Nat \ {0}
    BY Sizes
  <1> QED
    BY <1>1

-----------------------------------------------------------------------------
(* Steps that leave a part of the state alone *)

SameIncluded ==
    \A m \in MemberKey, r \in RingIndex, p \in RingPage, i \in Nat :
        Members'[m] = Included(r, p, i) <=> Members[m] = Included(r, p, i)

SameOnboarding ==
    \A m \in MemberKey, q \in QueuePage, t \in Nat :
        Members'[m] = Onboarding(q, t) <=> Members[m] = Onboarding(q, t)

\* The keys of rings and queue pages are keys.
LEMMA KeyTypes ==
    ASSUME Inv
    PROVE  /\ \A r \in RingIndex, p \in RingPage :
                  /\ RingKeys[r][p] \in Seq(MemberKey) /\ Len(RingKeys[r][p]) \in Nat
                  /\ \A i \in Nat : i < Len(RingKeys[r][p]) => RingKeys[r][p][i + 1] \in MemberKey
           /\ \A q \in QueuePage :
                  /\ OnboardingQueue[q] \in Seq(MemberKey) /\ Len(OnboardingQueue[q]) \in Nat
                  /\ \A i \in 1 .. Len(OnboardingQueue[q]) : OnboardingQueue[q][i] \in MemberKey
           /\ StatusKeys \subseteq RingIndex
  <1>1. RingTypes /\ QueueTypes
    BY DEF Inv
  <1>2. ASSUME NEW r \in RingIndex, NEW p \in RingPage
        PROVE  /\ RingKeys[r][p] \in Seq(MemberKey) /\ Len(RingKeys[r][p]) \in Nat
               /\ \A i \in Nat : i < Len(RingKeys[r][p]) => RingKeys[r][p][i + 1] \in MemberKey
    <2>1. RingKeys[r][p] \in Seq(MemberKey)
      BY <1>1 DEF RingTypes
    <2> QED
      BY <2>1
  <1>3. ASSUME NEW q \in QueuePage
        PROVE  /\ OnboardingQueue[q] \in Seq(MemberKey) /\ Len(OnboardingQueue[q]) \in Nat
               /\ \A i \in 1 .. Len(OnboardingQueue[q]) : OnboardingQueue[q][i] \in MemberKey
    <2>1. OnboardingQueue[q] \in Seq(MemberKey)
      BY <1>1 DEF QueueTypes
    <2> QED
      BY <2>1
  <1> QED
    BY <1>1, <1>2, <1>3 DEF RingTypes

LEMMA RingFrame ==
    ASSUME Inv, RingPart, SameIncluded,
           UNCHANGED <<RingKeys, StatusKeys, PendingSuspensions, RingDeletionQueue, Root, StaleRings>>
    PROVE  RingPart'
  <1>1. Held'
    BY DEF RingPart, Held, SameIncluded
  <1>2. Known'
    <2> SUFFICES ASSUME NEW r \in StatusKeys, NEW p \in RingPage, NEW i \in Nat,
                        i < Len(RingKeys[r][p]), i \notin PendingSuspensions[r]
                 PROVE  Members'[RingKeys[r][p][i + 1]] = Included(r, p, i)
      BY DEF Known
    <2>1. r \in RingIndex /\ RingKeys[r][p][i + 1] \in MemberKey
      BY KeyTypes
    <2>2. Members[RingKeys[r][p][i + 1]] = Included(r, p, i)
      BY DEF RingPart, Known
    <2> QED
      BY <2>1, <2>2 DEF SameIncluded
  <1>3. PendingOK'
    BY DEF RingPart, PendingOK
  <1>4. ASSUME NEW r \in RingIndex \ StatusKeys' PROVE GoneOK(r)'
    BY DEF RingPart, GoneOK
  <1> QED
    BY <1>1, <1>2, <1>3, <1>4 DEF RingPart

LEMMA QueueFrame ==
    ASSUME Inv, QueuePart, SameOnboarding, UNCHANGED queue
    PROVE  QueuePart'
  <1> USE DEF queue
  <1>1. QueueTypes'
    BY DEF QueuePart, QueueTypes
  <1>2. Queued'
    BY DEF QueuePart, Queued, SameOnboarding, IsQueued
  <1>3. ASSUME NEW q \in QueuePage PROVE QueuePageOK(q)'
    <2>1. QueuePageOK(q)
      BY DEF QueuePart
    <2>2. ASSUME NEW i \in 1 .. Len(OnboardingQueue[q])
          PROVE  \E t \in Nat : Members'[OnboardingQueue[q][i]] = Onboarding(q, t)
      <3>1. OnboardingQueue[q][i] \in MemberKey
        BY KeyTypes
      <3>2. PICK t \in Nat : Members[OnboardingQueue[q][i]] = Onboarding(q, t)
        BY <2>1 DEF QueuePageOK
      <3> QED
        BY <3>1, <3>2 DEF SameOnboarding
    <2> QED
      BY <2>1, <2>2 DEF QueuePageOK
  <1> QED
    BY <1>1, <1>2, <1>3 DEF QueuePart

LEMMA CountFrame ==
    ASSUME Counted, ActiveMembers' = ActiveMembers,
           \A r \in RingIndex : RingKeysStatus'[r].total = RingKeysStatus[r].total
    PROVE  Counted'
  <1>1. Filled' = Filled
    BY DEF Filled
  <1> QED
    BY <1>1 DEF Counted

LEMMA RootFrame ==
    ASSUME NEW r \in RingIndex, RootedOK(r), Root'[r] = Root[r],
           RingKeysStatus'[r] = RingKeysStatus[r], RingKeys'[r] = RingKeys[r]
    PROVE  RootedOK(r)'
  BY DEF RootedOK, KeyAt

\* Steps that do not touch rings, keys or the queue.
LEMMA AsideKeys ==
    ASSUME Inv, KeysInv, UNCHANGED <<rings, Members, queue, Root>>,
           lifecycle' = "Retired" => lifecycle = "Retired"
    PROVE  KeysInv'
  <1> USE DEF rings, queue
  <1>1. EntriesOK'
    BY DEF KeysInv, EntriesOK, EntryOK
  <1>2. RingPart'
    BY RingFrame DEF KeysInv, SameIncluded
  <1>3. QueuePart'
    BY QueueFrame DEF KeysInv, SameOnboarding
  <1>4. ASSUME NEW r \in RingIndex PROVE RootedOK(r)'
    BY RootFrame DEF KeysInv
  <1>5. Counted'
    BY CountFrame DEF KeysInv
  <1>6. RoomOK' /\ Ended'
    BY DEF KeysInv, RoomOK, Ended
  <1> QED
    BY <1>1, <1>2, <1>3, <1>4, <1>5, <1>6 DEF KeysInv

LEMMA AsideCalls ==
    ASSUME Inv, KeysInv,
           \/ \E size \in OnboardingSizes : create_collection(size) \/ set_onboarding_size(size)
           \/ start_removal_session \/ end_removal_session \/ delete_collection \/ tick
           \/ \E r \in RingIndex : clean_up_old_roots(r)
           \/ UNCHANGED vars
    PROVE  KeysInv'
  <1>1. UNCHANGED <<rings, Members, queue, Root>> /\ (lifecycle' = "Retired" => lifecycle = "Retired")
    BY DEF create_collection, set_onboarding_size, start_removal_session, end_removal_session,
           delete_collection, tick, clean_up_old_roots, vars, roots, config
  <1> QED
    BY <1>1, AsideKeys

-----------------------------------------------------------------------------
(* The queue *)

Between(q, head, tail) ==
    IF head <= tail THEN head <= q /\ q <= tail ELSE head <= q \/ q <= tail

\* The pages from head to tail, past the wrap of the index, when one end moves on.
LEMMA QueueOrder ==
    ASSUME NEW head \in QueuePage, NEW tail \in QueuePage, NEW q \in QueuePage
    PROVE  /\ Between(head, head, tail) /\ Between(tail, head, tail)
           /\ NextQueuePage(tail) # head =>
                  /\ ~ Between(NextQueuePage(tail), head, tail)
                  /\ Between(q, head, tail) => Between(q, head, NextQueuePage(tail))
           /\ head # tail =>
                  /\ NextQueuePage(head) # head
                  /\ Between(NextQueuePage(head), head, tail)
                  /\ Between(q, head, tail) /\ q # head => Between(q, NextQueuePage(head), tail)
  <1>1. QueuePageCount \in Nat \ {0} /\ QueuePage = 0 .. QueuePageCount - 1
    BY SizesAssumption DEF QueuePage
  <1>2. \A x \in QueuePage : NextQueuePage(x) = IF x = QueuePageCount - 1 THEN 0 ELSE x + 1
    BY <1>1 DEF NextQueuePage
  <1> QED
    BY <1>1, <1>2 DEF Between

LEMMA QueuedFacts ==
    ASSUME Inv, KeysInv
    PROVE  /\ QueuePageIndices.head \in QueuePage /\ QueuePageIndices.tail \in QueuePage
           /\ \A q : IsQueued(q) <=> Between(q, QueuePageIndices.head, QueuePageIndices.tail)
           /\ \A q \in QueuePage : OnboardingQueue[q] # <<>> => IsQueued(q)
           /\ \A q \in QueuePage : \A i \in 1 .. Len(OnboardingQueue[q]) :
                  \A r \in StatusKeys, p \in RingPage, j \in Nat :
                      OnboardingQueue[q][i] \in MemberKey
                      /\ Members[OnboardingQueue[q][i]] # Included(r, p, j)
  <1>1. /\ QueuePageIndices.head \in QueuePage /\ QueuePageIndices.tail \in QueuePage
    BY QueueFacts
  <1>2. \A q : IsQueued(q) <=> Between(q, QueuePageIndices.head, QueuePageIndices.tail)
    BY DEF IsQueued, Between
  <1>3. ASSUME NEW q \in QueuePage, OnboardingQueue[q] # <<>> PROVE IsQueued(q)
    <2>1. OnboardingQueue[q] \in Seq(MemberKey)
      BY KeyTypes
    <2>2. 1 \in 1 .. Len(OnboardingQueue[q])
      BY <1>3, <2>1
    <2>3. QueuePageOK(q) /\ Queued
      BY DEF KeysInv, QueuePart
    <2>4. PICK t \in Nat : Members[OnboardingQueue[q][1]] = Onboarding(q, t)
      BY <2>2, <2>3 DEF QueuePageOK
    <2> QED
      BY <2>2, <2>3, <2>4, KeyTypes DEF Queued
  <1>4. ASSUME NEW q \in QueuePage, NEW i \in 1 .. Len(OnboardingQueue[q])
        PROVE  /\ OnboardingQueue[q][i] \in MemberKey
               /\ \A r, p, j : Members[OnboardingQueue[q][i]] # Included(r, p, j)
    BY KeyTypes, EntryKinds DEF KeysInv, QueuePart, QueuePageOK
  <1> QED
    BY <1>1, <1>2, <1>3, <1>4

\* Nothing else of the invariant depends on the queue.
LEMMA QueueStep ==
    ASSUME Inv, KeysInv, UNCHANGED <<rings, Root, lifecycle>>, SameIncluded, EntriesOK', QueuePart',
           lifecycle # "Retired"
    PROVE  KeysInv'
  <1> USE DEF rings
  <1>1. RingPart'
    BY RingFrame DEF KeysInv
  <1>2. ASSUME NEW r \in RingIndex PROVE RootedOK(r)'
    BY RootFrame DEF KeysInv
  <1>3. Counted'
    BY CountFrame DEF KeysInv
  <1>4. RoomOK' /\ Ended'
    BY DEF KeysInv, RoomOK, Ended
  <1> QED
    BY <1>1, <1>2, <1>3, <1>4 DEF KeysInv

LEMMA AddMembers ==
    ASSUME Inv, KeysInv, NEW m \in MemberKey, add_members(m)
    PROVE  KeysInv'
  <1>1. Members[m] \in {Absent, Suspended}
    BY DEF add_members
  <1>2. PICK head, tail : head = QueuePageIndices.head /\ tail = QueuePageIndices.tail
    OBVIOUS
  <1> DEFINE full == Len(OnboardingQueue[tail]) >= OnboardingQueuePageSize
  <1>4. PICK page : page = IF full THEN NextQueuePage(tail) ELSE tail
    OBVIOUS
  <1>5. /\ full => page # head
        /\ QueuePageIndices' = [head |-> head, tail |-> page]
        /\ OnboardingQueue' = [OnboardingQueue EXCEPT ![page] = IF full THEN <<m>> ELSE Append(@, m)]
        /\ QueueKeys' = QueueKeys \union {page}
        /\ Members' = [Members EXCEPT ![m] = Onboarding(page, now)]
        /\ UNCHANGED <<config, rings, roots, now>> /\ lifecycle = "Live"
    BY <1>2, <1>4 DEF add_members, push_to_onboarding_queue
  <1>6. /\ head \in QueuePage /\ tail \in QueuePage /\ page \in QueuePage
        /\ now \in Nat /\ OnboardingQueuePageSize \in Nat \ {0}
        /\ Members = [k \in MemberKey |-> Members[k]]
        /\ OnboardingQueue \in [QueuePage -> Seq(MemberKey)]
    <2>1. now \in Nat /\ OnboardingQueue \in [QueuePage -> Seq(MemberKey)]
      BY DEF Inv, RootTypes, QueueTypes
    <2> QED
      BY <1>2, <1>4, <2>1, QueuedFacts, NextPage, SizesAssumption DEF KeysInv, EntriesOK
  <1>7. /\ Members'[m] = Onboarding(page, now)
        /\ \A k \in MemberKey : k # m => Members'[k] = Members[k]
        /\ Members' = [k \in MemberKey |-> Members'[k]]
    BY <1>5, <1>6
  <1>8. EntriesOK'
    BY <1>6, <1>7 DEF KeysInv, EntriesOK, EntryOK
  <1>9. SameIncluded
    BY <1>1, <1>7, EntryKinds DEF SameIncluded
  <1>10. full => ~ IsQueued(page) /\ OnboardingQueue[page] = <<>>
    BY <1>2, <1>4, <1>5, <1>6, QueuedFacts, QueueOrder
  <1>11. \A q \in QueuePage : IsQueued(q) \/ q = page => IsQueued(q)'
    <2>1. \A q : IsQueued(q)' <=> Between(q, head, page)
      BY <1>5 DEF IsQueued, Between
    <2> QED
      BY <1>2, <1>4, <1>5, <1>6, <2>1, QueuedFacts, QueueOrder
  <1>12. PICK old \in Seq(MemberKey) :
             /\ old = OnboardingQueue[page]
             /\ OnboardingQueue'[page] = Append(old, m)
             /\ Len(old) < OnboardingQueuePageSize
    <2>1. CASE full
      <3>1. OnboardingQueue'[page] = <<m>>
        BY <1>5, <1>6, <2>1
      <3>2. <<m>> = Append(<<>>, m) /\ <<>> \in Seq(MemberKey) /\ Len(<<>>) = 0
        OBVIOUS
      <3>3. Len(<<>>) < OnboardingQueuePageSize
        BY <1>6, <3>2
      <3> QED
        BY <1>10, <2>1, <3>1, <3>2, <3>3
    <2>2. CASE ~ full
      <3>1. page = tail /\ OnboardingQueue'[page] = Append(OnboardingQueue[page], m)
        BY <1>4, <1>5, <1>6, <2>2
      <3>2. Len(OnboardingQueue[page]) < OnboardingQueuePageSize
        <4>1. Len(OnboardingQueue[page]) \in Nat
          BY <1>6
        <4> QED
          BY <1>6, <2>2, <3>1, <4>1
      <3> QED
        BY <1>6, <3>1, <3>2
    <2> QED
      BY <2>1, <2>2
  <1>13. /\ Len(Append(old, m)) = Len(old) + 1 /\ Len(old) \in Nat
         /\ \A i \in 1 .. Len(old) : Append(old, m)[i] = old[i]
         /\ Append(old, m)[Len(old) + 1] = m
         /\ Append(old, m) # <<>>
    BY <1>12
  <1>14. \A i \in 1 .. Len(old) : old[i] # m /\ old[i] \in MemberKey
    BY <1>1, <1>12, KeyTypes, EntryKinds, <1>6 DEF KeysInv, QueuePart, QueuePageOK
  <1>15. ASSUME NEW q \in QueuePage PROVE QueuePageOK(q)'
    <2>1. QueuePageOK(q)
      BY DEF KeysInv, QueuePart
    <2>2. CASE q # page
      <3>1. OnboardingQueue'[q] = OnboardingQueue[q] /\ (q \in QueueKeys => q \in QueueKeys')
        BY <1>5, <1>6, <2>2
      <3>2. ASSUME NEW i \in 1 .. Len(OnboardingQueue[q])
            PROVE  \E t \in Nat : Members'[OnboardingQueue[q][i]] = Onboarding(q, t)
        <4>1. OnboardingQueue[q][i] \in MemberKey
          BY KeyTypes
        <4>2. PICK t \in Nat : Members[OnboardingQueue[q][i]] = Onboarding(q, t)
          BY <2>1 DEF QueuePageOK
        <4> QED
          BY <1>1, <1>7, <4>1, <4>2, EntryKinds
      <3> QED
        BY <2>1, <3>1, <3>2 DEF QueuePageOK
    <2>3. CASE q = page
      <3>1. page \in QueueKeys'
        BY <1>5
      <3>2. \A i \in 1 .. Len(old) + 1 : \E t \in Nat : Members'[Append(old, m)[i]] = Onboarding(q, t)
        <4>1. \A i \in 1 .. Len(old) : \E t \in Nat : Members'[old[i]] = Onboarding(q, t)
          BY <1>7, <1>12, <1>14, <2>1, <2>3 DEF QueuePageOK
        <4>2. \A i \in 1 .. Len(old) + 1 : i \in 1 .. Len(old) \/ i = Len(old) + 1
          BY <1>13
        <4> QED
          BY <1>6, <1>7, <1>13, <2>3, <4>1, <4>2
      <3>3. \A i, j \in 1 .. Len(old) + 1 : Append(old, m)[i] = Append(old, m)[j] => i = j
        <4>1. \A i, j \in 1 .. Len(old) : old[i] = old[j] => i = j
          BY <1>12, <2>1, <2>3 DEF QueuePageOK
        <4>2. \A i \in 1 .. Len(old) + 1 : i \in 1 .. Len(old) \/ i = Len(old) + 1
          BY <1>13
        <4> QED
          BY <1>13, <1>14, <4>1, <4>2
      <3>4. Len(old) + 1 <= OnboardingQueuePageSize
        BY <1>6, <1>12, <1>13
      <3>5. Len(OnboardingQueue'[page]) = Len(old) + 1 /\ OnboardingQueue'[page] = Append(old, m)
        BY <1>12, <1>13
      <3> QED
        BY <2>3, <3>1, <3>2, <3>3, <3>4, <3>5 DEF QueuePageOK
    <2> QED
      BY <2>2, <2>3
  <1>16. Queued'
    <2> SUFFICES ASSUME NEW k \in MemberKey, NEW q \in QueuePage, NEW t \in Nat,
                        Members'[k] = Onboarding(q, t)
                 PROVE  /\ IsQueued(q)'
                        /\ \E i \in 1 .. Len(OnboardingQueue'[q]) : OnboardingQueue'[q][i] = k
      BY DEF Queued
    <2>1. CASE k = m
      <3>1. q = page
        <4>1. Onboarding(page, now) = Onboarding(q, t)
          BY <1>7, <2>1
        <4> QED
          BY <4>1, EntryKinds
      <3>2. Len(old) + 1 \in 1 .. Len(OnboardingQueue'[q]) /\ OnboardingQueue'[q][Len(old) + 1] = k
        BY <1>12, <1>13, <2>1, <3>1
      <3> QED
        BY <1>11, <3>1, <3>2
    <2>2. CASE k # m
      <3>1. Members[k] = Onboarding(q, t)
        BY <1>7, <2>2
      <3>2. IsQueued(q) /\ \E i \in 1 .. Len(OnboardingQueue[q]) : OnboardingQueue[q][i] = k
        BY <3>1 DEF KeysInv, QueuePart, Queued
      <3>3. PICK i \in 1 .. Len(OnboardingQueue[q]) : OnboardingQueue[q][i] = k
        BY <3>2
      <3>4. i \in 1 .. Len(OnboardingQueue'[q]) /\ OnboardingQueue'[q][i] = k
        <4>1. CASE q = page
          BY <1>12, <1>13, <3>3, <4>1
        <4>2. CASE q # page
          BY <1>5, <1>6, <3>3, <4>2
        <4> QED
          BY <4>1, <4>2
      <3> QED
        BY <1>11, <3>2, <3>4
    <2> QED
      BY <2>1, <2>2
  <1>17. QueueTypes'
    BY AddQueue DEF add_members
  <1>18. QueuePart'
    BY <1>15, <1>16, <1>17 DEF QueuePart
  <1> QED
    BY <1>5, <1>8, <1>9, <1>18, QueueStep DEF roots, config

\* A sequence without repetitions loses the key and keeps the others, in any order.
Injective(keys) == \A i, j \in 1 .. Len(keys) : keys[i] = keys[j] => i = j

LEMMA WithoutFacts ==
    ASSUME NEW keys \in Seq(MemberKey), Injective(keys), NEW m,
           \E i \in 1 .. Len(keys) : keys[i] = m
    PROVE  /\ Without(keys, m) \in Seq(MemberKey) /\ Len(Without(keys, m)) = Len(keys) - 1
           /\ \A j \in 1 .. Len(Without(keys, m)) :
                  Without(keys, m)[j] # m
                  /\ \E i \in 1 .. Len(keys) : Without(keys, m)[j] = keys[i]
           /\ \A i \in 1 .. Len(keys) :
                  keys[i] # m => \E j \in 1 .. Len(Without(keys, m)) : Without(keys, m)[j] = keys[i]
           /\ Injective(Without(keys, m))
  <1>1. PICK idx : idx = CHOOSE i \in 1 .. Len(keys) :
                             keys[i] = m /\ \A j \in 1 .. i - 1 : keys[j] # m
    OBVIOUS
  <1>2. idx \in 1 .. Len(keys) /\ keys[idx] = m
    <2>1. PICK i \in 1 .. Len(keys) : keys[i] = m
      OBVIOUS
    <2>2. \A j \in 1 .. i - 1 : j \in 1 .. Len(keys) /\ j # i
      BY <2>1
    <2>3. \A j \in 1 .. i - 1 : keys[j] # m
      BY <2>1, <2>2 DEF Injective
    <2> QED
      BY <1>1, <2>1, <2>3
  <1>3. PICK w : w = [i \in 1 .. Len(keys) - 1 |-> IF i < idx THEN keys[i] ELSE keys[i + 1]]
    OBVIOUS
  <1>4. Without(keys, m) = w
    BY <1>1, <1>2, <1>3 DEF Without
  <1>5. w \in Seq(MemberKey) /\ Len(w) = Len(keys) - 1 /\ Len(w) \in Nat /\ Len(keys) \in Nat
    <2>1. Len(keys) - 1 \in Nat
      BY <1>2
    <2>2. w \in [1 .. Len(keys) - 1 -> MemberKey]
      BY <1>2, <1>3, <2>1
    <2> QED
      BY <2>1, <2>2
  <1>6. \A i \in 1 .. Len(w) :
            /\ i < idx => w[i] = keys[i] /\ i \in 1 .. Len(keys)
            /\ i >= idx => w[i] = keys[i + 1] /\ i + 1 \in 1 .. Len(keys)
    BY <1>2, <1>3, <1>5
  <1>7. \A j \in 1 .. Len(w) : w[j] # m /\ \E i \in 1 .. Len(keys) : w[j] = keys[i]
    <2> TAKE j \in 1 .. Len(w)
    <2>1. CASE j < idx
      BY <1>2, <1>6, <2>1 DEF Injective
    <2>2. CASE ~ (j < idx)
      <3>1. j >= idx /\ j + 1 # idx
        BY <1>2, <2>2
      <3> QED
        BY <1>2, <1>6, <3>1 DEF Injective
    <2> QED
      BY <2>1, <2>2
  <1>8. \A i \in 1 .. Len(keys) : keys[i] # m => \E j \in 1 .. Len(w) : w[j] = keys[i]
    <2> SUFFICES ASSUME NEW i \in 1 .. Len(keys), keys[i] # m
                 PROVE  \E j \in 1 .. Len(w) : w[j] = keys[i]
      OBVIOUS
    <2>1. CASE i < idx
      <3>1. i \in 1 .. Len(w)
        BY <1>2, <1>5, <2>1
      <3> QED
        BY <1>6, <2>1, <3>1
    <2>2. CASE ~ (i < idx)
      <3>1. i > idx /\ i - 1 \in 1 .. Len(w) /\ i - 1 >= idx /\ (i - 1) + 1 = i
        BY <1>2, <1>5, <2>2
      <3> QED
        BY <1>6, <3>1
    <2> QED
      BY <2>1, <2>2
  <1>9. Injective(w)
    <2> SUFFICES ASSUME NEW i \in 1 .. Len(w), NEW j \in 1 .. Len(w), w[i] = w[j] PROVE i = j
      BY DEF Injective
    <2>1. \A x, y \in 1 .. Len(keys) : keys[x] = keys[y] => x = y
      BY DEF Injective
    <2>2. CASE i < idx /\ j < idx
      BY <1>6, <2>1, <2>2
    <2>3. CASE i < idx /\ ~ (j < idx)
      <3>1. i = j + 1
        BY <1>2, <1>6, <2>1, <2>3
      <3> QED
        BY <1>2, <2>3, <3>1
    <2>4. CASE ~ (i < idx) /\ j < idx
      <3>1. i + 1 = j
        BY <1>2, <1>6, <2>1, <2>4
      <3> QED
        BY <1>2, <2>4, <3>1
    <2>5. CASE ~ (i < idx) /\ ~ (j < idx)
      <3>1. i + 1 = j + 1
        BY <1>2, <1>6, <2>1, <2>5
      <3> QED
        BY <3>1
    <2> QED
      BY <2>2, <2>3, <2>4, <2>5
  <1> QED
    BY <1>4, <1>5, <1>7, <1>8, <1>9

LEMMA PageInjective ==
    ASSUME KeysInv, NEW q \in QueuePage
    PROVE  Injective(OnboardingQueue[q]) /\ QueuePageOK(q)
  BY DEF KeysInv, QueuePart, QueuePageOK, Injective

\* A key leaves the queue, and the page with it if it was the last on the first page.
LEMMA KeyLeavesQueue ==
    ASSUME Inv, KeysInv, NEW m \in MemberKey, NEW page \in QueuePage, NEW t \in Nat,
           Members[m] = Onboarding(page, t),
           NEW keys, keys = Without(OnboardingQueue[page], m),
           OnboardingQueue' = [OnboardingQueue EXCEPT ![page] = keys],
           QueueTypes',
           \A k \in MemberKey : k # m =>
               \A q \in QueuePage, s \in Nat :
                   Members'[k] = Onboarding(q, s) <=> Members[k] = Onboarding(q, s),
           \A q \in QueuePage, s \in Nat : Members'[m] # Onboarding(q, s),
           keys # <<>> => page \in QueueKeys',
           \A q \in QueuePage : q # page /\ q \in QueueKeys => q \in QueueKeys',
           \A q \in QueuePage : IsQueued(q) /\ (q # page \/ keys # <<>>) => IsQueued(q)'
    PROVE  QueuePart'
  <1>1. PICK old \in Seq(MemberKey) : old = OnboardingQueue[page]
    BY KeyTypes
  <1>2. Injective(old) /\ (\E i \in 1 .. Len(old) : old[i] = m) /\ QueuePageOK(page)
    BY <1>1, PageInjective DEF KeysInv, QueuePart, Queued
  <1>3. /\ keys \in Seq(MemberKey) /\ Len(keys) = Len(old) - 1 /\ Injective(keys)
        /\ \A j \in 1 .. Len(keys) : keys[j] # m /\ \E i \in 1 .. Len(old) : keys[j] = old[i]
        /\ \A i \in 1 .. Len(old) : old[i] # m => \E j \in 1 .. Len(keys) : keys[j] = old[i]
    <2>1. PICK w : w = Without(old, m)
      OBVIOUS
    <2>2. /\ w \in Seq(MemberKey) /\ Len(w) = Len(old) - 1 /\ Injective(w)
          /\ \A j \in 1 .. Len(w) : w[j] # m /\ \E i \in 1 .. Len(old) : w[j] = old[i]
          /\ \A i \in 1 .. Len(old) : old[i] # m => \E j \in 1 .. Len(w) : w[j] = old[i]
      BY <1>2, <2>1, WithoutFacts
    <2>3. keys = w
      BY <1>1, <2>1
    <2> QED
      BY <2>2, <2>3
  <1>4. /\ OnboardingQueue'[page] = keys
        /\ \A q \in QueuePage : q # page => OnboardingQueue'[q] = OnboardingQueue[q]
    BY DEF Inv, QueueTypes
  <1>5. \A i \in 1 .. Len(old) : old[i] \in MemberKey /\ \E s \in Nat : Members[old[i]] = Onboarding(page, s)
    BY <1>1, <1>2 DEF QueuePageOK
  <1>6. QueuePageOK(page)'
    <2>1. Len(keys) <= OnboardingQueuePageSize
      <3>1. Len(old) <= OnboardingQueuePageSize /\ Len(old) \in Nat
        BY <1>1, <1>2 DEF QueuePageOK
      <3> QED
        BY <1>3, <3>1, SizesAssumption
    <2>2. \A j \in 1 .. Len(keys) : \E s \in Nat : Members'[keys[j]] = Onboarding(page, s)
      <3> TAKE j \in 1 .. Len(keys)
      <3>0. keys[j] # m /\ \E i \in 1 .. Len(old) : keys[j] = old[i]
        BY <1>3, Zenon
      <3>1. PICK i \in 1 .. Len(old) : keys[j] = old[i] /\ old[i] # m
        BY <3>0
      <3>2. PICK s \in Nat : Members[old[i]] = Onboarding(page, s) /\ old[i] \in MemberKey
        BY <1>5
      <3> QED
        BY <3>1, <3>2
    <2>3. \A i, j \in 1 .. Len(keys) : keys[i] = keys[j] => i = j
      BY <1>3 DEF Injective
    <2> QED
      BY <1>4, <2>1, <2>2, <2>3 DEF QueuePageOK
  <1>7. ASSUME NEW q \in QueuePage, q # page PROVE QueuePageOK(q)'
    <2>1. QueuePageOK(q) /\ OnboardingQueue'[q] = OnboardingQueue[q]
      BY <1>4, <1>7, PageInjective
    <2>2. ASSUME NEW i \in 1 .. Len(OnboardingQueue[q])
          PROVE  \E s \in Nat : Members'[OnboardingQueue[q][i]] = Onboarding(q, s)
      <3>1. PICK s \in Nat : Members[OnboardingQueue[q][i]] = Onboarding(q, s)
        BY <2>1 DEF QueuePageOK
      <3>2. OnboardingQueue[q][i] \in MemberKey
        BY KeyTypes
      <3>3. OnboardingQueue[q][i] # m
        BY <1>7, <3>1, EntryKinds
      <3> QED
        BY <3>1, <3>2, <3>3
    <2> QED
      BY <1>7, <2>1, <2>2 DEF QueuePageOK
  <1>8. Queued'
    <2> SUFFICES ASSUME NEW k \in MemberKey, NEW q \in QueuePage, NEW s \in Nat,
                        Members'[k] = Onboarding(q, s)
                 PROVE  /\ IsQueued(q)'
                        /\ \E i \in 1 .. Len(OnboardingQueue'[q]) : OnboardingQueue'[q][i] = k
      BY DEF Queued
    <2>1. k # m /\ Members[k] = Onboarding(q, s)
      OBVIOUS
    <2>2. IsQueued(q) /\ \E i \in 1 .. Len(OnboardingQueue[q]) : OnboardingQueue[q][i] = k
      BY <2>1 DEF KeysInv, QueuePart, Queued
    <2>3. CASE q # page
      BY <1>4, <2>2, <2>3
    <2>4. CASE q = page
      <3>3. PICK i \in 1 .. Len(old) : old[i] = k
        BY <1>1, <2>2, <2>4
      <3>1. PICK j \in 1 .. Len(keys) : keys[j] = k
        BY <1>3, <2>1, <3>3
      <3>2. keys # <<>>
        BY <3>1
      <3> QED
        BY <1>4, <2>2, <2>4, <3>1, <3>2
    <2> QED
      BY <2>3, <2>4
  <1> QED
    BY <1>6, <1>7, <1>8 DEF QueuePart

LEMMA SuspendQueued ==
    ASSUME Inv, KeysInv, NEW m \in MemberKey, remove_members(m),
           queue_member_suspension_onboarding(m)
    PROVE  KeysInv'
  <1>1. /\ Members[m].at = "Onboarding" /\ Members' = [Members EXCEPT ![m] = Suspended]
        /\ UNCHANGED <<QueuePageIndices, rings, config, roots, now>> /\ lifecycle = "Live"
    BY DEF remove_members, queue_member_suspension_onboarding
  <1>2. PICK page \in QueuePage, t \in Nat : Members[m] = Onboarding(page, t)
    BY <1>1, EntryAt
  <1>3. page = Members[m].queue_page
    BY <1>2, EntryFields
  <1>4. PICK keys : keys = Without(OnboardingQueue[page], m)
    OBVIOUS
  <1>5. /\ OnboardingQueue' = [OnboardingQueue EXCEPT ![page] = keys]
        /\ QueueKeys' = QueueKeys \union {page}
    BY <1>3, <1>4 DEF queue_member_suspension_onboarding
  <1>6. /\ Members'[m] = Suspended /\ \A k \in MemberKey : k # m => Members'[k] = Members[k]
        /\ Members' = [k \in MemberKey |-> Members'[k]]
    BY <1>1 DEF KeysInv, EntriesOK
  <1>7. EntriesOK'
    BY <1>6 DEF KeysInv, EntriesOK, EntryOK
  <1>8. SameIncluded
    BY <1>2, <1>6, EntryKinds DEF SameIncluded
  <1>9. \A q \in QueuePage, s \in Nat : Members'[m] # Onboarding(q, s)
    BY <1>6, EntryKinds
  <1>10. \A q \in QueuePage : IsQueued(q)' <=> IsQueued(q)
    BY <1>1 DEF IsQueued
  <1>11. QueueTypes'
    BY SuspendFromQueue
  <1>12. QueuePart'
    BY <1>2, <1>4, <1>5, <1>6, <1>9, <1>10, <1>11, KeyLeavesQueue
  <1> QED
    BY <1>1, <1>7, <1>8, <1>12, QueueStep DEF roots, config

-----------------------------------------------------------------------------
(* The number of keys *)

FilledBy(totals) == {x \in RingIndex \X Position : x[2] < totals[x[1]]}

\* Changing the total of one ring changes the number of keys by as much.
LEMMA TotalChange ==
    ASSUME NEW totals, NEW after, NEW r \in RingIndex,
           \A s \in RingIndex : totals[s] \in 0 .. RingCapacity,
           after[r] \in 0 .. RingCapacity,
           \A s \in RingIndex : s # r => after[s] = totals[s]
    PROVE  /\ Cardinality(FilledBy(totals)) \in Nat /\ Cardinality(FilledBy(after)) \in Nat
           /\ totals[r] <= Cardinality(FilledBy(totals))
           /\ Cardinality(FilledBy(after)) = Cardinality(FilledBy(totals)) - totals[r] + after[r]
  <1> DEFINE Row(k) == {x \in RingIndex \X Position : x[1] = r /\ x[2] < k}
             Rest == {x \in FilledBy(totals) : x[1] # r}
  <1>1. RingCapacity \in Nat \ {0} /\ Position = 0 .. RingCapacity - 1
    BY Sizes DEF Position
  <1>2. IsFiniteSet(RingIndex \X Position)
    <2>1. IsFiniteSet(RingIndex) /\ IsFiniteSet(Position)
      <3>1. MaxRing \in Nat
        BY Sizes
      <3>2. IsFiniteSet(0 .. MaxRing) /\ IsFiniteSet(0 .. RingCapacity - 1)
        BY <1>1, <3>1, FS_Interval
      <3> QED
        BY <1>1, <3>2 DEF RingIndex
    <2> QED
      BY <2>1, FS_Product
  <1>3. IsFiniteSet(Rest)
    <2>1. Rest \in SUBSET (RingIndex \X Position)
      BY DEF FilledBy
    <2> QED
      BY <1>2, <2>1, FS_Subset
  <1>4. ASSUME NEW k \in 0 .. RingCapacity PROVE IsFiniteSet(Row(k)) /\ Cardinality(Row(k)) = k
    <2>1. IsFiniteSet(0 .. k - 1) /\ Cardinality(0 .. k - 1) = k
      <3>1. k \in Nat /\ k - 1 \in Int /\ 0 \in Int
        BY <1>1
      <3>2. IsFiniteSet(0 .. k - 1) /\ Cardinality(0 .. k - 1) = IF 0 > k - 1 THEN 0 ELSE k - 1 - 0 + 1
        BY <3>1, FS_Interval
      <3> QED
        BY <3>1, <3>2
    <2>2. PICK f : f = [i \in 0 .. k - 1 |-> <<r, i>>]
      OBVIOUS
    <2>3. f \in [0 .. k - 1 -> Row(k)]
      BY <1>1, <2>2
    <2>4. \A i, j \in 0 .. k - 1 : f[i] = f[j] => i = j
      BY <2>2
    <2>5. \A x \in Row(k) : \E i \in 0 .. k - 1 : f[i] = x
      <3> TAKE x \in Row(k)
      <3>1. x = <<r, x[2]>> /\ x[2] \in 0 .. k - 1
        BY <1>1
      <3> QED
        BY <2>2, <3>1
    <2> HIDE DEF Row
    <2>6. f \in Bijection(0 .. k - 1, Row(k))
      <3>1. f \in Injection(0 .. k - 1, Row(k))
        BY <2>3, <2>4 DEF Injection, IsInjective
      <3>2. f \in Surjection(0 .. k - 1, Row(k))
        BY <2>3, <2>5 DEF Surjection
      <3> QED
        BY <3>1, <3>2 DEF Bijection
    <2>7. ExistsBijection(0 .. k - 1, Row(k))
      BY <2>6 DEF ExistsBijection
    <2> QED
      BY <2>1, <2>7, FS_Bijection
  <1>5. FilledBy(totals) = Rest \union Row(totals[r]) /\ Rest \intersect Row(totals[r]) = {}
    BY DEF FilledBy
  <1>6. FilledBy(after) = Rest \union Row(after[r]) /\ Rest \intersect Row(after[r]) = {}
    BY DEF FilledBy
  <1>7. Cardinality(Rest) \in Nat
    BY <1>3, FS_CardinalityType
  <1> HIDE DEF Row, Rest
  <1>8. ASSUME NEW k \in 0 .. RingCapacity, Rest \intersect Row(k) = {}
        PROVE  Cardinality(Rest \union Row(k)) = Cardinality(Rest) + k
    <2>1. IsFiniteSet(Row(k)) /\ Cardinality(Row(k)) = k
      BY <1>4
    <2>2. Cardinality(Rest \union Row(k))
              = Cardinality(Rest) + Cardinality(Row(k)) - Cardinality(Rest \intersect Row(k))
      BY <1>3, <2>1, FS_Union
    <2>3. Cardinality(Rest \intersect Row(k)) = 0
      BY <1>8, FS_EmptySet
    <2> QED
      BY <1>7, <2>1, <2>2, <2>3
  <1>9. /\ Cardinality(FilledBy(totals)) = Cardinality(Rest) + totals[r]
        /\ Cardinality(FilledBy(after)) = Cardinality(Rest) + after[r]
        /\ totals[r] \in Nat /\ after[r] \in Nat
    BY <1>1, <1>5, <1>6, <1>8
  <1> QED
    BY <1>7, <1>9

\* One ring gets another total, and the counter follows.
LEMMA CountStep ==
    ASSUME Inv, Inv', KeysInv, NEW r \in RingIndex,
           \A s \in RingIndex : s # r => RingKeysStatus'[s].total = RingKeysStatus[s].total,
           ActiveMembers' = ActiveMembers - RingKeysStatus[r].total + RingKeysStatus'[r].total
    PROVE  Counted'
  <1>1. PICK totals : totals = [s \in RingIndex |-> RingKeysStatus[s].total]
    OBVIOUS
  <1>2. PICK after : after = [s \in RingIndex |-> RingKeysStatus'[s].total]
    OBVIOUS
  <1>3. Filled = FilledBy(totals) /\ Filled' = FilledBy(after)
    BY <1>1, <1>2 DEF Filled, FilledBy
  <1>4. /\ \A s \in RingIndex : totals[s] \in 0 .. RingCapacity
        /\ after[r] \in 0 .. RingCapacity
        /\ \A s \in RingIndex : s # r => after[s] = totals[s]
    BY <1>1, <1>2 DEF Inv, RingTypes, Status
  <1>5. /\ Cardinality(Filled) \in Nat /\ Cardinality(Filled') \in Nat
        /\ Cardinality(Filled') = Cardinality(Filled) - totals[r] + after[r]
    BY <1>3, <1>4, TotalChange
  <1> QED
    BY <1>1, <1>2, <1>5 DEF KeysInv, Counted

LEMMA CountBound ==
    ASSUME Inv, KeysInv, NEW r \in RingIndex
    PROVE  /\ RingKeysStatus[r].total <= ActiveMembers /\ RingKeysStatus[r].total \in Nat
           /\ ActiveMembers \in Nat
  <1>1. PICK totals : totals = [s \in RingIndex |-> RingKeysStatus[s].total]
    OBVIOUS
  <1>2. Filled = FilledBy(totals)
    BY <1>1 DEF Filled, FilledBy
  <1>3. \A s \in RingIndex : totals[s] \in 0 .. RingCapacity
    BY <1>1 DEF Inv, RingTypes, Status
  <1>4. totals[r] <= Cardinality(Filled)
    BY <1>2, <1>3, TotalChange
  <1> QED
    BY <1>1, <1>3, <1>4, Sizes DEF KeysInv, Counted

-----------------------------------------------------------------------------
(* Keys that are pushed to the current ring *)

HasTotal(r, total) == RingKeysStatus[r].total = total

\* Where the keys of a ring are after the push: the old ones stay, the new ones follow.
Follow(r, total, keys, pages) ==
    /\ \A p \in RingPage, i \in Nat :
           i < Len(RingKeys[r][p]) =>
               i < Len(pages[p]) /\ pages[p][i + 1] = RingKeys[r][p][i + 1]
    /\ \A p \in RingPage, i \in Nat :
           i < Len(pages[p]) /\ ~ (i < Len(RingKeys[r][p])) =>
               \E x \in 1 .. Len(keys) :
                   pages[p][i + 1] = keys[x] /\ IncludedAt(r, total + x - 1) = Included(r, p, i)
    /\ \A x \in 1 .. Len(keys) : \E p \in RingPage, i \in Nat :
           /\ IncludedAt(r, total + x - 1) = Included(r, p, i)
           /\ i < Len(pages[p]) /\ pages[p][i + 1] = keys[x] /\ ~ (i < Len(RingKeys[r][p]))

LEMMA PushedKeys ==
    ASSUME Inv, NEW r \in RingIndex, Paged(r), NEW keys \in Seq(MemberKey),
           NEW total \in Nat, HasTotal(r, total),
           total + Len(keys) <= RingCapacity, NEW pages, pages = PagesWith(r, keys)
    PROVE  Follow(r, total, keys, pages)
  <1>1. PICK size \in Nat, more \in Nat, cap \in Nat :
            size = RingPageSize /\ more = Len(keys) /\ cap = RingCapacity /\ size # 0
    <2>1. RingPageSize \in Nat /\ RingPageSize # 0 /\ RingCapacity \in Nat /\ Len(keys) \in Nat
      BY Sizes
    <2> QED
      BY <2>1, Zenon
  <1>2. ASSUME NEW p \in RingPage, NEW i \in Nat, i < size, NEW base \in Nat, base = p * RingPageSize
        PROVE  /\ IncludedAt(r, base + i) = Included(r, p, i)
               /\ i < Len(RingKeys[r][p]) <=> base + i < total
               /\ i < Len(pages[p]) <=> base + i < total + more
               /\ base + i < total => pages[p][i + 1] = RingKeys[r][p][i + 1]
               /\ base + i < total + more /\ ~ (base + i < total) =>
                      pages[p][i + 1] = keys[base + (i + 1) - total]
    <2>1. IncludedAt(r, base + i) = Included(r, p, i)
      <3>1. p \in Nat /\ i \in 0 .. RingPageSize - 1
        BY <1>1, <1>2, Sizes
      <3>2. (base + i) \div RingPageSize = p /\ (base + i) % RingPageSize = i
        BY <1>2, <3>1, OnPage
      <3> QED
        BY <3>2 DEF IncludedAt
    <2>2. Len(RingKeys[r][p]) = InPage(total, p) /\ Len(pages[p]) = InPage(total + more, p)
      BY <1>1, PushedPages DEF Paged, HasTotal
    <2>3. ASSUME NEW m \in Nat PROVE InPage(m, p) \in Nat /\ (i < InPage(m, p) <=> base + i < m)
      <3>1. InPage(m, p) = Smaller(SaturatingSub(m, base), size)
        BY <1>1, <1>2 DEF InPage
      <3>2. Smaller(SaturatingSub(m, base), size) \in Nat
        BY DEF Smaller, SaturatingSub
      <3>3. i < Smaller(SaturatingSub(m, base), size) <=> base + i < m
        BY <1>2 DEF Smaller, SaturatingSub
      <3> QED
        BY <3>1, <3>2, <3>3
    <2>4. total + more \in Nat
      OBVIOUS
    <2>5. PICK n \in Nat : n = InPage(total + more, p)
      BY <2>3, <2>4
    <2>6. pages[p] = [j \in 1 .. n |-> IF base + j <= total THEN RingKeys[r][p][j]
                                       ELSE keys[base + j - total]]
      <3>1. PagesWith(r, keys)[p] = [j \in 1 .. n |-> IF base + j <= total THEN RingKeys[r][p][j]
                                                      ELSE keys[base + j - total]]
        <4>1. n = InPage(RingKeysStatus[r].total + Len(keys), p)
          BY <1>1, <2>5 DEF HasTotal
        <4>2. base = p * RingPageSize /\ total = RingKeysStatus[r].total
          BY <1>2 DEF HasTotal
        <4> QED
          BY <4>1, <4>2 DEF PagesWith
      <3> QED
        BY <3>1
    <2>7. ASSUME base + i < total + more
          PROVE  pages[p][i + 1] = IF base + (i + 1) <= total THEN RingKeys[r][p][i + 1]
                                   ELSE keys[base + (i + 1) - total]
      <3>1. i < n
        BY <2>3, <2>4, <2>5, <2>7
      <3>2. i + 1 \in 1 .. n
        BY <3>1
      <3> QED
        BY <2>6, <3>2
    <2>8. /\ base + i < total => base + i < total + more /\ base + (i + 1) <= total
          /\ ~ (base + i < total) => ~ (base + (i + 1) <= total)
      OBVIOUS
    <2> QED
      BY <2>1, <2>2, <2>3, <2>4, <2>7, <2>8
  <1>3. ASSUME NEW p \in RingPage
        PROVE  /\ p * RingPageSize \in Nat
               /\ \A i \in Nat : i < Len(RingKeys[r][p]) \/ i < Len(pages[p]) => i < size
    <2>1. PICK base \in Nat : base = p * RingPageSize
      BY <1>1, Sizes
    <2>2. Len(RingKeys[r][p]) = InPage(total, p) /\ Len(pages[p]) = InPage(total + more, p)
      BY <1>1, PushedPages DEF Paged, HasTotal
    <2>3. ASSUME NEW m \in Nat, NEW i \in Nat, i < InPage(m, p) PROVE i < size
      <3>1. i < Smaller(SaturatingSub(m, base), size)
        BY <1>1, <2>1, <2>3 DEF InPage
      <3> QED
        BY <3>1 DEF Smaller, SaturatingSub
    <2>4. total + more \in Nat
      OBVIOUS
    <2> QED
      BY <2>1, <2>2, <2>3, <2>4
  <1>4. ASSUME NEW p \in RingPage, NEW i \in Nat, i < Len(RingKeys[r][p])
        PROVE  i < Len(pages[p]) /\ pages[p][i + 1] = RingKeys[r][p][i + 1]
    <2>1. PICK base \in Nat : base = p * RingPageSize
      BY <1>3
    <2>2. i < size
      BY <1>3, <1>4
    <2>3. base + i < total
      BY <1>2, <1>4, <2>1, <2>2
    <2>4. base + i < total + more
      BY <2>3
    <2> QED
      BY <1>2, <2>1, <2>2, <2>3, <2>4
  <1>5. ASSUME NEW p \in RingPage, NEW i \in Nat, i < Len(pages[p]), ~ (i < Len(RingKeys[r][p]))
        PROVE  \E x \in 1 .. Len(keys) :
                   pages[p][i + 1] = keys[x] /\ IncludedAt(r, total + x - 1) = Included(r, p, i)
    <2>1. PICK base \in Nat : base = p * RingPageSize
      BY <1>3
    <2>2. i < size
      BY <1>3, <1>5
    <2>3. base + i < total + more /\ ~ (base + i < total) /\ IncludedAt(r, base + i) = Included(r, p, i)
      BY <1>2, <1>5, <2>1, <2>2
    <2>4. pages[p][i + 1] = keys[base + (i + 1) - total]
      BY <1>2, <2>1, <2>2, <2>3
    <2>5. base + (i + 1) - total \in 1 .. more /\ total + (base + (i + 1) - total) - 1 = base + i
      BY <2>3
    <2> QED
      BY <1>1, <2>3, <2>4, <2>5
  <1>6. ASSUME NEW x \in 1 .. Len(keys)
        PROVE  \E p \in RingPage, i \in Nat :
                   /\ IncludedAt(r, total + x - 1) = Included(r, p, i)
                   /\ i < Len(pages[p]) /\ pages[p][i + 1] = keys[x] /\ ~ (i < Len(RingKeys[r][p]))
    <2>1. PICK y \in Nat : y = x /\ y >= 1 /\ y <= more
      BY <1>1
    <2>2. total + more <= cap
      BY <1>1
    <2>3. PICK g \in Nat : g = total + y - 1
      BY <2>1
    <2>4. g < total + more /\ ~ (g < total) /\ g < cap
      BY <2>1, <2>2, <2>3
    <2>5. PICK p \in RingPage, i \in Nat : i < size /\ g = p * RingPageSize + i
      <3>1. /\ g \div RingPageSize \in RingPage /\ g % RingPageSize \in 0 .. RingPageSize - 1
            /\ g = (g \div RingPageSize) * RingPageSize + (g % RingPageSize)
        BY <1>1, <2>4, Division
      <3>2. g % RingPageSize \in Nat /\ g % RingPageSize < size
        BY <1>1, <3>1
      <3> QED
        BY <3>1, <3>2
    <2>6. PICK base \in Nat : base = p * RingPageSize
      BY <1>3
    <2>10. base + i = g
      BY <2>5, <2>6
    <2>11. base + i < total + more /\ ~ (base + i < total)
      BY <2>4, <2>10
    <2>7. /\ IncludedAt(r, base + i) = Included(r, p, i) /\ i < Len(pages[p])
          /\ ~ (i < Len(RingKeys[r][p])) /\ pages[p][i + 1] = keys[base + (i + 1) - total]
      BY <1>2, <2>5, <2>6, <2>11
    <2>8. base + (i + 1) - total = y
      <3>1. y = g + 1 - total
        BY <2>3
      <3>2. base + (i + 1) = g + 1
        BY <2>10
      <3> QED
        BY <3>1, <3>2
    <2>9. IncludedAt(r, total + x - 1) = IncludedAt(r, base + i)
      BY <2>1, <2>3, <2>10
    <2>12. IncludedAt(r, total + x - 1) = Included(r, p, i)
      BY <2>7, <2>9
    <2>13. pages[p][i + 1] = keys[x]
      BY <2>1, <2>7, <2>8
    <2> QED
      BY <2>7, <2>12, <2>13
  <1> QED
    BY <1>4, <1>5, <1>6 DEF Follow

\* Where the key at a position is stored.
LEMMA KeyPlace ==
    ASSUME Inv, NEW r \in RingIndex, Paged(r), NEW g \in Nat, g < RingKeysStatus[r].total
    PROVE  /\ g \div RingPageSize \in RingPage /\ g % RingPageSize \in Nat
           /\ g % RingPageSize < Len(RingKeys[r][g \div RingPageSize])
  <1>1. PICK size \in Nat, cap \in Nat, total \in Nat :
            size = RingPageSize /\ cap = RingCapacity /\ total = RingKeysStatus[r].total /\ size # 0
    <2>1. RingPageSize \in Nat /\ RingPageSize # 0 /\ RingCapacity \in Nat
      BY Sizes
    <2>2. RingKeysStatus[r].total \in Nat
      BY RingFacts
    <2> QED
      BY <2>1, <2>2, Zenon
  <1>2. g < total /\ total <= cap
    BY <1>1, RingFacts
  <1>3. PICK p \in RingPage : p = g \div RingPageSize
    BY <1>1, <1>2, Division
  <1>4. PICK i \in Nat : i = g % RingPageSize /\ i < size
    <2>1. g % RingPageSize \in 0 .. RingPageSize - 1
      BY Division
    <2> QED
      BY <1>1, <2>1
  <1>5. PICK base \in Nat : base = p * RingPageSize
    BY <1>1, Sizes
  <1>6. g = base + i
    BY <1>3, <1>4, <1>5, Division
  <1>7. Len(RingKeys[r][p]) = Smaller(SaturatingSub(total, base), size)
    BY <1>1, <1>5 DEF Paged, InPage
  <1>8. i < Smaller(SaturatingSub(total, base), size)
    BY <1>2, <1>4, <1>6 DEF Smaller, SaturatingSub
  <1> QED
    BY <1>3, <1>4, <1>7, <1>8

\* A root stays right if the keys before keep their places.
LEMMA RootStays ==
    ASSUME Inv, NEW r \in RingIndex, Paged(r), RootedOK(r), Root'[r] = Root[r],
           RingKeysStatus'[r].included = RingKeysStatus[r].included,
           \A p \in RingPage, i \in Nat :
               i < Len(RingKeys[r][p]) => RingKeys'[r][p][i + 1] = RingKeys[r][p][i + 1]
    PROVE  RootedOK(r)'
  <1>1. PICK n \in Nat : n = RingKeysStatus[r].included /\ n <= RingKeysStatus[r].total
    BY RingFacts DEF RingOK, StatusOK
  <1>2. ASSUME NEW i \in 1 .. n PROVE KeyAt(r, i - 1)' = KeyAt(r, i - 1)
    <2>1. PICK g \in Nat : g = i - 1 /\ g < RingKeysStatus[r].total
      BY <1>1, RingFacts
    <2>2. /\ g \div RingPageSize \in RingPage /\ g % RingPageSize \in Nat
          /\ g % RingPageSize < Len(RingKeys[r][g \div RingPageSize])
      BY <2>1, KeyPlace
    <2> QED
      BY <2>1, <2>2 DEF KeyAt
  <1>3. Root'[r].keys = [i \in 1 .. n |-> KeyAt(r, i - 1)]
    BY <1>1 DEF RootedOK
  <1>4. Root'[r].keys = [i \in 1 .. n |-> KeyAt(r, i - 1)']
    BY <1>2, <1>3
  <1> QED
    BY <1>1, <1>4 DEF RootedOK

\* A position that a push fills is not one that waits to be removed.
LEMMA NewPosition ==
    ASSUME Inv, KeysInv, NEW r \in RingIndex, NEW n \in Nat, n <= RingCapacity,
           NEW p \in RingPage, NEW i \in Nat,
           i < InPage(n, p), ~ (i < Len(RingKeys[r][p]))
    PROVE  i \notin PendingSuspensions[r]
  <1> SUFFICES ASSUME i \in PendingSuspensions[r] PROVE FALSE
    OBVIOUS
  <1>1. Flexible
    BY RingFacts DEF RingOK, StatusOK
  <1>2. n <= RingPageSize
    BY <1>1, Sizes
  <1>3. p = 0
    <2>1. InPage(n, p) = IF p = 0 THEN n ELSE 0
      BY <1>2, PageSizes
    <2> QED
      BY <2>1
  <1>4. i < Len(RingKeys[r][0])
    BY DEF KeysInv, RingPart, PendingOK
  <1> QED
    BY <1>3, <1>4

\* The keys are those of an injective sequence of onboarding keys.
Waiting(keys) ==
    /\ Injective(keys)
    /\ \A x \in 1 .. Len(keys) : \E q \in QueuePage, t \in Nat : Members[keys[x]] = Onboarding(q, t)

RingsKept ==
    /\ EntriesOK /\ RingPart /\ Counted /\ RoomOK /\ Ended
    /\ \A r \in RingIndex : RootedOK(r)

LEMMA PushKeys ==
    ASSUME Inv, Inv', KeysInv, lifecycle = "Live", UNCHANGED <<lifecycle, roots, now>>,
           NEW keys \in Seq(MemberKey), PushToRing(keys), Waiting(keys),
           RingKeysStatus[CurrentRingIndex].total + Len(keys) <= RingCapacity
    PROVE  /\ RingsKept'
           /\ \A m \in MemberKey :
                  /\ (\A x \in 1 .. Len(keys) : keys[x] # m) => Members'[m] = Members[m]
                  /\ (\E x \in 1 .. Len(keys) : keys[x] = m) =>
                         \A q, t : Members'[m] # Onboarding(q, t)
  <1>1. PICK r \in RingIndex : r = CurrentRingIndex
    BY DEF Inv, RingTypes
  <1>2. PICK total \in Nat : HasTotal(r, total)
    BY RingFacts DEF HasTotal
  <1>3. PICK pages : pages = PagesWith(r, keys)
    OBVIOUS
  <1>4. /\ CurrentRingIndex' = IF IsFull(total + Len(keys)) THEN r + 1 ELSE r
        /\ RingKeys' = [RingKeys EXCEPT ![r] = pages]
        /\ RingKeysStatus' = [RingKeysStatus EXCEPT ![r].total = total + Len(keys)]
        /\ StatusKeys' = StatusKeys \union {r}
        /\ ActiveMembers' = ActiveMembers + Len(keys)
        /\ StaleRings' = StaleRings \union {r}
        /\ Members' = [m \in MemberKey |->
                          IF \E i \in 1 .. Len(keys) : keys[i] = m
                          THEN IncludedAt(r, total + (CHOOSE i \in 1 .. Len(keys) : keys[i] = m) - 1)
                          ELSE Members[m]]
        /\ PendingSuspensions' = PendingSuspensions /\ RingDeletionQueue' = RingDeletionQueue
    BY <1>1, <1>2, <1>3 DEF PushToRing, HasTotal
  <1>22. StatusKeys' = StatusKeys \union {r} /\ PendingSuspensions' = PendingSuspensions
    BY <1>4
  <1>5. Len(keys) \in Nat /\ total + Len(keys) <= RingCapacity
    BY <1>1, <1>2 DEF HasTotal
  <1>6. Paged(r)
    <2>1. PlaceOK(r) /\ r \in Nat
      BY <1>1, RingFacts DEF RingOK
    <2> QED
      BY <1>1, <2>1 DEF PlaceOK, Standing
  <1>7. /\ \A p \in RingPage, i \in Nat :
               i < Len(RingKeys[r][p]) =>
                   i < Len(pages[p]) /\ pages[p][i + 1] = RingKeys[r][p][i + 1]
        /\ \A p \in RingPage, i \in Nat :
               i < Len(pages[p]) /\ ~ (i < Len(RingKeys[r][p])) =>
                   \E x \in 1 .. Len(keys) :
                       pages[p][i + 1] = keys[x] /\ IncludedAt(r, total + x - 1) = Included(r, p, i)
        /\ \A x \in 1 .. Len(keys) : \E p \in RingPage, i \in Nat :
               /\ IncludedAt(r, total + x - 1) = Included(r, p, i)
               /\ i < Len(pages[p]) /\ pages[p][i + 1] = keys[x] /\ ~ (i < Len(RingKeys[r][p]))
    <2>1. Follow(r, total, keys, pages)
      BY <1>2, <1>3, <1>5, <1>6, PushedKeys
    <2> QED
      BY <2>1 DEF Follow
  <1>8. /\ RingKeys'[r] = pages /\ \A s \in RingIndex : s # r => RingKeys'[s] = RingKeys[s]
        /\ RingKeysStatus'[r].total = total + Len(keys)
        /\ RingKeysStatus'[r].included = RingKeysStatus[r].included
        /\ \A s \in RingIndex : s # r => RingKeysStatus'[s] = RingKeysStatus[s]
    BY <1>4, RingFacts DEF Inv, RingTypes, Status
  <1>9. ASSUME NEW x \in 1 .. Len(keys)
        PROVE  keys[x] \in MemberKey /\ Members'[keys[x]] = IncludedAt(r, total + x - 1)
    <2>1. keys[x] \in MemberKey
      OBVIOUS
    <2>2. (CHOOSE i \in 1 .. Len(keys) : keys[i] = keys[x]) = x
      BY DEF Waiting, Injective
    <2> QED
      BY <1>4, <2>1, <2>2
  <1>10. \A m \in MemberKey : (\A x \in 1 .. Len(keys) : keys[x] # m) => Members'[m] = Members[m]
    BY <1>4
  <1>11. ASSUME NEW x \in 1 .. Len(keys)
         PROVE  \E p \in RingPage, i \in Nat :
                    /\ Members'[keys[x]] = Included(r, p, i) /\ keys[x] \in MemberKey
                    /\ i < Len(pages[p]) /\ pages[p][i + 1] = keys[x] /\ ~ (i < Len(RingKeys[r][p]))
    <2>1. PICK p \in RingPage, i \in Nat :
              /\ IncludedAt(r, total + x - 1) = Included(r, p, i)
              /\ i < Len(pages[p]) /\ pages[p][i + 1] = keys[x] /\ ~ (i < Len(RingKeys[r][p]))
      BY <1>7
    <2> QED
      BY <1>9, <2>1
  <1>12. \A m \in MemberKey : (\E x \in 1 .. Len(keys) : keys[x] = m) =>
             \A q, t : Members'[m] # Onboarding(q, t)
    BY <1>11, EntryKinds
  <1>13. EntriesOK'
    <2>1. ASSUME NEW m \in MemberKey PROVE EntryOK(m)'
      <3>1. CASE \E x \in 1 .. Len(keys) : keys[x] = m
        BY <1>11, <3>1 DEF EntryOK
      <3>2. CASE \A x \in 1 .. Len(keys) : keys[x] # m
        BY <1>10, <3>2 DEF EntryOK, KeysInv, EntriesOK
      <3> QED
        BY <3>1, <3>2
    <2>2. Members' = [m \in MemberKey |-> Members'[m]]
      BY <1>4
    <2> QED
      BY <2>1, <2>2 DEF EntriesOK
  <1>14. ASSUME NEW p \in RingPage, NEW i \in Nat, i < Len(pages[p]), ~ (i < Len(RingKeys[r][p]))
         PROVE  i \notin PendingSuspensions[r]
    <2>1. PICK n \in Nat : n = total + Len(keys)
      BY <1>5
    <2>2. Len(pages[p]) = InPage(n, p)
      BY <1>2, <1>3, <1>6, <2>1, PushedPages DEF HasTotal
    <2>3. n <= RingCapacity
      BY <1>5, <2>1
    <2> QED
      BY <1>14, <2>2, <2>3, NewPosition
  <1>15. Held'
    <2> SUFFICES ASSUME NEW m \in MemberKey, NEW s \in RingIndex, NEW p \in RingPage, NEW i \in Nat,
                        Members'[m] = Included(s, p, i)
                 PROVE  /\ i < Len(RingKeys'[s][p]) /\ RingKeys'[s][p][i + 1] = m
                        /\ i \notin PendingSuspensions[s]
      BY <1>22 DEF Held
    <2>1. CASE \E x \in 1 .. Len(keys) : keys[x] = m
      <3>1. PICK p2 \in RingPage, i2 \in Nat :
                /\ Members'[m] = Included(r, p2, i2)
                /\ i2 < Len(pages[p2]) /\ pages[p2][i2 + 1] = m /\ ~ (i2 < Len(RingKeys[r][p2]))
        <4>1. PICK x \in 1 .. Len(keys) : keys[x] = m
          BY <2>1
        <4>2. PICK p2 \in RingPage, i2 \in Nat :
                  /\ Members'[keys[x]] = Included(r, p2, i2)
                  /\ i2 < Len(pages[p2]) /\ pages[p2][i2 + 1] = keys[x]
                  /\ ~ (i2 < Len(RingKeys[r][p2]))
          BY <1>11
        <4> QED
          BY <4>1, <4>2
      <3>2. Included(s, p, i) = Included(r, p2, i2)
        BY <3>1
      <3>3. s = r /\ p = p2 /\ i = i2
        BY <3>2, EntryKinds
      <3>4. i2 \notin PendingSuspensions[r]
        BY <1>14, <3>1
      <3>5. RingKeys'[r] = pages
        BY <1>8
      <3> QED
        BY <3>1, <3>3, <3>4, <3>5, Zenon
    <2>2. CASE \A x \in 1 .. Len(keys) : keys[x] # m
      <3>1. Members[m] = Included(s, p, i)
        BY <1>10, <2>2
      <3>2. /\ i < Len(RingKeys[s][p]) /\ RingKeys[s][p][i + 1] = m /\ i \notin PendingSuspensions[s]
        BY <3>1 DEF KeysInv, RingPart, Held
      <3>3. CASE s = r
        <4>1. i < Len(pages[p]) /\ pages[p][i + 1] = RingKeys[r][p][i + 1]
          BY <1>7, <3>2, <3>3
        <4>2. RingKeys'[r] = pages
          BY <1>8
        <4> QED
          BY <3>2, <3>3, <4>1, <4>2, Zenon
      <3>4. CASE s # r
        BY <1>8, <3>2, <3>4
      <3> QED
        BY <3>3, <3>4
    <2> QED
      BY <2>1, <2>2
  <1>16. Known'
    <2> SUFFICES ASSUME NEW s \in StatusKeys', NEW p \in RingPage, NEW i \in Nat,
                        i < Len(RingKeys'[s][p]), i \notin PendingSuspensions[s]
                 PROVE  Members'[RingKeys'[s][p][i + 1]] = Included(s, p, i)
      BY <1>22 DEF Known
    <2>1. s \in RingIndex
      BY <1>22, KeyTypes
    <2>2. ASSUME s \in StatusKeys, i < Len(RingKeys[s][p])
          PROVE  Members'[RingKeys[s][p][i + 1]] = Included(s, p, i)
      <3>1. PICK k \in MemberKey : k = RingKeys[s][p][i + 1]
        BY <2>1, <2>2, KeyTypes
      <3>2. Members[k] = Included(s, p, i)
        BY <2>2, <3>1 DEF KeysInv, RingPart, Known
      <3>3. \A x \in 1 .. Len(keys) : keys[x] # k
        BY <3>2, EntryKinds DEF Waiting
      <3> QED
        BY <1>10, <3>1, <3>2, <3>3
    <2>3. CASE s # r
      BY <1>4, <1>8, <2>1, <2>2, <2>3
    <2>4. CASE s = r /\ i < Len(RingKeys[r][p])
      <3>1. r \in StatusKeys
        <4> SUFFICES ASSUME r \notin StatusKeys PROVE FALSE
          OBVIOUS
        <4>1. RingKeysStatus[r].total = 0
          BY RingFacts DEF RingOK, StatusOK, NoStatus
        <4>2. Len(RingKeys[r][p]) = 0
          BY <1>6, <4>1, PageSizes DEF Paged
        <4> QED
          BY <2>4, <4>2
      <3> QED
        BY <1>7, <1>8, <2>2, <2>4, <3>1
    <2>5. CASE s = r /\ ~ (i < Len(RingKeys[r][p]))
      <3>1. PICK x \in 1 .. Len(keys) :
                pages[p][i + 1] = keys[x] /\ IncludedAt(r, total + x - 1) = Included(r, p, i)
        BY <1>7, <1>8, <2>5
      <3> QED
        BY <1>8, <1>9, <2>5, <3>1
    <2> QED
      BY <2>3, <2>4, <2>5
  <1>17. PendingOK'
    <2> SUFFICES ASSUME NEW s \in RingIndex, NEW i \in PendingSuspensions[s]
                 PROVE  i \in Nat /\ i < Len(RingKeys'[s][0])
      BY <1>22 DEF PendingOK
    <2>1. i \in Nat /\ i < Len(RingKeys[s][0])
      BY DEF KeysInv, RingPart, PendingOK
    <2> QED
      BY <1>7, <1>8, <2>1, Sizes
  <1>18. ASSUME NEW s \in RingIndex \ StatusKeys' PROVE GoneOK(s)'
    <2>1. s # r /\ GoneOK(s)
      BY <1>4 DEF KeysInv, RingPart
    <2> QED
      BY <1>4, <1>8, <2>1 DEF GoneOK, roots
  <1>19. ASSUME NEW s \in RingIndex PROVE RootedOK(s)'
    <2>1. RootedOK(s) /\ Root'[s] = Root[s]
      BY DEF KeysInv, roots
    <2>2. CASE s # r
      BY <1>8, <2>1, <2>2, RootFrame
    <2>3. CASE s = r
      <3>1. \A p \in RingPage, i \in Nat :
                i < Len(RingKeys[r][p]) => RingKeys'[r][p][i + 1] = RingKeys[r][p][i + 1]
        BY <1>7, <1>8
      <3> QED
        BY <1>6, <1>8, <2>1, <2>3, <3>1, RootStays
    <2> QED
      BY <2>2, <2>3
  <1>20. Counted'
    <2>1. ActiveMembers \in Nat
      BY DEF KeysInv, Counted
    <2>2. RingKeysStatus[r].total = total
      BY <1>2 DEF HasTotal
    <2>3. ActiveMembers' = ActiveMembers - RingKeysStatus[r].total + RingKeysStatus'[r].total
      BY <1>4, <1>5, <1>8, <2>1, <2>2
    <2>4. \A s \in RingIndex : s # r => RingKeysStatus'[s].total = RingKeysStatus[s].total
      BY <1>8
    <2> QED
      BY <2>3, <2>4, CountStep
  <1>21. RoomOK' /\ Ended'
    BY DEF Inv, CurrentOK, Standing, RoomOK, Ended
  <1> QED
    BY <1>10, <1>12, <1>13, <1>15, <1>16, <1>17, <1>18, <1>19, <1>20, <1>21 DEF RingsKept, RingPart

LEMMA RingsAndQueue ==
    ASSUME RingsKept', QueuePart'
    PROVE  KeysInv'
  BY DEF RingsKept, KeysInv

LEMMA SelfIncludeKeys ==
    ASSUME Inv, Inv', KeysInv, NEW m \in MemberKey, self_include(m)
    PROVE  KeysInv'
  <1>1. PICK push : push = <<m>>
    OBVIOUS
  <1>2. /\ lifecycle = "Live" /\ Members[m].at = "Onboarding"
        /\ RemoveFromQueue(m) /\ PushToRing(push) /\ UNCHANGED <<lifecycle, roots, now>>
    BY <1>1 DEF self_include, config
  <1>3. push \in Seq(MemberKey) /\ Len(push) = 1 /\ push[1] = m
    BY <1>1
  <1>4. PICK page \in QueuePage, t \in Nat : Members[m] = Onboarding(page, t)
    BY <1>2, EntryAt
  <1>5. page = Members[m].queue_page
    BY <1>4, EntryFields
  <1>6. RingKeysStatus[CurrentRingIndex].total + Len(push) <= RingCapacity
    <2>1. RingKeysStatus[CurrentRingIndex].total < RingCapacity
      BY <1>2 DEF Inv, CurrentOK, Standing
    <2> QED
      BY <1>3, <2>1, RingFacts, Sizes DEF Inv, RingTypes
  <1>7. Waiting(push)
    BY <1>3, <1>4 DEF Waiting, Injective
  <1>8. /\ RingsKept'
        /\ \A k \in MemberKey : k # m => Members'[k] = Members[k]
        /\ \A q, s : Members'[m] # Onboarding(q, s)
    <2>1. /\ RingsKept'
          /\ \A k \in MemberKey :
                 /\ (\A x \in 1 .. Len(push) : push[x] # k) => Members'[k] = Members[k]
                 /\ (\E x \in 1 .. Len(push) : push[x] = k) =>
                        \A q, s : Members'[k] # Onboarding(q, s)
      BY <1>2, <1>3, <1>6, <1>7, PushKeys
    <2> QED
      BY <1>3, <2>1
  <1>9. PICK keys : keys = Without(OnboardingQueue[page], m)
    OBVIOUS
  <1>10. /\ OnboardingQueue' = [OnboardingQueue EXCEPT ![page] = keys]
         /\ QueueKeys' = IF keys = <<>> THEN QueueKeys \ {page} ELSE QueueKeys \union {page}
         /\ QueuePageIndices' =
                [QueuePageIndices EXCEPT
                    !.head = IF keys = <<>> /\ @ = page /\ @ # QueuePageIndices.tail
                             THEN NextQueuePage(page) ELSE @]
    BY <1>2, <1>5, <1>9 DEF RemoveFromQueue
  <1>11. PICK head \in QueuePage, tail \in QueuePage :
             head = QueuePageIndices.head /\ tail = QueuePageIndices.tail
    BY QueuedFacts
  <1>12. PICK next : next = IF keys = <<>> /\ head = page /\ head # tail
                            THEN NextQueuePage(page) ELSE head
    OBVIOUS
  <1>13. QueuePageIndices'.head = next /\ QueuePageIndices'.tail = tail
    <2>1. QueuePageIndices' = [QueuePageIndices EXCEPT !.head = next]
      BY <1>10, <1>11, <1>12
    <2> QED
      BY <1>11, <2>1 DEF Inv, QueueTypes
  <1>14. ASSUME NEW q \in QueuePage, IsQueued(q), q # page \/ keys # <<>> PROVE IsQueued(q)'
    <2>1. Between(q, head, tail)
      BY <1>11, <1>14, QueuedFacts
    <2>2. Between(q, next, tail)
      BY <1>11, <1>12, <1>14, <2>1, QueueOrder
    <2> QED
      BY <1>13, <2>2 DEF IsQueued, Between
  <1>15. QueueTypes'
    BY <1>2, IncludeFromQueue
  <1>16. /\ keys # <<>> => page \in QueueKeys'
         /\ \A q \in QueuePage : q # page /\ q \in QueueKeys => q \in QueueKeys'
    BY <1>10
  <1>17. QueuePart'
    BY <1>4, <1>8, <1>9, <1>10, <1>14, <1>15, <1>16, KeyLeavesQueue
  <1> QED
    BY <1>8, <1>17, RingsAndQueue

\* The keys of the first page of the queue, or of the first two, one after the other.
Waits(keys, head, last) ==
    /\ keys \in Seq(MemberKey) /\ Injective(keys)
    /\ \A x \in 1 .. Len(keys) : \E q \in {head, last} : \E i \in 1 .. Len(OnboardingQueue[q]) :
           keys[x] = OnboardingQueue[q][i]
    /\ \A q \in {head, last} : \A i \in 1 .. Len(OnboardingQueue[q]) :
           \E x \in 1 .. Len(keys) : keys[x] = OnboardingQueue[q][i]

LEMMA TwoPages ==
    ASSUME Inv, KeysInv, NEW head \in QueuePage, NEW last \in QueuePage, head # last
    PROVE  Waits(OnboardingQueue[head] \o OnboardingQueue[last], head, last)
  <1>1. PICK first \in Seq(MemberKey), second \in Seq(MemberKey) :
            first = OnboardingQueue[head] /\ second = OnboardingQueue[last]
    BY KeyTypes
  <1>2. PICK keys : keys = first \o second
    OBVIOUS
  <1>3. PICK a \in Nat, b \in Nat : a = Len(first) /\ b = Len(second)
    OBVIOUS
  <1>4. /\ keys \in Seq(MemberKey) /\ Len(keys) = a + b
        /\ \A x \in 1 .. a : keys[x] = first[x]
        /\ \A x \in 1 .. a + b : x > a => keys[x] = second[x - a]
    BY <1>2, <1>3
  <1>5. ASSUME NEW x \in 1 .. a + b
        PROVE  \/ x \in 1 .. a /\ keys[x] = first[x]
               \/ x - a \in 1 .. b /\ keys[x] = second[x - a]
    BY <1>3, <1>4
  <1>6. /\ \A i \in 1 .. a : \E t \in Nat : Members[first[i]] = Onboarding(head, t)
        /\ \A i \in 1 .. b : \E t \in Nat : Members[second[i]] = Onboarding(last, t)
        /\ \A i, j \in 1 .. a : first[i] = first[j] => i = j
        /\ \A i, j \in 1 .. b : second[i] = second[j] => i = j
    BY <1>1, <1>3, PageInjective DEF QueuePageOK
  <1>7. \A i \in 1 .. a, j \in 1 .. b : first[i] # second[j]
    BY <1>6, EntryKinds
  <1>8. Injective(keys)
    <2> SUFFICES ASSUME NEW x \in 1 .. a + b, NEW y \in 1 .. a + b, keys[x] = keys[y] PROVE x = y
      BY <1>4 DEF Injective
    <2>1. CASE x \in 1 .. a /\ y \in 1 .. a
      BY <1>4, <1>6, <2>1
    <2>2. CASE x - a \in 1 .. b /\ y - a \in 1 .. b
      <3>1. second[x - a] = second[y - a]
        BY <1>4, <2>2
      <3>2. x - a = y - a
        BY <1>6, <2>2, <3>1
      <3> QED
        BY <3>2
    <2>3. CASE x \in 1 .. a /\ y - a \in 1 .. b
      BY <1>4, <1>7, <2>3
    <2>4. CASE x - a \in 1 .. b /\ y \in 1 .. a
      BY <1>4, <1>7, <2>4
    <2> QED
      BY <2>1, <2>2, <2>3, <2>4
  <1>9. \A x \in 1 .. Len(keys) : \E q \in {head, last} : \E i \in 1 .. Len(OnboardingQueue[q]) :
            keys[x] = OnboardingQueue[q][i]
    BY <1>1, <1>3, <1>4, <1>5
  <1>10. \A q \in {head, last} : \A i \in 1 .. Len(OnboardingQueue[q]) :
             \E x \in 1 .. Len(keys) : keys[x] = OnboardingQueue[q][i]
    <2>1. \A i \in 1 .. a : i \in 1 .. Len(keys) /\ keys[i] = first[i]
      BY <1>4
    <2>2. \A i \in 1 .. b : a + i \in 1 .. Len(keys) /\ keys[a + i] = second[i]
      BY <1>4
    <2> QED
      BY <1>1, <1>3, <2>1, <2>2
  <1> QED
    BY <1>1, <1>2, <1>4, <1>8, <1>9, <1>10 DEF Waits

\* The first n of the waiting keys leave the queue; the others stay on the last page read.
Leaves(head, last, waiting, n, push, rest) ==
    /\ Len(push) = n /\ \A x \in 1 .. n : push[x] = waiting[x]
    /\ rest \in Seq(MemberKey) /\ Len(rest) = Len(waiting) - n
    /\ Len(rest) <= OnboardingQueuePageSize
    /\ \A x \in 1 .. Len(rest) : rest[x] = waiting[n + x]
    /\ \A x \in 1 .. Len(rest) : \E i \in 1 .. Len(OnboardingQueue[last]) :
           rest[x] = OnboardingQueue[last][i]
    /\ OnboardingQueue'[last] = rest /\ (head # last => OnboardingQueue'[head] = <<>>)
    /\ \A q \in QueuePage : q # head /\ q # last => OnboardingQueue'[q] = OnboardingQueue[q]
    /\ rest # <<>> => last \in QueueKeys' /\ IsQueued(last)'
    /\ \A q \in QueuePage : q # head /\ q # last /\ q \in QueueKeys => q \in QueueKeys'
    /\ \A q \in QueuePage : q # head /\ q # last /\ IsQueued(q) => IsQueued(q)'
    /\ \A m \in MemberKey :
           /\ (\A x \in 1 .. Len(push) : push[x] # m) => Members'[m] = Members[m]
           /\ (\E x \in 1 .. Len(push) : push[x] = m) => \A q, t : Members'[m] # Onboarding(q, t)

LEMMA KeysLeaveQueue ==
    ASSUME Inv, KeysInv, QueueTypes', NEW head \in QueuePage, NEW last \in QueuePage,
           NEW waiting, Waits(waiting, head, last), NEW n \in 0 .. Len(waiting),
           NEW push, NEW rest, Leaves(head, last, waiting, n, push, rest)
    PROVE  QueuePart'
  <1> SUFFICES ASSUME rest \in Seq(MemberKey), Len(rest) = Len(waiting) - n,
                      Len(push) = n,
                      \A x \in 1 .. n : push[x] = waiting[x],
                      \A x \in 1 .. Len(rest) : rest[x] = waiting[n + x],
                      \A x \in 1 .. Len(rest) : \E i \in 1 .. Len(OnboardingQueue[last]) :
                          rest[x] = OnboardingQueue[last][i],
                      Len(rest) <= OnboardingQueuePageSize,
                      OnboardingQueue'[last] = rest, head # last => OnboardingQueue'[head] = <<>>,
                      \A q \in QueuePage : q # head /\ q # last => OnboardingQueue'[q] = OnboardingQueue[q],
                      rest # <<>> => last \in QueueKeys' /\ IsQueued(last)',
                      \A q \in QueuePage : q # head /\ q # last /\ q \in QueueKeys => q \in QueueKeys',
                      \A q \in QueuePage : q # head /\ q # last /\ IsQueued(q) => IsQueued(q)',
                      \A m \in MemberKey :
                          /\ (\A x \in 1 .. Len(push) : push[x] # m) => Members'[m] = Members[m]
                          /\ (\E x \in 1 .. Len(push) : push[x] = m) => \A q, t : Members'[m] # Onboarding(q, t)
               PROVE  QueuePart'
    BY DEF Leaves
  <1>1. /\ waiting \in Seq(MemberKey) /\ Len(waiting) \in Nat
        /\ \A x, y \in 1 .. Len(waiting) : waiting[x] = waiting[y] => x = y
    BY DEF Waits, Injective
  <1>2. \A x \in 1 .. Len(rest) : n + x \in 1 .. Len(waiting) /\ n + x > n
    BY <1>1
  <1>3. ASSUME NEW x \in 1 .. Len(rest)
        PROVE  rest[x] \in MemberKey /\ Members'[rest[x]] = Members[rest[x]]
    <2>1. rest[x] \in MemberKey
      OBVIOUS
    <2>2. ASSUME NEW y \in 1 .. n PROVE push[y] # rest[x]
      <3>1. y \in 1 .. Len(waiting) /\ y # n + x
        BY <1>1
      <3> QED
        BY <1>1, <1>2, <3>1
    <2> QED
      BY <2>1, <2>2
  <1>8. ASSUME NEW x \in 1 .. Len(rest)
        PROVE  \E t \in Nat : Members[rest[x]] = Onboarding(last, t)
    <2>1. PICK i \in 1 .. Len(OnboardingQueue[last]) : rest[x] = OnboardingQueue[last][i]
      OBVIOUS
    <2>2. QueuePageOK(last)
      BY PageInjective
    <2>3. \E t \in Nat : Members[OnboardingQueue[last][i]] = Onboarding(last, t)
      BY <2>2 DEF QueuePageOK
    <2> QED
      BY <2>1, <2>3
  <1>4. QueuePageOK(last)'
    <2>1. \A x \in 1 .. Len(rest) : \E t \in Nat : Members'[rest[x]] = Onboarding(last, t)
      BY <1>3, <1>8
    <2>2. ASSUME NEW x \in 1 .. Len(rest), NEW y \in 1 .. Len(rest), rest[x] = rest[y] PROVE x = y
      <3>1. n + x = n + y
        BY <1>1, <1>2, <2>2
      <3> QED
        BY <3>1
    <2> QED
      BY <2>1, <2>2 DEF QueuePageOK
  <1>5. ASSUME NEW q \in QueuePage, q # head, q # last PROVE QueuePageOK(q)'
    <2>1. QueuePageOK(q) /\ OnboardingQueue'[q] = OnboardingQueue[q]
      BY <1>5, PageInjective
    <2>2. ASSUME NEW i \in 1 .. Len(OnboardingQueue[q])
          PROVE  \E t \in Nat : Members'[OnboardingQueue[q][i]] = Onboarding(q, t)
      <3>1. PICK k \in MemberKey : k = OnboardingQueue[q][i]
        BY KeyTypes
      <3>2. PICK t \in Nat : Members[k] = Onboarding(q, t)
        BY <2>1, <3>1 DEF QueuePageOK
      <3>3. ASSUME NEW x \in 1 .. n PROVE push[x] # k
        <4>1. x \in 1 .. Len(waiting)
          BY <1>1
        <4>2. PICK h \in {head, last} : \E j \in 1 .. Len(OnboardingQueue[h]) :
                  waiting[x] = OnboardingQueue[h][j]
          BY <4>1 DEF Waits
        <4>3. \E s \in Nat : Members[waiting[x]] = Onboarding(h, s)
          <5>1. h \in QueuePage /\ QueuePageOK(h)
            BY PageInjective
          <5>2. \A j \in 1 .. Len(OnboardingQueue[h]) :
                    \E s \in Nat : Members[OnboardingQueue[h][j]] = Onboarding(h, s)
            BY <5>1 DEF QueuePageOK
          <5> QED
            BY <4>2, <5>2
        <4> QED
          BY <1>5, <3>2, <4>3, EntryKinds
      <3> QED
        BY <3>1, <3>2, <3>3
    <2> QED
      BY <1>5, <2>1, <2>2 DEF QueuePageOK
  <1>6. ASSUME head # last PROVE QueuePageOK(head)'
    <2>1. OnboardingQueue'[head] = <<>> /\ Len(<<>>) = 0 /\ OnboardingQueuePageSize \in Nat
      BY <1>6, SizesAssumption
    <2> QED
      BY <2>1 DEF QueuePageOK
  <1>7. Queued'
    <2> SUFFICES ASSUME NEW k \in MemberKey, NEW q \in QueuePage, NEW t \in Nat,
                        Members'[k] = Onboarding(q, t)
                 PROVE  /\ IsQueued(q)'
                        /\ \E i \in 1 .. Len(OnboardingQueue'[q]) : OnboardingQueue'[q][i] = k
      BY DEF Queued
    <2>1. Members[k] = Onboarding(q, t) /\ \A x \in 1 .. n : push[x] # k
      OBVIOUS
    <2>2. IsQueued(q) /\ \E i \in 1 .. Len(OnboardingQueue[q]) : OnboardingQueue[q][i] = k
      BY <2>1 DEF KeysInv, QueuePart, Queued
    <2>3. CASE q # head /\ q # last
      BY <2>2, <2>3
    <2>4. CASE q = head \/ q = last
      <3>1. PICK x \in 1 .. Len(waiting) : waiting[x] = k
        BY <2>2, <2>4 DEF Waits
      <3>2. PICK y \in Nat : y = x - n /\ y \in 1 .. Len(rest)
        <4>1. ~ (x \in 1 .. n)
          BY <2>1, <3>1
        <4> QED
          BY <1>1, <4>1
      <3>3. rest[y] = k
        <4>1. n + y = x
          BY <1>1, <3>2
        <4> QED
          BY <3>1, <3>2, <4>1
      <3>4. PICK s \in Nat : Members[k] = Onboarding(last, s)
        BY <1>8, <3>2, <3>3
      <3>7. Onboarding(q, t) = Onboarding(last, s)
        BY <2>1, <3>4
      <3>5. q = last
        BY <3>7, EntryKinds
      <3>6. rest # <<>>
        BY <3>2
      <3> QED
        BY <3>2, <3>3, <3>5, <3>6
    <2> QED
      BY <2>3, <2>4
  <1> QED
    BY <1>4, <1>5, <1>6, <1>7 DEF QueuePart

\* The pages read from one, when the queue starts there.
LEMMA OnePageWaits ==
    ASSUME Inv, KeysInv, NEW head \in QueuePage
    PROVE  Waits(OnboardingQueue[head], head, head)
  BY KeyTypes, PageInjective DEF Waits

LEMMA OnboardKeys ==
    ASSUME Inv, Inv', KeysInv, onboard_members
    PROVE  KeysInv'
  <1>1. PICK open_slots : open_slots = RingCapacity - RingKeysStatus[CurrentRingIndex].total
    OBVIOUS
  <1>2. PICK head \in QueuePage, tail \in QueuePage :
            head = QueuePageIndices.head /\ tail = QueuePageIndices.tail
    BY QueuedFacts
  <1>3. PICK both : both = (Len(OnboardingQueue[head]) < open_slots /\ head # QueuePageIndices.tail)
    OBVIOUS
  <1>4. PICK last : last = IF both THEN NextQueuePage(head) ELSE head
    OBVIOUS
  <1>5. PICK waiting : waiting = IF both THEN OnboardingQueue[head] \o OnboardingQueue[last]
                                 ELSE OnboardingQueue[head]
    OBVIOUS
  <1>6. PICK to_include : to_include = Smaller(Len(waiting), open_slots)
    OBVIOUS
  <1>7. /\ should_onboard_members(open_slots, to_include)
        /\ PushToRing(SubSeq(waiting, 1, to_include))
        /\ LeaveInQueue(head, last, SubSeq(waiting, to_include + 1, Len(waiting)))
        /\ UNCHANGED <<lifecycle, roots, now>>
    BY <1>1, <1>2, <1>3, <1>4, <1>5, <1>6 DEF onboard_members, config
  <1>8. lifecycle = "Live" /\ to_include > 0
    BY <1>7 DEF should_onboard_members
  <1>9. last \in QueuePage /\ (both => last # head) /\ (~ both => last = head)
    BY <1>2, <1>3, <1>4, QueueOrder, NextPage
  <1>10. Waits(waiting, head, last)
    BY <1>2, <1>5, <1>9, TwoPages, OnePageWaits
  <1>11. waiting \in Seq(MemberKey) /\ Len(waiting) \in Nat /\ Injective(waiting)
    BY <1>10 DEF Waits
  <1>12. RingKeysStatus[CurrentRingIndex].total \in Nat /\ RingCapacity \in Nat
    BY RingFacts, Sizes DEF Inv, RingTypes
  <1>13. PICK n \in Nat : n = to_include /\ n \in 1 .. Len(waiting)
                          /\ RingKeysStatus[CurrentRingIndex].total + n <= RingCapacity
    BY <1>1, <1>6, <1>8, <1>11, <1>12 DEF Smaller
  <1>14. PICK push : push = SubSeq(waiting, 1, n)
    OBVIOUS
  <1>15. PICK rest : rest = SubSeq(waiting, n + 1, Len(waiting))
    OBVIOUS
  <1>16. /\ push \in Seq(MemberKey) /\ Len(push) = n /\ \A x \in 1 .. n : push[x] = waiting[x]
    BY <1>11, <1>13, <1>14
  <1>17. /\ rest \in Seq(MemberKey) /\ Len(rest) = Len(waiting) - n
         /\ \A x \in 1 .. Len(rest) : rest[x] = waiting[n + x]
    <2>1. rest \in Seq(MemberKey) /\ Len(rest) = Len(waiting) - n
      BY <1>11, <1>13, <1>15
    <2>2. ASSUME NEW x \in 1 .. Len(rest) PROVE rest[x] = waiting[n + x]
      <3>1. rest[x] = waiting[(n + 1) + x - 1] /\ (n + 1) + x - 1 = n + x
        BY <1>11, <1>13, <1>15, <2>1
      <3> QED
        BY <3>1
    <2> QED
      BY <2>1, <2>2
  <1>18. \A x \in 1 .. n : \E q \in QueuePage, t \in Nat : Members[waiting[x]] = Onboarding(q, t)
    <2> TAKE x \in 1 .. n
    <2>1. x \in 1 .. Len(waiting)
      BY <1>13
    <2>2. PICK q \in {head, last} : \E i \in 1 .. Len(OnboardingQueue[q]) :
              waiting[x] = OnboardingQueue[q][i]
      BY <1>10, <2>1 DEF Waits
    <2>3. q \in QueuePage
      BY <1>9
    <2>4. QueuePageOK(q)
      BY <2>3, PageInjective
    <2> QED
      BY <2>2, <2>3, <2>4 DEF QueuePageOK
  <1>19. Waiting(push)
    <2>1. Injective(push)
      BY <1>11, <1>13, <1>16 DEF Injective
    <2> QED
      BY <1>16, <1>18, <2>1 DEF Waiting
  <1>20. /\ RingsKept'
         /\ \A m \in MemberKey :
                /\ (\A x \in 1 .. Len(push) : push[x] # m) => Members'[m] = Members[m]
                /\ (\E x \in 1 .. Len(push) : push[x] = m) => \A q, t : Members'[m] # Onboarding(q, t)
    <2>1. PushToRing(push)
      BY <1>7, <1>13, <1>14
    <2>2. RingKeysStatus[CurrentRingIndex].total + Len(push) <= RingCapacity
      BY <1>13, <1>16
    <2> QED
      BY <1>7, <1>8, <1>16, <1>19, <2>1, <2>2, PushKeys
  <1>21. PICK a \in Nat, b \in Nat : a = Len(OnboardingQueue[head]) /\ b = Len(OnboardingQueue[last])
    BY <1>2, <1>9, KeyTypes
  <1>22. /\ both => Len(waiting) = a + b /\ n >= a
         /\ ~ both => Len(waiting) = a /\ a = b
    <2>1. CASE both
      <3>1. Len(waiting) = a + b
        <4>1. OnboardingQueue[head] \in Seq(MemberKey) /\ OnboardingQueue[last] \in Seq(MemberKey)
          BY <1>2, <1>9, KeyTypes
        <4> QED
          BY <1>5, <1>21, <2>1, <4>1
      <3>2. a < open_slots /\ open_slots \in Int
        <4>1. Len(OnboardingQueue[head]) < open_slots
          BY <1>3, <2>1, Zenon
        <4>2. open_slots \in Int
          BY <1>1, <1>12
        <4> QED
          BY <1>21, <4>1, <4>2
      <3> QED
        BY <1>6, <1>13, <2>1, <3>1, <3>2 DEF Smaller
    <2>2. CASE ~ both
      BY <1>5, <1>9, <1>21, <2>2
    <2> QED
      BY <2>1, <2>2
  <1>23. \A x \in 1 .. Len(rest) : \E i \in 1 .. Len(OnboardingQueue[last]) :
             rest[x] = OnboardingQueue[last][i]
    <2> TAKE x \in 1 .. Len(rest)
    <2>1. CASE both
      <3>1. PICK i \in Nat : i = n + x - a /\ i \in 1 .. b
        BY <1>11, <1>17, <1>22, <2>1
      <3>2. waiting[n + x] = OnboardingQueue[last][i]
        <4>1. PICK first \in Seq(MemberKey), second \in Seq(MemberKey) :
                  first = OnboardingQueue[head] /\ second = OnboardingQueue[last]
          BY <1>2, <1>9, KeyTypes
        <4>2. PICK y : y = n + x
          OBVIOUS
        <4>3. y = a + i /\ y \in 1 .. a + b /\ y > a /\ y - a = i
          BY <1>17, <3>1, <4>2
        <4>4. a = Len(first) /\ b = Len(second) /\ waiting = first \o second
          BY <1>5, <1>21, <2>1, <4>1
        <4>5. (first \o second)[y] = second[y - a]
          BY <4>3, <4>4
        <4> QED
          BY <4>1, <4>2, <4>3, <4>4, <4>5
      <3> QED
        BY <1>17, <1>21, <3>1, <3>2
    <2>2. CASE ~ both
      <3>1. n + x \in 1 .. b
        BY <1>11, <1>17, <1>22, <2>2
      <3> QED
        BY <1>5, <1>9, <1>17, <1>21, <2>2, <3>1
    <2> QED
      BY <2>1, <2>2
  <1>24. Len(rest) <= b /\ b <= OnboardingQueuePageSize
    <2>1. Len(rest) <= b
      BY <1>11, <1>17, <1>22, <1>13
    <2>2. b <= OnboardingQueuePageSize
      BY <1>9, <1>21, PageInjective DEF QueuePageOK
    <2> QED
      BY <2>1, <2>2
  <1>25. ~ (Len(rest) - OnboardingQueuePageSize > 0)
    <2>1. OnboardingQueuePageSize \in Nat /\ Len(rest) \in Nat
      BY <1>17, SizesAssumption
    <2> QED
      BY <1>21, <1>24, <2>1
  <1>26. LeaveInQueue(head, last, rest)
    BY <1>7, <1>13, <1>15
  <1>27. QueueTypes'
    BY <1>2, <1>9, <1>17, <1>26, LeaveQueue
  <1>28. \/ /\ rest # <<>>
            /\ OnboardingQueue' = [OnboardingQueue EXCEPT ![head] = <<>>, ![last] = rest]
            /\ QueueKeys' = (QueueKeys \ {head}) \union {last}
            /\ QueuePageIndices' = [QueuePageIndices EXCEPT !.head = last]
         \/ /\ rest = <<>>
            /\ OnboardingQueue' = [OnboardingQueue EXCEPT ![head] = <<>>, ![last] = <<>>]
            /\ QueueKeys' = QueueKeys \ {head, last}
            /\ QueuePageIndices' = [QueuePageIndices EXCEPT
                                       !.head = IF last # tail THEN NextQueuePage(last) ELSE last]
    BY <1>2, <1>25, <1>26 DEF LeaveInQueue
  <1>29. /\ OnboardingQueue'[last] = rest /\ (head # last => OnboardingQueue'[head] = <<>>)
         /\ \A q \in QueuePage : q # head /\ q # last => OnboardingQueue'[q] = OnboardingQueue[q]
         /\ rest # <<>> => last \in QueueKeys'
         /\ \A q \in QueuePage : q # head /\ q # last /\ q \in QueueKeys => q \in QueueKeys'
    BY <1>2, <1>9, <1>28, QueueFacts
  <1>30. PICK next : /\ next = IF rest = <<>> /\ last # tail THEN NextQueuePage(last) ELSE last
                     /\ QueuePageIndices'.head = next /\ QueuePageIndices'.tail = tail
    <2>1. PICK next : next = IF rest = <<>> /\ last # tail THEN NextQueuePage(last) ELSE last
      OBVIOUS
    <2>2. QueuePageIndices' = [QueuePageIndices EXCEPT !.head = next]
      BY <1>28, <2>1
    <2>3. QueuePageIndices'.head = next /\ QueuePageIndices'.tail = tail
      BY <1>2, <2>2 DEF Inv, QueueTypes
    <2> QED
      BY <2>1, <2>3
  <1>31. \A q : IsQueued(q)' <=> Between(q, next, tail)
    BY <1>30 DEF IsQueued, Between
  <1>32. rest # <<>> => IsQueued(last)'
    BY <1>2, <1>9, <1>30, <1>31, QueueOrder
  <1>33. ASSUME NEW q \in QueuePage, q # head, q # last, IsQueued(q) PROVE IsQueued(q)'
    <2>1. Between(q, head, tail)
      BY <1>2, <1>33, QueuedFacts
    <2>2. Between(q, last, tail)
      BY <1>2, <1>3, <1>4, <1>33, <2>1, QueueOrder
    <2>3. Between(q, next, tail)
      BY <1>2, <1>9, <1>30, <1>33, <2>2, QueueOrder
    <2> QED
      BY <1>31, <2>3
  <1>34. n \in 0 .. Len(waiting) /\ Len(rest) <= OnboardingQueuePageSize
    <2>1. OnboardingQueuePageSize \in Nat /\ Len(rest) \in Nat
      BY <1>17, SizesAssumption
    <2> QED
      BY <1>11, <1>13, <1>21, <1>24, <2>1
  <1>35. QueuePart'
    <2>1. rest # <<>> => last \in QueueKeys' /\ IsQueued(last)'
      BY <1>29, <1>32
    <2>2. \A q \in QueuePage : q # head /\ q # last /\ IsQueued(q) => IsQueued(q)'
      BY <1>33
    <2>3. Leaves(head, last, waiting, n, push, rest)
      BY <1>16, <1>17, <1>20, <1>23, <1>29, <1>34, <2>1, <2>2 DEF Leaves
    <2> QED
      BY <1>9, <1>10, <1>27, <1>34, <2>3, KeysLeaveQueue
  <1> QED
    BY <1>20, <1>35, RingsAndQueue

LEMMA MergeQueueKeys ==
    ASSUME Inv, KeysInv, merge_queue_pages
    PROVE  KeysInv'
  <1>1. PICK head \in QueuePage, tail \in QueuePage :
            head = QueuePageIndices.head /\ tail = QueuePageIndices.tail
    BY QueuedFacts
  <1>2. PICK next : next = NextQueuePage(head)
    OBVIOUS
  <1>3. PICK keys : keys = OnboardingQueue[head] \o OnboardingQueue[next]
    OBVIOUS
  <1>4. /\ lifecycle = "Live" /\ head # tail
        /\ Len(OnboardingQueue[head]) + Len(OnboardingQueue[next]) <= OnboardingQueuePageSize
        /\ Members' = [m \in MemberKey |->
                          IF /\ Members[m].at = "Onboarding"
                             /\ \E i \in 1 .. Len(OnboardingQueue[head]) : OnboardingQueue[head][i] = m
                          THEN Requeued(m, next)
                          ELSE Members[m]]
        /\ OnboardingQueue' = [OnboardingQueue EXCEPT ![head] = <<>>, ![next] = keys]
        /\ QueueKeys' = (QueueKeys \ {head}) \union {next}
        /\ QueuePageIndices' = [QueuePageIndices EXCEPT !.head = next]
        /\ UNCHANGED <<config, rings, roots, now>>
    BY <1>1, <1>2, <1>3 DEF merge_queue_pages
  <1>5. next \in QueuePage /\ next # head
    BY <1>1, <1>2, <1>4, NextPage, QueueOrder
  <1>6. Waits(keys, head, next)
    BY <1>1, <1>3, <1>5, TwoPages
  <1>7. Len(keys) <= OnboardingQueuePageSize
    <2>1. PICK first \in Seq(MemberKey), second \in Seq(MemberKey) :
              first = OnboardingQueue[head] /\ second = OnboardingQueue[next]
      BY <1>5, KeyTypes
    <2>2. keys = first \o second /\ Len(first) + Len(second) <= OnboardingQueuePageSize
      BY <1>3, <1>4, <2>1
    <2> QED
      BY <2>2
  <1>8. /\ OnboardingQueue'[next] = keys /\ OnboardingQueue'[head] = <<>>
        /\ \A q \in QueuePage : q # head /\ q # next => OnboardingQueue'[q] = OnboardingQueue[q]
    BY <1>4, <1>5, QueueFacts
  <1>9. /\ QueuePageOK(head)
        /\ \A i \in 1 .. Len(OnboardingQueue[head]) :
               /\ OnboardingQueue[head][i] \in MemberKey
               /\ \E t \in Nat : Members[OnboardingQueue[head][i]] = Onboarding(head, t)
    BY PageInjective, KeyTypes DEF QueuePageOK
  <1>10. ASSUME NEW m \in MemberKey, NEW t \in Nat, Members[m] = Onboarding(head, t)
         PROVE  Members'[m] = Onboarding(next, t)
    <2>1. \E i \in 1 .. Len(OnboardingQueue[head]) : OnboardingQueue[head][i] = m
      BY <1>10 DEF KeysInv, QueuePart, Queued
    <2>2. Members'[m] = Requeued(m, next)
      BY <1>4, <1>10, <2>1, EntryFields
    <2> QED
      BY <1>10, <2>2 DEF Requeued, Onboarding
  <1>11. ASSUME NEW m \in MemberKey, \A t \in Nat : Members[m] # Onboarding(head, t)
         PROVE  Members'[m] = Members[m]
    <2>1. \A i \in 1 .. Len(OnboardingQueue[head]) : OnboardingQueue[head][i] # m
      BY <1>9, <1>11
    <2> QED
      BY <1>4, <2>1
  <1>12. EntriesOK'
    <2>1. ASSUME NEW m \in MemberKey PROVE EntryOK(m)'
      <3>1. CASE \E t \in Nat : Members[m] = Onboarding(head, t)
        BY <1>5, <1>10, <3>1 DEF EntryOK
      <3>2. CASE \A t \in Nat : Members[m] # Onboarding(head, t)
        BY <1>11, <3>2 DEF EntryOK, KeysInv, EntriesOK
      <3> QED
        BY <3>1, <3>2
    <2>2. Members' = [m \in MemberKey |-> Members'[m]]
      BY <1>4
    <2> QED
      BY <2>1, <2>2 DEF EntriesOK
  <1>13. SameIncluded
    <2> SUFFICES ASSUME NEW m \in MemberKey, NEW r \in RingIndex, NEW p \in RingPage, NEW i \in Nat
                 PROVE  Members'[m] = Included(r, p, i) <=> Members[m] = Included(r, p, i)
      BY DEF SameIncluded
    <2>1. CASE \E t \in Nat : Members[m] = Onboarding(head, t)
      BY <1>10, <2>1, EntryKinds
    <2>2. CASE \A t \in Nat : Members[m] # Onboarding(head, t)
      BY <1>11, <2>2
    <2> QED
      BY <2>1, <2>2
  <1>14. \A q \in QueuePage : q # head /\ IsQueued(q) => IsQueued(q)'
    <2>1. QueuePageIndices'.head = next /\ QueuePageIndices'.tail = tail
      BY <1>1, <1>4 DEF Inv, QueueTypes
    <2>2. \A q \in QueuePage : q # head /\ Between(q, head, tail) => Between(q, next, tail)
      BY <1>1, <1>2, <1>4, QueueOrder
    <2> QED
      BY <1>1, <2>1, <2>2 DEF IsQueued, Between
  <1>15. IsQueued(next)'
    <2>1. QueuePageIndices'.head = next /\ QueuePageIndices'.tail = tail
      BY <1>1, <1>4 DEF Inv, QueueTypes
    <2>2. Between(next, next, tail)
      BY <1>5, QueueOrder
    <2> QED
      BY <2>1, <2>2 DEF IsQueued, Between
  <1>16. ASSUME NEW x \in 1 .. Len(keys) PROVE \E t \in Nat : Members'[keys[x]] = Onboarding(next, t)
    <2>1. PICK h \in {head, next} : \E j \in 1 .. Len(OnboardingQueue[h]) :
              keys[x] = OnboardingQueue[h][j]
      BY <1>6 DEF Waits
    <2>2. h \in QueuePage /\ QueuePageOK(h)
      BY <1>5, PageInjective
    <2>3. PICK t \in Nat : Members[keys[x]] = Onboarding(h, t)
      BY <2>1, <2>2 DEF QueuePageOK
    <2>4. keys[x] \in MemberKey
      BY <1>6 DEF Waits
    <2>5. CASE h = head
      BY <1>10, <2>3, <2>4, <2>5
    <2>6. CASE h = next
      <3>1. \A s \in Nat : Members[keys[x]] # Onboarding(head, s)
        BY <1>5, <2>3, <2>6, EntryKinds
      <3> QED
        BY <1>11, <2>3, <2>4, <2>6, <3>1
    <2> QED
      BY <2>5, <2>6
  <1>17. ASSUME NEW q \in QueuePage PROVE QueuePageOK(q)'
    <2>1. CASE q = head
      <3>1. OnboardingQueue'[head] = <<>> /\ Len(<<>>) = 0 /\ OnboardingQueuePageSize \in Nat
        BY <1>8, SizesAssumption
      <3> QED
        BY <2>1, <3>1 DEF QueuePageOK
    <2>2. CASE q = next
      <3>1. \A i, j \in 1 .. Len(keys) : keys[i] = keys[j] => i = j
        BY <1>6 DEF Waits, Injective
      <3>2. next \in QueueKeys'
        BY <1>4
      <3> QED
        BY <1>7, <1>8, <1>16, <2>2, <3>1, <3>2 DEF QueuePageOK
    <2>3. CASE q # head /\ q # next
      <3>1. QueuePageOK(q) /\ OnboardingQueue'[q] = OnboardingQueue[q]
        BY <1>8, <2>3, PageInjective
      <3>2. ASSUME NEW i \in 1 .. Len(OnboardingQueue[q])
            PROVE  \E t \in Nat : Members'[OnboardingQueue[q][i]] = Onboarding(q, t)
        <4>1. PICK k \in MemberKey : k = OnboardingQueue[q][i]
          BY KeyTypes
        <4>2. PICK t \in Nat : Members[k] = Onboarding(q, t)
          BY <3>1, <4>1 DEF QueuePageOK
        <4>3. \A s \in Nat : Members[k] # Onboarding(head, s)
          BY <2>3, <4>2, EntryKinds
        <4> QED
          BY <1>11, <4>1, <4>2, <4>3
      <3>3. q \in QueueKeys => q \in QueueKeys'
        BY <1>4, <2>3
      <3> QED
        BY <3>1, <3>2, <3>3 DEF QueuePageOK
    <2> QED
      BY <2>1, <2>2, <2>3
  <1>18. Queued'
    <2> SUFFICES ASSUME NEW k \in MemberKey, NEW q \in QueuePage, NEW t \in Nat,
                        Members'[k] = Onboarding(q, t)
                 PROVE  /\ IsQueued(q)'
                        /\ \E i \in 1 .. Len(OnboardingQueue'[q]) : OnboardingQueue'[q][i] = k
      BY DEF Queued
    <2>1. CASE \E s \in Nat : Members[k] = Onboarding(head, s)
      <3>1. PICK s \in Nat : Members[k] = Onboarding(head, s)
        BY <2>1
      <3>2. Onboarding(q, t) = Onboarding(next, s)
        BY <1>10, <3>1
      <3>3. q = next
        BY <3>2, EntryKinds
      <3>4. \E i \in 1 .. Len(OnboardingQueue[head]) : OnboardingQueue[head][i] = k
        BY <3>1 DEF KeysInv, QueuePart, Queued
      <3>5. \E x \in 1 .. Len(keys) : keys[x] = k
        BY <1>6, <3>4 DEF Waits
      <3> QED
        BY <1>8, <1>15, <3>3, <3>5
    <2>2. CASE \A s \in Nat : Members[k] # Onboarding(head, s)
      <3>1. Members[k] = Onboarding(q, t) /\ q # head
        BY <1>11, <2>2
      <3>2. IsQueued(q) /\ \E i \in 1 .. Len(OnboardingQueue[q]) : OnboardingQueue[q][i] = k
        BY <3>1 DEF KeysInv, QueuePart, Queued
      <3>3. \E i \in 1 .. Len(OnboardingQueue'[q]) : OnboardingQueue'[q][i] = k
        <4>1. CASE q = next
          <5>1. PICK i \in 1 .. Len(OnboardingQueue[next]) : OnboardingQueue[next][i] = k
            BY <3>2, <4>1
          <5>2. PICK x \in 1 .. Len(keys) : keys[x] = OnboardingQueue[next][i]
            BY <1>6, <5>1 DEF Waits
          <5> QED
            BY <1>8, <4>1, <5>1, <5>2
        <4>2. CASE q # next
          BY <1>8, <3>1, <3>2, <4>2
        <4> QED
          BY <4>1, <4>2
      <3> QED
        BY <1>14, <3>1, <3>2, <3>3
    <2> QED
      BY <2>1, <2>2
  <1>19. QueueTypes'
    BY MergeQueue
  <1>20. QueuePart'
    BY <1>17, <1>18, <1>19 DEF QueuePart
  <1> QED
    BY <1>4, <1>12, <1>13, <1>20, QueueStep DEF roots, config

-----------------------------------------------------------------------------
(* Keys that leave their ring *)

LEMMA SuspendIncluded ==
    ASSUME Inv, KeysInv, NEW m \in MemberKey, remove_members(m),
           queue_member_suspension_included(m)
    PROVE  KeysInv'
  <1>1. Flexible /\ Standing /\ lifecycle = "Live" /\ Members[m].at = "Included"
    BY DEF remove_members, queue_member_suspension_included, Flexible, Standing
  <1>2. PICK r \in RingIndex, p \in RingPage, i \in Nat : Members[m] = Included(r, p, i)
    BY <1>1, EntryAt
  <1>3. /\ PendingSuspensions' = [PendingSuspensions EXCEPT ![r] = @ \union {i}]
        /\ Members' = [Members EXCEPT ![m] = Suspended]
        /\ UNCHANGED <<CurrentRingIndex, RingKeys, RingKeysStatus, StatusKeys, ActiveMembers,
                       StaleRings, RingDeletionQueue, queue, lifecycle, Root>>
    <2>1. Members[m].ring_index = r /\ Members[m].ring_position = i
      BY <1>2, EntryFields
    <2> QED
      BY <2>1 DEF remove_members, queue_member_suspension_included, config, roots
  <1>4. /\ Members'[m] = Suspended /\ \A k \in MemberKey : k # m => Members'[k] = Members[k]
        /\ Members' = [k \in MemberKey |-> Members'[k]]
    BY <1>3 DEF KeysInv, EntriesOK
  <1>5. /\ PendingSuspensions'[r] = PendingSuspensions[r] \union {i}
        /\ \A s \in RingIndex : s # r => PendingSuspensions'[s] = PendingSuspensions[s]
    BY <1>3 DEF Inv, RingTypes
  <1>6. i < Len(RingKeys[r][p]) /\ RingKeys[r][p][i + 1] = m
    BY <1>2 DEF KeysInv, RingPart, Held
  <1>7. /\ Len(RingKeys[r][0]) = RingKeysStatus[r].total
        /\ \A q \in RingPage : q # 0 => Len(RingKeys[r][q]) = 0
        /\ RingKeysStatus[r].total > 0 => r \in StatusKeys
    BY <1>1, OnePage
  <1>8. \A q \in RingPage, j \in Nat : j < Len(RingKeys[r][q]) => q = 0
    BY <1>7
  <1>9. p = 0 /\ r \in StatusKeys
    <2>1. p = 0
      BY <1>6, <1>8
    <2>2. RingKeysStatus[r].total > 0
      BY <1>6, <1>7, <2>1, RingFacts
    <2> QED
      BY <1>7, <2>1, <2>2
  <1>10. EntriesOK'
    BY <1>4 DEF KeysInv, EntriesOK, EntryOK
  <1>11. Held'
    <2> SUFFICES ASSUME NEW k \in MemberKey, NEW s \in RingIndex, NEW q \in RingPage, NEW j \in Nat,
                        Members'[k] = Included(s, q, j)
                 PROVE  /\ j < Len(RingKeys[s][q]) /\ RingKeys[s][q][j + 1] = k
                        /\ j \notin PendingSuspensions'[s]
      BY <1>3 DEF Held
    <2>1. k # m /\ Members[k] = Included(s, q, j)
      BY <1>4, EntryKinds
    <2>2. /\ j < Len(RingKeys[s][q]) /\ RingKeys[s][q][j + 1] = k /\ j \notin PendingSuspensions[s]
      BY <2>1 DEF KeysInv, RingPart, Held
    <2>3. CASE s = r
      <3>1. q = 0
        BY <1>8, <2>2, <2>3
      <3>2. j # i
        BY <1>6, <1>9, <2>1, <2>2, <2>3, <3>1
      <3> QED
        BY <1>5, <2>2, <2>3, <3>2
    <2>4. CASE s # r
      BY <1>5, <2>2, <2>4
    <2> QED
      BY <2>3, <2>4
  <1>12. Known'
    <2> SUFFICES ASSUME NEW s \in StatusKeys, NEW q \in RingPage, NEW j \in Nat,
                        j < Len(RingKeys[s][q]), j \notin PendingSuspensions'[s]
                 PROVE  Members'[RingKeys[s][q][j + 1]] = Included(s, q, j)
      BY <1>3 DEF Known
    <2>1. s \in RingIndex
      BY KeyTypes
    <2>2. j \notin PendingSuspensions[s] /\ (s = r => j # i)
      BY <1>5, <2>1
    <2>3. PICK k \in MemberKey : k = RingKeys[s][q][j + 1]
      BY <2>1, KeyTypes
    <2>4. Members[k] = Included(s, q, j)
      BY <2>2, <2>3 DEF KeysInv, RingPart, Known
    <2>5. k # m
      BY <1>2, <2>2, <2>4, EntryKinds
    <2> QED
      BY <1>4, <2>3, <2>4, <2>5
  <1>13. PendingOK'
    <2> SUFFICES ASSUME NEW s \in RingIndex, NEW j \in PendingSuspensions'[s]
                 PROVE  j \in Nat /\ j < Len(RingKeys[s][0])
      BY <1>3 DEF PendingOK
    <2>1. j \in PendingSuspensions[s] \/ (s = r /\ j = i)
      BY <1>5
    <2> QED
      BY <1>6, <1>9, <2>1 DEF KeysInv, RingPart, PendingOK
  <1>14. ASSUME NEW s \in RingIndex \ StatusKeys' PROVE GoneOK(s)'
    <2>1. s # r /\ s \notin StatusKeys
      BY <1>3, <1>9
    <2>2. GoneOK(s)
      BY <2>1 DEF KeysInv, RingPart
    <2>3. PendingSuspensions'[s] = PendingSuspensions[s]
      BY <1>5, <2>1
    <2> QED
      BY <1>3, <2>2, <2>3 DEF GoneOK
  <1>15. SameOnboarding
    BY <1>2, <1>4, EntryKinds DEF SameOnboarding
  <1>16. QueuePart'
    BY <1>3, <1>15, QueueFrame DEF KeysInv
  <1>17. ASSUME NEW s \in RingIndex PROVE RootedOK(s)'
    BY <1>3, RootFrame DEF KeysInv
  <1>18. Counted'
    BY <1>3, CountFrame DEF KeysInv
  <1>19. RoomOK' /\ Ended'
    BY <1>1, <1>3 DEF KeysInv, RoomOK, Ended
  <1> QED
    BY <1>10, <1>11, <1>12, <1>13, <1>14, <1>16, <1>17, <1>18, <1>19 DEF KeysInv, RingPart

\* Steps that leave the entries, the pages and the totals alone.
LEMMA SameKeys ==
    ASSUME Inv, KeysInv, UNCHANGED <<Members, RingKeys, PendingSuspensions, RingDeletionQueue,
                                     ActiveMembers, CurrentRingIndex, queue, lifecycle>>,
           \A r \in RingIndex : RingKeysStatus'[r].total = RingKeysStatus[r].total,
           StatusKeys \subseteq StatusKeys', StatusKeys' \subseteq RingIndex,
           \A r \in StatusKeys' \ StatusKeys, p \in RingPage : RingKeys[r][p] = <<>>,
           \A r \in RingIndex \ StatusKeys' : Root'[r] = Root[r] /\ r \notin StaleRings',
           \A r \in RingIndex : RootedOK(r)', lifecycle # "Retired"
    PROVE  KeysInv'
  <1>1. EntriesOK'
    BY DEF KeysInv, EntriesOK, EntryOK
  <1>2. Held' /\ PendingOK'
    BY DEF KeysInv, RingPart, Held, PendingOK
  <1>3. Known'
    <2> SUFFICES ASSUME NEW r \in StatusKeys', NEW p \in RingPage, NEW i \in Nat,
                        i < Len(RingKeys[r][p]), i \notin PendingSuspensions[r]
                 PROVE  Members[RingKeys[r][p][i + 1]] = Included(r, p, i)
      BY DEF Known
    <2>1. r \in StatusKeys
      <3>1. RingKeys[r][p] = <<>> => Len(RingKeys[r][p]) = 0
        OBVIOUS
      <3> QED
        BY <3>1
    <2> QED
      BY <2>1 DEF KeysInv, RingPart, Known
  <1>4. ASSUME NEW r \in RingIndex \ StatusKeys' PROVE GoneOK(r)'
    BY DEF KeysInv, RingPart, GoneOK
  <1>5. QueuePart'
    BY QueueFrame DEF KeysInv, SameOnboarding
  <1>6. Counted'
    BY CountFrame DEF KeysInv
  <1>7. RoomOK' /\ Ended'
    <2>1. CurrentRingIndex \in RingIndex
      BY DEF Inv, RingTypes
    <2> QED
      BY <2>1 DEF KeysInv, RoomOK, Ended
  <1> QED
    BY <1>1, <1>2, <1>3, <1>4, <1>5, <1>6, <1>7 DEF KeysInv, RingPart

-----------------------------------------------------------------------------
(* Building a ring *)

\* Two runs of values, one after the other.
LEMMA Runs ==
    ASSUME NEW a \in Nat, NEW n \in Nat, NEW S, NEW f, \A i \in 1 .. a + n : f[i] \in S
    PROVE  [i \in 1 .. a |-> f[i]] \o [i \in 1 .. n |-> f[a + i]] = [i \in 1 .. a + n |-> f[i]]
  <1>1. PICK s : s = [i \in 1 .. a |-> f[i]]
    OBVIOUS
  <1>2. PICK t : t = [i \in 1 .. n |-> f[a + i]]
    OBVIOUS
  <1>3. PICK u : u = [i \in 1 .. a + n |-> f[i]]
    OBVIOUS
  <1>4. s \in Seq(S) /\ Len(s) = a
    <2>1. s \in [1 .. a -> S]
      BY <1>1
    <2> QED
      BY <2>1
  <1>5. t \in Seq(S) /\ Len(t) = n
    <2>1. t \in [1 .. n -> S]
      BY <1>2
    <2> QED
      BY <2>1
  <1>6. u \in Seq(S) /\ Len(u) = a + n
    <2>1. u \in [1 .. a + n -> S]
      BY <1>3
    <2> QED
      BY <2>1
  <1>7. s \o t \in Seq(S) /\ Len(s \o t) = a + n
    BY <1>4, <1>5
  <1>8. ASSUME NEW i \in 1 .. a + n PROVE (s \o t)[i] = u[i]
    <2>1. CASE i <= a
      <3>1. (s \o t)[i] = s[i]
        BY <1>4, <1>5, <2>1
      <3> QED
        BY <1>1, <1>3, <2>1, <3>1
    <2>2. CASE ~ (i <= a)
      <3>1. PICK j \in 1 .. n : j = i - a /\ a + j = i
        BY <2>2
      <3>2. (s \o t)[i] = t[i - a]
        BY <1>4, <1>5, <2>2
      <3> QED
        BY <1>2, <1>3, <3>1, <3>2
    <2> QED
      BY <2>1, <2>2
  <1>9. s \o t = u
    <2>1. PICK w \in Seq(S) : w = s \o t /\ Len(w) = a + n
      BY <1>7
    <2>2. \A i \in 1 .. a + n : w[i] = u[i]
      BY <1>8, <2>1
    <2>3. w \in [1 .. a + n -> S] /\ u \in [1 .. a + n -> S]
      BY <1>6, <2>1, LenProperties, Zenon
    <2>4. w = u
      BY <2>2, <2>3
    <2> QED
      BY <2>1, <2>4
  <1> QED
    BY <1>1, <1>2, <1>3, <1>9

LEMMA BuildKeys ==
    ASSUME Inv, KeysInv, NEW r \in RingIndex, NEW n \in 1 .. RingBuildingMemberLimit, build_ring(r, n)
    PROVE  KeysInv'
  <1>1. PICK total \in Nat, included \in Nat :
            total = RingKeysStatus[r].total /\ included = RingKeysStatus[r].included
    BY RingFacts
  <1>2. n \in Nat /\ n > 0
    BY SizesAssumption
  <1>3. PICK pushed : pushed = [i \in 1 .. n |-> KeyAt(r, included + i - 1)]
    OBVIOUS
  <1>4. /\ should_build_ring(r, n)
        /\ \E since : RingKeysStatus' = [RingKeysStatus EXCEPT ![r].included = included + n,
                                                               ![r].immutable_since = since]
        /\ StatusKeys' = StatusKeys \union {r}
        /\ StaleRings' = StaleAfterBuild(r, included + n)
        /\ \E revision : Root' = [Root EXCEPT ![r] = [revision |-> revision,
                                                      keys |-> Root[r].keys \o pushed]]
        /\ UNCHANGED <<Members, RingKeys, PendingSuspensions, RingDeletionQueue, ActiveMembers,
                       CurrentRingIndex, queue, lifecycle>>
    <2>1. /\ StaleRings' = StaleAfterBuild(r, included + n)
          /\ Root' = [Root EXCEPT ![r] = [revision |-> next_revision(r), keys |-> Root[r].keys \o pushed]]
      BY <1>1, <1>3 DEF build_ring
    <2>2. RingKeysStatus' = [RingKeysStatus EXCEPT
               ![r].included = included + n,
               ![r].immutable_since = IF BecomesImmutable(total, included + n) THEN now ELSE @]
      BY <1>1 DEF build_ring
    <2>3. PICK since : since = IF BecomesImmutable(total, included + n) THEN now
                               ELSE RingKeysStatus[r].immutable_since
      OBVIOUS
    <2>4. RingKeysStatus' = [RingKeysStatus EXCEPT ![r].included = included + n,
                                                   ![r].immutable_since = since]
      BY <2>2, <2>3
    <2> QED
      BY <2>1, <2>4 DEF build_ring, config
  <1>5. included + n <= total /\ total <= RingCapacity
    <2>1. n <= SaturatingSub(total, included)
      BY <1>1, <1>4 DEF should_build_ring
    <2> QED
      BY <1>1, <1>2, <2>1, RingFacts DEF SaturatingSub
  <1>6. r \in StatusKeys /\ StatusKeys' = StatusKeys
    <2>1. total # 0
      BY <1>2, <1>5
    <2> QED
      BY <1>1, <1>4, <2>1, RingFacts DEF RingOK, StatusOK, NoStatus
  <1>7. Paged(r)
    BY <1>6, RingFacts DEF RingOK, PlaceOK
  <1>8. /\ RingKeysStatus'[r].total = total /\ RingKeysStatus'[r].included = included + n
        /\ \A s \in RingIndex : s # r => RingKeysStatus'[s] = RingKeysStatus[s]
    <2>1. PICK since : RingKeysStatus' = [RingKeysStatus EXCEPT ![r].included = included + n,
                                                                ![r].immutable_since = since]
      BY <1>4
    <2>2. RingKeysStatus \in [RingIndex -> Status] /\ RingKeysStatus[r] \in Status
      BY RingFacts DEF Inv, RingTypes
    <2> QED
      BY <1>1, <2>1, <2>2 DEF Status
  <1>9. /\ Root'[r].keys = Root[r].keys \o pushed
        /\ \A s \in RingIndex : s # r => Root'[s] = Root[s]
    BY <1>4 DEF Inv, RootTypes
  <1>10. ASSUME NEW i \in 1 .. included + n PROVE KeyAt(r, i - 1) \in MemberKey
    <2>1. PICK g \in Nat : g = i - 1 /\ g < RingKeysStatus[r].total
      BY <1>1, <1>2, <1>5
    <2>2. /\ g \div RingPageSize \in RingPage /\ g % RingPageSize \in Nat
          /\ g % RingPageSize < Len(RingKeys[r][g \div RingPageSize])
      BY <1>7, <2>1, KeyPlace
    <2>3. RingKeys[r][g \div RingPageSize][(g % RingPageSize) + 1] \in MemberKey
      BY <2>2, KeyTypes
    <2> QED
      BY <2>1, <2>3 DEF KeyAt
  <1>11. Root'[r].keys = [i \in 1 .. included + n |-> KeyAt(r, i - 1)]
    <2>1. PICK f : f = [i \in 1 .. included + n |-> KeyAt(r, i - 1)]
      OBVIOUS
    <2>2. \A i \in 1 .. included + n : f[i] \in MemberKey
      BY <1>10, <2>1
    <2>3. [i \in 1 .. included |-> f[i]] \o [i \in 1 .. n |-> f[included + i]]
              = [i \in 1 .. included + n |-> f[i]]
      BY <1>2, <2>2, Runs
    <2>4. Root[r].keys = [i \in 1 .. included |-> f[i]]
      <3>1. Root[r].keys = [i \in 1 .. included |-> KeyAt(r, i - 1)]
        BY <1>1 DEF KeysInv, RootedOK
      <3>2. \A i \in 1 .. included : f[i] = KeyAt(r, i - 1)
        BY <1>2, <2>1
      <3> QED
        BY <3>1, <3>2
    <2>5. pushed = [i \in 1 .. n |-> f[included + i]]
      <3>1. \A i \in 1 .. n : f[included + i] = KeyAt(r, included + i - 1)
        BY <1>2, <2>1
      <3> QED
        BY <1>3, <3>1
    <2>6. f = [i \in 1 .. included + n |-> f[i]]
      BY <2>1
    <2> QED
      BY <1>9, <2>1, <2>3, <2>4, <2>5, <2>6
  <1>12. ASSUME NEW s \in RingIndex PROVE RootedOK(s)'
    <2>1. CASE s = r
      <3>1. \A g : KeyAt(r, g)' = KeyAt(r, g)
        BY <1>4 DEF KeyAt
      <3> QED
        BY <1>8, <1>11, <2>1, <3>1 DEF RootedOK
    <2>2. CASE s # r
      BY <1>4, <1>8, <1>9, <2>2, RootFrame DEF KeysInv
    <2> QED
      BY <2>1, <2>2
  <1>13. \A s \in RingIndex \ StatusKeys' : Root'[s] = Root[s] /\ s \notin StaleRings'
    <2> TAKE s \in RingIndex \ StatusKeys'
    <2>1. s # r /\ s \notin StatusKeys
      BY <1>6
    <2>2. s \notin StaleRings
      BY <2>1 DEF KeysInv, RingPart, GoneOK
    <2>3. s \notin StaleRings'
      BY <1>4, <2>2 DEF StaleAfterBuild
    <2> QED
      BY <1>9, <2>1, <2>3
  <1>14. /\ \A s \in RingIndex : RingKeysStatus'[s].total = RingKeysStatus[s].total
         /\ lifecycle # "Retired" /\ StatusKeys \subseteq RingIndex
    BY <1>1, <1>4, <1>8, KeyTypes DEF should_build_ring
  <1> QED
    BY <1>4, <1>6, <1>12, <1>13, <1>14, SameKeys

-----------------------------------------------------------------------------
(* Deletion *)

\* A ring that has no status has an empty root.
LEMMA GoneRooted ==
    ASSUME Inv, KeysInv, NEW r \in RingIndex \ StatusKeys', Root'[r].keys = <<>>,
           RingKeysStatus'[r].included = 0
    PROVE  RootedOK(r)'
  <1>1. [i \in 1 .. 0 |-> KeyAt(r, i - 1)'] = <<>>
    BY 1 .. 0 = {}
  <1> QED
    BY <1>1 DEF RootedOK

LEMMA DeletePageKeys ==
    ASSUME Inv, KeysInv, NEW r \in RingIndex, NEW p \in RingPage, delete_ring_page(r, p)
    PROVE  KeysInv'
  <1>1. /\ <<r, p>> \in RingDeletionQueue
        /\ RingDeletionQueue' = RingDeletionQueue \ {<<r, p>>}
        /\ Members' = [m \in MemberKey |->
                          IF \E i \in 1 .. Len(RingKeys[r][p]) :
                                 RingKeys[r][p][i] = m /\ Members[m] = Included(r, p, i - 1)
                          THEN Absent ELSE Members[m]]
        /\ RingKeys' = [RingKeys EXCEPT ![r][p] = <<>>]
        /\ UNCHANGED <<CurrentRingIndex, RingKeysStatus, StatusKeys, PendingSuspensions,
                       ActiveMembers, StaleRings, queue, Root, lifecycle>>
    BY DEF delete_ring_page, config, roots
  <1>2. r \notin StatusKeys /\ RingKeysStatus[r] = NoStatus /\ GoneOK(r)
    BY <1>1, RingFacts DEF RingOK, PlaceOK, StatusOK, KeysInv, RingPart
  <1>3. /\ RingKeys'[r][p] = <<>>
        /\ \A s \in RingIndex, q \in RingPage : s # r \/ q # p => RingKeys'[s][q] = RingKeys[s][q]
        /\ \A s \in RingIndex : s # r => RingKeys'[s] = RingKeys[s]
    BY <1>1 DEF Inv, RingTypes
  <1>4. ASSUME NEW m \in MemberKey
        PROVE  \/ Members'[m] = Absent /\ \E i \in Nat : Members[m] = Included(r, p, i)
               \/ Members'[m] = Members[m] /\ \A i \in Nat : Members[m] # Included(r, p, i)
    <2>1. CASE \E i \in 1 .. Len(RingKeys[r][p]) :
                   RingKeys[r][p][i] = m /\ Members[m] = Included(r, p, i - 1)
      <3>1. PICK i \in 1 .. Len(RingKeys[r][p]) : Members[m] = Included(r, p, i - 1)
        BY <2>1
      <3>2. i - 1 \in Nat
        BY KeyTypes
      <3> QED
        BY <1>1, <2>1, <3>1, <3>2
    <2>2. CASE ~ \E i \in 1 .. Len(RingKeys[r][p]) :
                   RingKeys[r][p][i] = m /\ Members[m] = Included(r, p, i - 1)
      <3>1. ASSUME NEW i \in Nat, Members[m] = Included(r, p, i) PROVE FALSE
        <4>1. i < Len(RingKeys[r][p]) /\ RingKeys[r][p][i + 1] = m
          BY <3>1 DEF KeysInv, RingPart, Held
        <4>2. i + 1 \in 1 .. Len(RingKeys[r][p]) /\ (i + 1) - 1 = i
          BY <4>1, KeyTypes
        <4> QED
          BY <2>2, <3>1, <4>1, <4>2
      <3>2. Members'[m] = Members[m]
        BY <1>1, <2>2
      <3> QED
        BY <3>1, <3>2
    <2> QED
      BY <2>1, <2>2
  <1>5. EntriesOK'
    <2>1. Members' = [m \in MemberKey |-> Members'[m]]
      BY <1>1
    <2> QED
      BY <1>4, <2>1 DEF KeysInv, EntriesOK, EntryOK
  <1>6. Held'
    <2> SUFFICES ASSUME NEW m \in MemberKey, NEW s \in RingIndex, NEW q \in RingPage, NEW j \in Nat,
                        Members'[m] = Included(s, q, j)
                 PROVE  /\ j < Len(RingKeys'[s][q]) /\ RingKeys'[s][q][j + 1] = m
                        /\ j \notin PendingSuspensions[s]
      BY <1>1 DEF Held
    <2>1. Members[m] = Included(s, q, j) /\ (s # r \/ q # p)
      BY <1>4, EntryKinds
    <2> QED
      BY <1>3, <2>1 DEF KeysInv, RingPart, Held
  <1>7. Known'
    <2> SUFFICES ASSUME NEW s \in StatusKeys, NEW q \in RingPage, NEW j \in Nat,
                        j < Len(RingKeys'[s][q]), j \notin PendingSuspensions[s]
                 PROVE  Members'[RingKeys'[s][q][j + 1]] = Included(s, q, j)
      BY <1>1 DEF Known
    <2>1. s \in RingIndex /\ s # r /\ RingKeys'[s] = RingKeys[s]
      BY <1>2, <1>3, KeyTypes
    <2>2. PICK k \in MemberKey : k = RingKeys[s][q][j + 1]
      BY <2>1, KeyTypes
    <2>3. Members[k] = Included(s, q, j)
      BY <2>1, <2>2 DEF KeysInv, RingPart, Known
    <2> QED
      BY <1>4, <2>1, <2>2, <2>3, EntryKinds
  <1>8. PendingOK'
    <2> SUFFICES ASSUME NEW s \in RingIndex, NEW j \in PendingSuspensions[s]
                 PROVE  j \in Nat /\ j < Len(RingKeys'[s][0])
      BY <1>1 DEF PendingOK
    <2>1. s # r
      BY <1>2 DEF GoneOK
    <2> QED
      BY <1>3, <2>1 DEF KeysInv, RingPart, PendingOK
  <1>9. ASSUME NEW s \in RingIndex \ StatusKeys' PROVE GoneOK(s)'
    <2>1. GoneOK(s)
      BY <1>1 DEF KeysInv, RingPart
    <2>2. ASSUME NEW q \in RingPage, RingKeys'[s][q] # <<>> PROVE <<s, q>> \in RingDeletionQueue'
      <3>1. s # r \/ q # p
        BY <1>3, <2>2
      <3>2. <<s, q>> \in RingDeletionQueue
        BY <1>3, <2>1, <2>2, <3>1 DEF GoneOK
      <3> QED
        BY <1>1, <3>1, <3>2
    <2> QED
      BY <1>1, <2>1, <2>2 DEF GoneOK
  <1>10. SameOnboarding
    BY <1>4, EntryKinds DEF SameOnboarding
  <1>11. QueuePart'
    BY <1>1, <1>10, QueueFrame DEF KeysInv
  <1>12. ASSUME NEW s \in RingIndex PROVE RootedOK(s)'
    <2>1. CASE s = r
      BY <1>1, <1>2, <2>1, GoneRooted DEF GoneOK, NoRoot, NoStatus
    <2>2. CASE s # r
      BY <1>1, <1>3, <2>2, RootFrame DEF KeysInv
    <2> QED
      BY <2>1, <2>2
  <1>13. Counted'
    BY <1>1, CountFrame DEF KeysInv
  <1>14. RoomOK' /\ Ended'
    BY <1>1 DEF KeysInv, RoomOK, Ended
  <1> QED
    BY <1>5, <1>6, <1>7, <1>8, <1>9, <1>11, <1>12, <1>13, <1>14 DEF KeysInv, RingPart

\* The pages of a ring that hold keys are among those that are counted.
LEMMA PagesCounted ==
    ASSUME Inv, NEW r \in RingIndex, Paged(r), NEW p \in RingPage, RingKeys[r][p] # <<>>
    PROVE  p \in 0 .. PageCount(RingKeysStatus[r].total) - 1
  <1>1. PICK size \in Nat, total \in Nat :
            size = RingPageSize /\ total = RingKeysStatus[r].total /\ size # 0
    <2>1. RingPageSize \in Nat /\ RingPageSize # 0
      BY Sizes
    <2>2. RingKeysStatus[r].total \in Nat
      BY RingFacts
    <2> QED
      BY <2>1, <2>2, Zenon
  <1>2. p \in Nat
    BY Sizes
  <1>3. PICK base \in Nat : base = p * size
    BY <1>1, <1>2
  <1>4. base < total
    <2>1. RingKeys[r][p] \in Seq(MemberKey)
      BY KeyTypes
    <2>2. Len(RingKeys[r][p]) > 0
      BY <2>1
    <2>3. Len(RingKeys[r][p]) = Smaller(SaturatingSub(total, base), size)
      BY <1>1, <1>3 DEF Paged, InPage
    <2>4. Smaller(SaturatingSub(total, base), size) > 0
      BY <2>2, <2>3
    <2> QED
      BY <2>4 DEF Smaller, SaturatingSub
  <1>5. PICK d \in Nat, e \in Nat : /\ d = total \div size /\ e = total % size
                                    /\ total = d * size + e /\ e < size
    <2>1. /\ total \div size \in Nat /\ total % size \in 0 .. size - 1
          /\ total = (total \div size) * size + (total % size)
      BY <1>1, Division
    <2>2. total % size \in Nat /\ total % size < size
      BY <1>1, <2>1
    <2> QED
      BY <2>1, <2>2, Zenon
  <1>6. PageCount(total) = IF e = 0 THEN d ELSE d + 1
    <2>1. PageCount(total) = total \div size + (IF total % size = 0 THEN 0 ELSE 1)
      BY <1>1 DEF PageCount
    <2>2. PageCount(total) = d + (IF e = 0 THEN 0 ELSE 1)
      BY <1>5, <2>1, Zenon
    <2> QED
      BY <2>2
  <1>7. p < d \/ (p = d /\ e # 0)
    <2>1. CASE p < d
      BY <2>1
    <2>2. CASE p = d
      <3>1. base = d * size
        BY <1>3, <2>2
      <3> QED
        BY <1>4, <1>5, <2>2, <3>1
    <2>3. CASE p > d
      <3>1. PICK f \in Nat : p = d + 1 + f
        BY <1>2, <2>3
      <3>2. p * size = d * size + size + f * size /\ f * size \in Nat /\ d * size \in Nat
        BY <1>1, <3>1
      <3> QED
        BY <1>3, <1>4, <1>5, <3>2
    <2> QED
      BY <1>2, <2>1, <2>2, <2>3
  <1> QED
    BY <1>1, <1>2, <1>6, <1>7

LEMMA EnqueueKeys ==
    ASSUME Inv, Inv', KeysInv, NEW r \in RingIndex, enqueue_ring_for_deletion(r),
           lifecycle # "Retired"
    PROVE  KeysInv'
  <1>1. PICK total \in Nat : total = RingKeysStatus[r].total
    BY RingFacts
  <1>2. /\ Root' = [Root EXCEPT ![r] = NoRoot]
        /\ StaleRings' = StaleRings \ {r}
        /\ PendingSuspensions' = [PendingSuspensions EXCEPT ![r] = {}]
        /\ RingKeysStatus' = [RingKeysStatus EXCEPT ![r] = NoStatus]
        /\ StatusKeys' = StatusKeys \ {r}
        /\ ActiveMembers' = SaturatingSub(ActiveMembers, total)
        /\ RingDeletionQueue' =
               RingDeletionQueue \union {<<r, p>> : p \in 0 .. PageCount(total) - 1}
        /\ UNCHANGED <<lifecycle, CurrentRingIndex, RingKeys, Members, queue>>
    BY <1>1 DEF enqueue_ring_for_deletion, config
  <1>3. /\ RingKeysStatus'[r] = NoStatus /\ NoStatus.total = 0 /\ NoStatus.included = 0
        /\ \A s \in RingIndex : s # r => RingKeysStatus'[s] = RingKeysStatus[s]
        /\ Root'[r] = NoRoot /\ NoRoot.keys = <<>>
        /\ \A s \in RingIndex : s # r => Root'[s] = Root[s]
        /\ PendingSuspensions'[r] = {}
        /\ \A s \in RingIndex : s # r => PendingSuspensions'[s] = PendingSuspensions[s]
    BY <1>2 DEF Inv, RingTypes, RootTypes, NoStatus, NoRoot
  <1>4. EntriesOK'
    BY <1>2 DEF KeysInv, EntriesOK, EntryOK
  <1>5. Held'
    <2> SUFFICES ASSUME NEW m \in MemberKey, NEW s \in RingIndex, NEW q \in RingPage, NEW j \in Nat,
                        Members[m] = Included(s, q, j)
                 PROVE  /\ j < Len(RingKeys[s][q]) /\ RingKeys[s][q][j + 1] = m
                        /\ j \notin PendingSuspensions'[s]
      BY <1>2 DEF Held
    <2>1. j < Len(RingKeys[s][q]) /\ RingKeys[s][q][j + 1] = m /\ j \notin PendingSuspensions[s]
      BY DEF KeysInv, RingPart, Held
    <2> QED
      BY <1>3, <2>1
  <1>6. Known'
    <2> SUFFICES ASSUME NEW s \in StatusKeys, s # r, NEW q \in RingPage, NEW j \in Nat,
                        j < Len(RingKeys[s][q]), j \notin PendingSuspensions'[s]
                 PROVE  Members[RingKeys[s][q][j + 1]] = Included(s, q, j)
      BY <1>2 DEF Known
    <2>1. j \notin PendingSuspensions[s]
      BY <1>3, KeyTypes
    <2> QED
      BY <2>1 DEF KeysInv, RingPart, Known
  <1>7. PendingOK'
    BY <1>2, <1>3 DEF KeysInv, RingPart, PendingOK
  <1>8. ASSUME NEW s \in RingIndex \ StatusKeys' PROVE GoneOK(s)'
    <2>1. CASE s \notin StatusKeys
      <3>1. GoneOK(s)
        BY <2>1 DEF KeysInv, RingPart
      <3>2. Root'[s] = NoRoot /\ PendingSuspensions'[s] = {}
        BY <1>3, <3>1 DEF GoneOK
      <3> QED
        BY <1>2, <3>1, <3>2 DEF GoneOK
    <2>2. CASE s \in StatusKeys
      <3>1. s = r
        BY <1>2, <2>2
      <3>2. Paged(r)
        BY <2>2, <3>1, RingFacts DEF RingOK, PlaceOK
      <3>3. \A p \in RingPage : RingKeys[r][p] # <<>> => <<r, p>> \in RingDeletionQueue'
        BY <1>1, <1>2, <3>2, PagesCounted
      <3> QED
        BY <1>2, <1>3, <3>1, <3>3 DEF GoneOK
    <2> QED
      BY <2>1, <2>2
  <1>9. QueuePart'
    BY <1>2, QueueFrame DEF KeysInv, SameOnboarding
  <1>10. ASSUME NEW s \in RingIndex PROVE RootedOK(s)'
    <2>1. CASE s = r
      <3>1. r \in RingIndex \ StatusKeys' /\ Root'[r].keys = <<>> /\ RingKeysStatus'[r].included = 0
        BY <1>2, <1>3
      <3> QED
        BY <2>1, <3>1, GoneRooted
    <2>2. CASE s # r
      BY <1>2, <1>3, <2>2, RootFrame DEF KeysInv
    <2> QED
      BY <2>1, <2>2
  <1>11. Counted'
    <2>1. ActiveMembers' = ActiveMembers - RingKeysStatus[r].total + RingKeysStatus'[r].total
      <3>1. total <= ActiveMembers /\ ActiveMembers \in Nat
        BY <1>1, CountBound
      <3>2. ActiveMembers' = ActiveMembers - total
        BY <1>2, <3>1 DEF SaturatingSub
      <3>3. RingKeysStatus'[r].total = 0
        BY <1>3
      <3> QED
        BY <1>1, <3>1, <3>2, <3>3
    <2>2. \A s \in RingIndex : s # r => RingKeysStatus'[s].total = RingKeysStatus[s].total
      BY <1>3
    <2> QED
      BY <2>1, <2>2, CountStep
  <1>12. RoomOK' /\ Ended'
    <2>1. CurrentRingIndex \in RingIndex
      BY DEF Inv, RingTypes
    <2> QED
      BY <1>2, <1>3, <2>1, Sizes DEF KeysInv, RoomOK, Ended
  <1> QED
    BY <1>4, <1>5, <1>6, <1>7, <1>8, <1>9, <1>10, <1>11, <1>12 DEF KeysInv, RingPart

\* Steps that only let keys lose their entries when no ring is left.
LEMMA LoseEntries ==
    ASSUME Inv, KeysInv, RingsDeleted, lifecycle # "Retired",
           NEW lost \in SUBSET MemberKey,
           Members' = [m \in MemberKey |-> IF m \in lost THEN Absent ELSE Members[m]],
           QueuePart',
           UNCHANGED <<rings, Root, lifecycle>>
    PROVE  KeysInv'
  <1> USE DEF rings
  <1>1. StatusKeys = {} /\ RingDeletionQueue = {}
    BY DEF RingsDeleted
  <1>2. \A s \in RingIndex, p \in RingPage : RingKeys[s][p] = <<>>
    BY <1>1 DEF KeysInv, RingPart, GoneOK
  <1>3. \A m \in MemberKey, s \in RingIndex, p \in RingPage, i \in Nat : Members[m] # Included(s, p, i)
    <2>1. Len(<<>>) = 0
      OBVIOUS
    <2> QED
      BY <1>2, <2>1 DEF KeysInv, RingPart, Held
  <1>4. \A m \in MemberKey : Members'[m] = Absent \/ Members'[m] = Members[m]
    OBVIOUS
  <1>5. SameIncluded
    BY <1>3, <1>4, EntryKinds DEF SameIncluded
  <1>6. EntriesOK'
    <2>1. Members' = [m \in MemberKey |-> Members'[m]]
      OBVIOUS
    <2> QED
      BY <1>4, <2>1 DEF KeysInv, EntriesOK, EntryOK
  <1> QED
    BY <1>5, <1>6, QueueStep

LEMMA DeleteQueuePage ==
    ASSUME Inv, Inv', KeysInv, NEW q \in QueuePage, delete_onboarding_queue_page(q)
    PROVE  KeysInv'
  <1>1. PICK lost \in SUBSET MemberKey :
            lost = {m \in MemberKey : \E i \in 1 .. Len(OnboardingQueue[q]) : OnboardingQueue[q][i] = m}
    OBVIOUS
  <1>2. /\ lifecycle = "Suspended" /\ RingsDeleted
        /\ OnboardingQueue' = [OnboardingQueue EXCEPT ![q] = <<>>]
        /\ QueueKeys' = QueueKeys \ {q}
        /\ Members' = [m \in MemberKey |-> IF m \in lost THEN Absent ELSE Members[m]]
        /\ UNCHANGED <<rings, QueuePageIndices, Root, lifecycle>>
    BY <1>1 DEF delete_onboarding_queue_page, ensure_can_delete_onboarding_queue_page, config, roots
  <1>3. /\ OnboardingQueue'[q] = <<>> /\ Len(<<>>) = 0
        /\ \A p \in QueuePage : p # q => OnboardingQueue'[p] = OnboardingQueue[p]
    BY <1>2, QueueFacts
  <1>4. \A m \in MemberKey : m \in lost <=> \E t \in Nat : Members[m] = Onboarding(q, t)
    <2>1. QueuePageOK(q) /\ Queued
      BY DEF KeysInv, QueuePart
    <2> QED
      BY <1>1, <2>1 DEF QueuePageOK, Queued
  <1>5. \A m \in MemberKey : \/ m \in lost /\ Members'[m] = Absent
                             \/ m \notin lost /\ Members'[m] = Members[m]
    BY <1>2
  <1>6. Queued'
    <2> SUFFICES ASSUME NEW k \in MemberKey, NEW p \in QueuePage, NEW t \in Nat,
                        Members'[k] = Onboarding(p, t)
                 PROVE  /\ IsQueued(p)'
                        /\ \E i \in 1 .. Len(OnboardingQueue'[p]) : OnboardingQueue'[p][i] = k
      BY DEF Queued
    <2>1. k \notin lost /\ Members[k] = Onboarding(p, t)
      BY <1>5, EntryKinds
    <2>2. p # q
      BY <1>4, <2>1
    <2>3. IsQueued(p) /\ \E i \in 1 .. Len(OnboardingQueue[p]) : OnboardingQueue[p][i] = k
      BY <2>1 DEF KeysInv, QueuePart, Queued
    <2> QED
      BY <1>2, <1>3, <2>2, <2>3 DEF IsQueued
  <1>7. ASSUME NEW p \in QueuePage PROVE QueuePageOK(p)'
    <2>1. CASE p = q
      BY <1>3, <2>1, SizesAssumption DEF QueuePageOK
    <2>2. CASE p # q
      <3>1. QueuePageOK(p) /\ OnboardingQueue'[p] = OnboardingQueue[p]
        BY <1>3, <2>2, PageInjective
      <3>2. ASSUME NEW i \in 1 .. Len(OnboardingQueue[p])
            PROVE  \E t \in Nat : Members'[OnboardingQueue[p][i]] = Onboarding(p, t)
        <4>1. PICK k \in MemberKey : k = OnboardingQueue[p][i]
          BY KeyTypes
        <4>2. PICK t \in Nat : Members[k] = Onboarding(p, t)
          BY <3>1, <4>1 DEF QueuePageOK
        <4>3. k \notin lost
          BY <1>4, <2>2, <4>2, EntryKinds
        <4> QED
          BY <1>5, <4>1, <4>2, <4>3
      <3>3. p \in QueueKeys => p \in QueueKeys'
        BY <1>2, <2>2
      <3> QED
        BY <3>1, <3>2, <3>3 DEF QueuePageOK
    <2> QED
      BY <2>1, <2>2
  <1>8. QueuePart'
    BY <1>6, <1>7 DEF QueuePart, Inv
  <1>9. lifecycle # "Retired"
    BY <1>2
  <1> QED
    BY <1>2, <1>8, <1>9, LoseEntries

LEMMA RemoveOrphans ==
    ASSUME Inv, Inv', KeysInv, remove_orphaned_members
    PROVE  KeysInv'
  <1>1. PICK lost \in SUBSET MemberKey :
            Members' = [m \in MemberKey |-> IF m \in lost THEN Absent ELSE Members[m]]
    <2>1. PICK orphans \in SUBSET Present :
              Members' = [m \in MemberKey |-> IF m \in orphans THEN Absent ELSE Members[m]]
      BY DEF remove_orphaned_members
    <2> QED
      BY <2>1 DEF Present
  <1>2. /\ lifecycle # "Retired" /\ RingsDeleted /\ QueueKeys = {}
        /\ UNCHANGED <<rings, queue, Root, lifecycle>>
    BY DEF remove_orphaned_members, config, roots
  <1>3. \A q \in QueuePage : OnboardingQueue[q] = <<>>
    BY <1>2, PageInjective DEF QueuePageOK
  <1>4. SameOnboarding
    <2>1. \A m \in MemberKey, q \in QueuePage, t \in Nat : Members[m] # Onboarding(q, t)
      <3>1. Len(<<>>) = 0
        OBVIOUS
      <3> QED
        BY <1>3, <3>1 DEF KeysInv, QueuePart, Queued
    <2>2. \A m \in MemberKey : Members'[m] = Absent \/ Members'[m] = Members[m]
      BY <1>1
    <2> QED
      BY <2>1, <2>2, EntryKinds DEF SameOnboarding
  <1>5. QueuePart'
    BY <1>2, <1>4, QueueFrame DEF KeysInv
  <1> QED
    BY <1>1, <1>2, <1>5, LoseEntries

LEMMA FinalizeKeys ==
    ASSUME Inv, Inv', KeysInv, finalize_collection_deletion
    PROVE  KeysInv'
  <1>1. /\ RingsDeleted /\ QueueKeys = {} /\ Present = {}
        /\ lifecycle' = "Retired" /\ CurrentRingIndex' = 0 /\ ActiveMembers' = 0
        /\ UNCHANGED <<RingKeys, RingKeysStatus, StatusKeys, PendingSuspensions, StaleRings,
                       RingDeletionQueue, Members, OnboardingQueue, QueueKeys, Root>>
    BY DEF finalize_collection_deletion, roots
  <1>2. \A s \in RingIndex : RingKeysStatus[s].total = 0
    BY <1>1, RingFacts DEF RingsDeleted, RingOK, StatusOK, NoStatus
  <1>3. \A m \in MemberKey, q \in QueuePage, t \in Nat : Members[m] # Onboarding(q, t)
    BY <1>1, EntryKinds DEF Present
  <1>4. EntriesOK'
    BY <1>1 DEF KeysInv, EntriesOK, EntryOK
  <1>5. RingPart'
    BY <1>1, RingFrame DEF KeysInv, SameIncluded
  <1>6. QueuePart'
    <2>1. Queued'
      BY <1>1, <1>3 DEF Queued
    <2>2. ASSUME NEW q \in QueuePage PROVE QueuePageOK(q)'
      BY <1>1, PageInjective DEF QueuePageOK
    <2> QED
      BY <2>1, <2>2 DEF QueuePart, Inv
  <1>7. ASSUME NEW s \in RingIndex PROVE RootedOK(s)'
    BY <1>1, RootFrame DEF KeysInv
  <1>8. Counted'
    <2>1. Filled' = {}
      <3>1. Filled = {}
        BY <1>2 DEF Filled, Position
      <3> QED
        BY <1>1, <3>1 DEF Filled
    <2> QED
      BY <1>1, <2>1, FS_EmptySet DEF Counted
  <1>9. RoomOK' /\ Ended'
    BY <1>1, <1>2, Sizes DEF RoomOK, Ended, RingsDeleted
  <1> QED
    BY <1>4, <1>5, <1>6, <1>7, <1>8, <1>9 DEF KeysInv

-----------------------------------------------------------------------------
(* Merging two rings *)

\* Two rings get other totals.
LEMMA CountMove ==
    ASSUME Inv, Inv', KeysInv, NEW r \in RingIndex, NEW s \in RingIndex, r # s,
           \A u \in RingIndex : u # r /\ u # s => RingKeysStatus'[u].total = RingKeysStatus[u].total,
           RingKeysStatus'[r].total + RingKeysStatus'[s].total
               = RingKeysStatus[r].total + RingKeysStatus[s].total,
           ActiveMembers' = ActiveMembers
    PROVE  Counted'
  <1>1. PICK totals : totals = [u \in RingIndex |-> RingKeysStatus[u].total]
    OBVIOUS
  <1>2. PICK after : after = [u \in RingIndex |-> RingKeysStatus'[u].total]
    OBVIOUS
  <1>3. PICK between : between = [u \in RingIndex |-> IF u = r THEN after[r] ELSE totals[u]]
    OBVIOUS
  <1>4. Filled = FilledBy(totals) /\ Filled' = FilledBy(after)
    BY <1>1, <1>2 DEF Filled, FilledBy
  <1>5. /\ \A u \in RingIndex : totals[u] \in 0 .. RingCapacity /\ after[u] \in 0 .. RingCapacity
        /\ \A u \in RingIndex : u # r /\ u # s => after[u] = totals[u]
    BY <1>1, <1>2 DEF Inv, RingTypes, Status
  <1>6. /\ \A u \in RingIndex : between[u] \in 0 .. RingCapacity
        /\ between[r] = after[r] /\ between[s] = totals[s]
        /\ \A u \in RingIndex : u # r => between[u] = totals[u]
        /\ \A u \in RingIndex : u # s => after[u] = between[u]
    BY <1>3, <1>5
  <1>7. /\ Cardinality(FilledBy(totals)) \in Nat /\ Cardinality(FilledBy(between)) \in Nat
        /\ Cardinality(FilledBy(between)) = Cardinality(FilledBy(totals)) - totals[r] + between[r]
    BY <1>5, <1>6, TotalChange
  <1>8. /\ Cardinality(FilledBy(after)) \in Nat
        /\ Cardinality(FilledBy(after)) = Cardinality(FilledBy(between)) - between[s] + after[s]
    BY <1>5, <1>6, TotalChange
  <1>9. after[r] + after[s] = totals[r] + totals[s]
    BY <1>1, <1>2
  <1>10. /\ totals[r] \in Nat /\ totals[s] \in Nat /\ after[r] \in Nat /\ after[s] \in Nat
    BY <1>5, Sizes
  <1>11. Cardinality(FilledBy(after)) = Cardinality(FilledBy(totals))
    BY <1>6, <1>7, <1>8, <1>9, <1>10
  <1> QED
    BY <1>4, <1>7, <1>11 DEF KeysInv, Counted

LEMMA MergeRingKeys ==
    ASSUME Inv, Inv', KeysInv, NEW base \in RingIndex, NEW target \in RingIndex,
           merge_rings(base, target)
    PROVE  KeysInv'
  <1>1. PICK moved \in Seq(MemberKey), old \in Seq(MemberKey) :
            moved = RingKeys[target][0] /\ old = RingKeys[base][0]
    BY KeyTypes, Sizes
  <1>2. PICK start \in Nat, more \in Nat : start = Len(old) /\ more = Len(moved)
    OBVIOUS
  <1>3. PICK joined \in Seq(MemberKey) : joined = old \o moved
    <2>1. old \o moved \in Seq(MemberKey)
      OBVIOUS
    <2> QED
      BY <2>1
  <1>4. /\ lifecycle = "Live" /\ Flexible /\ Standing /\ base # target
        /\ CanMerge(base) /\ CanMerge(target)
        /\ Members' = [m \in MemberKey |->
                          IF \E i \in 1 .. Len(moved) : moved[i] = m
                          THEN MergedAt(base, start, CHOOSE i \in 1 .. Len(moved) : moved[i] = m)
                          ELSE Members[m]]
        /\ RingKeys' = [RingKeys EXCEPT ![base][0] = joined, ![target][0] = <<>>]
        /\ RingKeysStatus' = [RingKeysStatus EXCEPT ![base].total = @ + Len(moved),
                                                    ![target] = NoStatus]
        /\ StatusKeys' = (StatusKeys \union {base}) \ {target}
        /\ Root' = [Root EXCEPT ![target] = NoRoot]
        /\ StaleRings' = (StaleRings \union {base}) \ {target}
        /\ UNCHANGED <<CurrentRingIndex, PendingSuspensions, ActiveMembers,
                       RingDeletionQueue, queue, lifecycle>>
    <2>1. RingKeys' = [RingKeys EXCEPT ![base][0] = @ \o moved, ![target][0] = <<>>]
      BY <1>1 DEF merge_rings
    <2>2. RingKeys' = [RingKeys EXCEPT ![base][0] = joined, ![target][0] = <<>>]
      BY <1>1, <1>3, <2>1
    <2> QED
      BY <1>1, <1>2, <2>2 DEF merge_rings, config, Flexible, Standing
  <1>27. UNCHANGED PendingSuspensions /\ StatusKeys' = (StatusKeys \union {base}) \ {target}
    BY <1>4
  <1>5. /\ PendingSuspensions[base] = {} /\ PendingSuspensions[target] = {}
        /\ base # CurrentRingIndex /\ target # CurrentRingIndex
        /\ start > 0 /\ more > 0
    <2>1. start \in 1 .. (RingCapacity \div 2) - 1 /\ more \in 1 .. (RingCapacity \div 2) - 1
      BY <1>1, <1>2, <1>4 DEF CanMerge
    <2> QED
      BY <1>4, <2>1 DEF CanMerge
  <1>6. /\ RingKeysStatus[base].total = start /\ RingKeysStatus[target].total = more
        /\ \A r \in {base, target} : \A p \in RingPage : p # 0 => Len(RingKeys[r][p]) = 0
        /\ base \in StatusKeys /\ target \in StatusKeys
    <2>1. /\ Len(RingKeys[base][0]) = RingKeysStatus[base].total
          /\ \A p \in RingPage : p # 0 => Len(RingKeys[base][p]) = 0
          /\ RingKeysStatus[base].total > 0 => base \in StatusKeys
      BY <1>4, OnePage
    <2>2. /\ Len(RingKeys[target][0]) = RingKeysStatus[target].total
          /\ \A p \in RingPage : p # 0 => Len(RingKeys[target][p]) = 0
          /\ RingKeysStatus[target].total > 0 => target \in StatusKeys
      BY <1>4, OnePage
    <2> QED
      BY <1>1, <1>2, <1>5, <2>1, <2>2
  <1>7. 0 \in RingPage
    BY Sizes
  <1>8. /\ RingKeys'[base][0] = joined /\ RingKeys'[target][0] = <<>>
        /\ \A p \in RingPage : p # 0 => /\ RingKeys'[base][p] = RingKeys[base][p]
                                        /\ RingKeys'[target][p] = RingKeys[target][p]
        /\ \A s \in RingIndex : s # base /\ s # target => RingKeys'[s] = RingKeys[s]
    BY <1>4, <1>7 DEF Inv, RingTypes
  <1>9. /\ Len(joined) = start + more
        /\ \A i \in 1 .. start : joined[i] = old[i]
        /\ \A i \in 1 .. more : joined[start + i] = moved[i]
    BY <1>2, <1>3
  <1>10. ASSUME NEW i \in Nat, i < more
         PROVE  moved[i + 1] \in MemberKey /\ Members[moved[i + 1]] = Included(target, 0, i)
    BY <1>1, <1>2, <1>5, <1>6, <1>7, <1>10, KeyTypes DEF KeysInv, RingPart, Known
  <1>11. ASSUME NEW x \in 1 .. more
         PROVE  \E i \in Nat : /\ i < more /\ x = i + 1 /\ moved[x] \in MemberKey
                               /\ Members[moved[x]] = Included(target, 0, i)
    <2>1. PICK i \in Nat : i < more /\ x = i + 1
      <3>1. x - 1 \in Nat /\ x - 1 < more /\ x = (x - 1) + 1
        OBVIOUS
      <3> QED
        BY <3>1
    <2> QED
      BY <1>10, <2>1
  <1>12. \A x, y \in 1 .. more : moved[x] = moved[y] => x = y
    BY <1>11, EntryKinds
  <1>13. ASSUME NEW x \in 1 .. more
         PROVE  Members'[moved[x]] = Included(base, 0, start + x - 1)
    <2>1. moved[x] \in MemberKey
      BY <1>11
    <2>2. (CHOOSE i \in 1 .. more : moved[i] = moved[x]) = x
      BY <1>12
    <2> QED
      BY <1>2, <1>4, <2>1, <2>2 DEF MergedAt
  <1>14. \A m \in MemberKey : (\A x \in 1 .. more : moved[x] # m) => Members'[m] = Members[m]
    BY <1>2, <1>4
  <1>15. EntriesOK'
    <2>1. ASSUME NEW m \in MemberKey PROVE EntryOK(m)'
      <3>1. CASE \E x \in 1 .. more : moved[x] = m
        <4>1. PICK x \in 1 .. more : moved[x] = m
          BY <3>1
        <4>2. start + x - 1 \in Nat
          OBVIOUS
        <4> QED
          BY <1>7, <1>13, <4>1, <4>2 DEF EntryOK
      <3>2. CASE \A x \in 1 .. more : moved[x] # m
        BY <1>14, <3>2 DEF EntryOK, KeysInv, EntriesOK
      <3> QED
        BY <3>1, <3>2
    <2>2. Members' = [m \in MemberKey |-> Members'[m]]
      BY <1>4
    <2> QED
      BY <2>1, <2>2 DEF EntriesOK
  <1>16. Held'
    <2> SUFFICES ASSUME NEW m \in MemberKey, NEW s \in RingIndex, NEW p \in RingPage, NEW i \in Nat,
                        Members'[m] = Included(s, p, i)
                 PROVE  /\ i < Len(RingKeys'[s][p]) /\ RingKeys'[s][p][i + 1] = m
                        /\ i \notin PendingSuspensions[s]
      BY <1>27 DEF Held
    <2>1. CASE \E x \in 1 .. more : moved[x] = m
      <3>1. PICK x \in 1 .. more : moved[x] = m
        BY <2>1
      <3>2. Included(s, p, i) = Included(base, 0, start + x - 1)
        BY <1>13, <3>1
      <3>3. s = base /\ p = 0 /\ i = start + x - 1
        BY <3>2, EntryKinds
      <3>4. i < start + more /\ joined[i + 1] = m
        <4>1. i < start + more /\ i + 1 = start + x
          BY <3>3
        <4> QED
          BY <1>9, <3>1, <4>1
      <3> QED
        BY <1>5, <1>8, <1>9, <3>3, <3>4
    <2>2. CASE \A x \in 1 .. more : moved[x] # m
      <3>1. Members[m] = Included(s, p, i)
        BY <1>14, <2>2
      <3>2. i < Len(RingKeys[s][p]) /\ RingKeys[s][p][i + 1] = m /\ i \notin PendingSuspensions[s]
        BY <3>1 DEF KeysInv, RingPart, Held
      <3>3. s # target
        <4> SUFFICES ASSUME s = target PROVE FALSE
          OBVIOUS
        <4>1. p = 0
          BY <1>6, <3>2
        <4>2. i < more /\ moved[i + 1] = m
          BY <1>1, <1>2, <3>2, <4>1
        <4>3. i + 1 \in 1 .. more
          BY <4>2
        <4> QED
          BY <2>2, <4>2, <4>3
      <3>4. CASE s = base
        <4>1. p = 0
          BY <1>6, <3>2, <3>4
        <4>2. i < start /\ old[i + 1] = m
          BY <1>1, <1>2, <3>2, <3>4, <4>1
        <4>3. i + 1 \in 1 .. start /\ i < start + more
          BY <4>2
        <4> QED
          BY <1>8, <1>9, <3>2, <3>4, <4>1, <4>2, <4>3
      <3>5. CASE s # base
        BY <1>8, <3>2, <3>3, <3>5
      <3> QED
        BY <3>4, <3>5
    <2> QED
      BY <2>1, <2>2
  <1>17. ASSUME NEW s \in StatusKeys, s # target, NEW p \in RingPage, NEW i \in Nat,
                i < Len(RingKeys[s][p]), i \notin PendingSuspensions[s]
         PROVE  Members'[RingKeys[s][p][i + 1]] = Included(s, p, i)
    <2>1. PICK k \in MemberKey : k = RingKeys[s][p][i + 1]
      BY <1>17, KeyTypes
    <2>2. Members[k] = Included(s, p, i)
      BY <1>17, <2>1 DEF KeysInv, RingPart, Known
    <2>3. \A x \in 1 .. more : moved[x] # k
      BY <1>11, <1>17, <2>2, EntryKinds
    <2> QED
      BY <1>14, <2>1, <2>2, <2>3
  <1>18. Known'
    <2> SUFFICES ASSUME NEW s \in StatusKeys, s # target, NEW p \in RingPage, NEW i \in Nat,
                        i < Len(RingKeys'[s][p]), i \notin PendingSuspensions[s]
                 PROVE  Members'[RingKeys'[s][p][i + 1]] = Included(s, p, i)
      BY <1>6, <1>27 DEF Known
    <2>1. s \in RingIndex
      BY KeyTypes
    <2>2. CASE s # base
      BY <1>8, <1>17, <2>1, <2>2
    <2>3. CASE s = base
      <3>1. p = 0
        BY <1>6, <1>8, <2>3
      <3>2. i < start + more
        BY <1>8, <1>9, <2>3, <3>1
      <3>3. CASE i < start
        <4>1. i + 1 \in 1 .. start
          BY <3>3
        <4>2. RingKeys'[s][p][i + 1] = RingKeys[s][p][i + 1] /\ i < Len(RingKeys[s][p])
          BY <1>1, <1>2, <1>8, <1>9, <2>3, <3>1, <3>3, <4>1
        <4> QED
          BY <1>17, <4>2
      <3>4. CASE ~ (i < start)
        <4>1. PICK x \in 1 .. more : i + 1 = start + x
          <5>1. i + 1 - start \in 1 .. more /\ i + 1 = start + (i + 1 - start)
            BY <3>2, <3>4
          <5> QED
            BY <5>1
        <4>2. RingKeys'[s][p][i + 1] = moved[x] /\ start + x - 1 = i
          BY <1>8, <1>9, <2>3, <3>1, <4>1
        <4> QED
          BY <1>13, <2>3, <3>1, <4>2
      <3> QED
        BY <3>3, <3>4
    <2> QED
      BY <2>2, <2>3
  <1>19. PendingOK'
    <2> SUFFICES ASSUME NEW s \in RingIndex, NEW i \in PendingSuspensions[s]
                 PROVE  i \in Nat /\ i < Len(RingKeys'[s][0])
      BY <1>4 DEF PendingOK
    <2>1. s # base /\ s # target
      BY <1>5
    <2> QED
      BY <1>8, <2>1 DEF KeysInv, RingPart, PendingOK
  <1>20. /\ RingKeysStatus'[base].total = start + more
         /\ RingKeysStatus'[base].included = RingKeysStatus[base].included
         /\ RingKeysStatus'[target] = NoStatus /\ NoStatus.total = 0 /\ NoStatus.included = 0
         /\ \A s \in RingIndex : s # base /\ s # target => RingKeysStatus'[s] = RingKeysStatus[s]
         /\ Root'[target] = NoRoot /\ NoRoot.keys = <<>>
         /\ \A s \in RingIndex : s # target => Root'[s] = Root[s]
    <2>1. RingKeysStatus \in [RingIndex -> Status] /\ RingKeysStatus[base] \in Status
          /\ Root = [s \in RingIndex |-> Root[s]]
      BY DEF Inv, RingTypes, RootTypes
    <2> QED
      BY <1>2, <1>4, <1>6, <2>1 DEF Status, NoStatus, NoRoot
  <1>21. ASSUME NEW s \in RingIndex \ StatusKeys' PROVE GoneOK(s)'
    <2>1. CASE s = target
      <3>1. \A p \in RingPage : RingKeys'[target][p] = <<>>
        <4>1. \A p \in RingPage : p # 0 => RingKeys[target][p] = <<>>
          <5> SUFFICES ASSUME NEW p \in RingPage, p # 0 PROVE RingKeys[target][p] = <<>>
            OBVIOUS
          <5>1. RingKeys[target][p] \in Seq(MemberKey) /\ Len(RingKeys[target][p]) = 0
            BY <1>6, KeyTypes
          <5> QED
            BY <5>1
        <4> QED
          BY <1>8, <4>1
      <3> QED
        BY <1>4, <1>5, <1>20, <2>1, <3>1 DEF GoneOK
    <2>2. CASE s # target
      <3>1. s # base /\ s \notin StatusKeys
        BY <1>4, <1>6, <2>2
      <3>2. GoneOK(s)
        BY <3>1 DEF KeysInv, RingPart
      <3> QED
        BY <1>4, <1>8, <1>20, <2>2, <3>1, <3>2 DEF GoneOK
    <2> QED
      BY <2>1, <2>2
  <1>22. ASSUME NEW s \in RingIndex PROVE RootedOK(s)'
    <2>1. RootedOK(s)
      BY DEF KeysInv
    <2>2. CASE s = target
      <3>1. s \in RingIndex \ StatusKeys' /\ Root'[s].keys = <<>> /\ RingKeysStatus'[s].included = 0
        BY <1>4, <1>20, <2>2
      <3> QED
        BY <3>1, GoneRooted
    <2>3. CASE s = base
      <3>1. Paged(s)
        BY <1>6, <2>3, RingFacts DEF RingOK, PlaceOK
      <3>2. ASSUME NEW p \in RingPage, NEW i \in Nat, i < Len(RingKeys[s][p])
            PROVE  RingKeys'[s][p][i + 1] = RingKeys[s][p][i + 1]
        <4>1. p = 0
          BY <1>6, <2>3, <3>2
        <4>2. i + 1 \in 1 .. start
          BY <1>1, <1>2, <2>3, <3>2, <4>1
        <4> QED
          BY <1>1, <1>8, <1>9, <2>3, <4>1, <4>2
      <3> QED
        BY <1>4, <1>20, <2>1, <2>3, <3>1, <3>2, RootStays
    <2>4. CASE s # base /\ s # target
      BY <1>8, <1>20, <2>1, <2>4, RootFrame
    <2> QED
      BY <2>2, <2>3, <2>4
  <1>23. Counted'
    <2>1. RingKeysStatus'[base].total + RingKeysStatus'[target].total
              = RingKeysStatus[base].total + RingKeysStatus[target].total
      BY <1>6, <1>20
    <2> QED
      BY <1>4, <1>20, <2>1, CountMove
  <1>24. SameOnboarding
    <2> SUFFICES ASSUME NEW m \in MemberKey, NEW q \in QueuePage, NEW t \in Nat
                 PROVE  Members'[m] = Onboarding(q, t) <=> Members[m] = Onboarding(q, t)
      BY DEF SameOnboarding
    <2>1. CASE \E x \in 1 .. more : moved[x] = m
      <3>1. PICK x \in 1 .. more : moved[x] = m
        BY <2>1
      <3>2. Members'[m] = Included(base, 0, start + x - 1)
        BY <1>13, <3>1
      <3>3. \E i \in Nat : Members[m] = Included(target, 0, i)
        BY <1>11, <3>1
      <3> QED
        BY <3>2, <3>3, EntryKinds
    <2>2. CASE \A x \in 1 .. more : moved[x] # m
      BY <1>14, <2>2
    <2> QED
      BY <2>1, <2>2
  <1>25. QueuePart'
    BY <1>4, <1>24, QueueFrame DEF KeysInv
  <1>26. RoomOK' /\ Ended'
    <2>1. CurrentRingIndex \in RingIndex
      BY DEF Inv, RingTypes
    <2> QED
      BY <1>4, <1>5, <1>20, <2>1 DEF KeysInv, RoomOK, Ended
  <1> QED
    BY <1>15, <1>16, <1>18, <1>19, <1>21, <1>22, <1>23, <1>25, <1>26 DEF KeysInv, RingPart

-----------------------------------------------------------------------------
(* Removing the suspended keys of a ring *)

LEMMA Interval ==
    ASSUME NEW n \in Nat
    PROVE  IsFiniteSet(0 .. n - 1) /\ Cardinality(0 .. n - 1) = n
  <1>1. 0 \in Int /\ n - 1 \in Int
    OBVIOUS
  <1>2. /\ IsFiniteSet(0 .. n - 1)
        /\ Cardinality(0 .. n - 1) = IF 0 > n - 1 THEN 0 ELSE (n - 1) - 0 + 1
    BY ONLY <1>1, FS_Interval, Zenon
  <1> QED
    BY <1>2

\* The numbering of a finite set of numbers is one-to-one.
LEMMA Numbering ==
    ASSUME NEW S \in SUBSET Nat, IsFiniteSet(S), NEW size \in Nat, Cardinality(S) = size
    PROVE  \E place \in [0 .. size - 1 -> S] :
               /\ \A n \in 0 .. size - 1 : place[n] = Kept(S, n)
               /\ \A n, k \in 0 .. size - 1 : place[n] = place[k] => n = k
               /\ \A i \in S : \E n \in 0 .. size - 1 : place[n] = i
  <1>1. \A n \in 0 .. size - 1 : Kept(S, n) \in S /\ Cardinality({j \in S : j < Kept(S, n)}) = n
    BY Ranks
  <1>2. PICK place : place = [n \in 0 .. size - 1 |-> Kept(S, n)]
    OBVIOUS
  <1>3. place \in [0 .. size - 1 -> S]
    BY <1>1, <1>2
  <1>4. \A n \in 0 .. size - 1 : place[n] = Kept(S, n)
    BY <1>2
  <1>5. \A n, k \in 0 .. size - 1 : place[n] = place[k] => n = k
    BY <1>1, <1>4, Zenon
  <1>6. IsFiniteSet(0 .. size - 1) /\ Cardinality(0 .. size - 1) = size
    BY Interval
  <1>7. place \in Injection(0 .. size - 1, S)
    BY <1>3, <1>5 DEF Injection, IsInjective
  <1>8. place \in Surjection(0 .. size - 1, S)
    <2>1. Cardinality(S) = Cardinality(0 .. size - 1)
      BY <1>6
    <2> QED
      BY <1>6, <1>7, <2>1, FS_Injection
  <1>9. \A i \in S : \E n \in 0 .. size - 1 : place[n] = i
    BY <1>8 DEF Surjection
  <1> QED
    BY <1>3, <1>4, <1>5, <1>9

LEMMA RemoveSuspendedRingKeys ==
    ASSUME Inv, Inv', KeysInv, NEW r \in RingIndex, remove_suspended_keys(r)
    PROVE  KeysInv'
  <1>1. PICK keys \in Seq(MemberKey) : keys = RingKeys[r][0]
    BY KeyTypes, Sizes
  <1>2. PICK len \in Nat : len = Len(keys)
    OBVIOUS
  <1>3. PICK kept : kept = (0 .. len - 1) \ PendingSuspensions[r]
    OBVIOUS
  <1>4. kept \in SUBSET Nat /\ kept \in SUBSET (0 .. len - 1)
    BY <1>3
  <1>5. IsFiniteSet(kept)
    <2>1. IsFiniteSet(0 .. len - 1)
      BY Interval
    <2> QED
      BY <1>4, <2>1, FS_Subset
  <1>6. PICK new_total \in Nat : Cardinality(kept) = new_total
    BY <1>5, FS_CardinalityType
  <1>7. PICK place \in [0 .. new_total - 1 -> kept] :
            /\ \A n \in 0 .. new_total - 1 : place[n] = Kept(kept, n)
            /\ \A n, k \in 0 .. new_total - 1 : place[n] = place[k] => n = k
            /\ \A i \in kept : \E n \in 0 .. new_total - 1 : place[n] = i
    BY <1>4, <1>5, <1>6, Numbering
  <1>8. PICK closed : closed = [n \in 1 .. new_total |-> keys[Kept(kept, n - 1) + 1]]
    OBVIOUS
  <1>9. /\ lifecycle = "Live" /\ PendingSuspensions[r] # {}
        /\ Members' = [m \in MemberKey |->
                          IF /\ Members[m].at = "Included"
                             /\ Members[m].ring_index = r
                             /\ \E n \in 0 .. new_total - 1 : keys[Kept(kept, n) + 1] = m
                          THEN Shifted(m, CHOOSE n \in 0 .. new_total - 1 :
                                              keys[Kept(kept, n) + 1] = m)
                          ELSE Members[m]]
        /\ RingKeys' = [RingKeys EXCEPT ![r][0] = closed]
        /\ RingKeysStatus' = [RingKeysStatus EXCEPT ![r].total = new_total, ![r].included = 0]
        /\ StatusKeys' = StatusKeys \union {r}
        /\ ActiveMembers' = SaturatingSub(ActiveMembers,
                                SaturatingSub(RingKeysStatus[r].total, new_total))
        /\ Root' = [Root EXCEPT ![r] = Restarted(@)]
        /\ StaleRings' = IF new_total > 0 THEN StaleRings \union {r} ELSE StaleRings
        /\ PendingSuspensions' = [PendingSuspensions EXCEPT ![r] = {}]
        /\ UNCHANGED <<lifecycle, CurrentRingIndex, RingDeletionQueue, queue>>
    BY <1>1, <1>2, <1>3, <1>6, <1>8 DEF remove_suspended_keys, config
  <1>10. /\ RingTypes /\ RootTypes /\ StatusOK(r) /\ 0 \in RingPage
    BY RingFacts, Sizes DEF RingOK, Inv
  <1>11. Flexible /\ Standing
    BY <1>9, <1>10 DEF StatusOK, Standing
  <1>12. /\ RingKeysStatus[r].total = len
         /\ \A p \in RingPage : p # 0 => Len(RingKeys[r][p]) = 0
         /\ r \in StatusKeys
    <2>1. /\ Len(RingKeys[r][0]) = RingKeysStatus[r].total
          /\ \A p \in RingPage : p # 0 => Len(RingKeys[r][p]) = 0
          /\ RingKeysStatus[r].total > 0 => r \in StatusKeys
      BY <1>11, OnePage
    <2>2. len > 0
      BY <1>1, <1>2, <1>9 DEF KeysInv, RingPart, PendingOK
    <2> QED
      BY <1>1, <1>2, <2>1, <2>2
  <1>13. /\ PendingSuspensions'[r] = {}
         /\ \A s \in RingIndex : s # r => PendingSuspensions'[s] = PendingSuspensions[s]
         /\ StatusKeys' = StatusKeys
         /\ \A s \in RingIndex : s # r => (s \in StaleRings' <=> s \in StaleRings)
    BY <1>9, <1>10, <1>12 DEF RingTypes
  <1>14. /\ RingKeys'[r][0] = closed
         /\ \A p \in RingPage : p # 0 => RingKeys'[r][p] = RingKeys[r][p]
         /\ \A s \in RingIndex : s # r => RingKeys'[s] = RingKeys[s]
    BY <1>9, <1>10 DEF RingTypes
  <1>15. ASSUME NEW i \in kept
         PROVE  /\ i \in Nat /\ i < len /\ i \notin PendingSuspensions[r]
                /\ keys[i + 1] \in MemberKey /\ Members[keys[i + 1]] = Included(r, 0, i)
    <2>1. i \in Nat /\ i < len /\ i \notin PendingSuspensions[r]
      BY <1>3
    <2> QED
      BY <1>1, <1>2, <1>10, <1>12, <2>1, KeyTypes DEF KeysInv, RingPart, Known
  <1>16. PICK stays \in [0 .. new_total - 1 -> MemberKey] :
             \A n \in 0 .. new_total - 1 : /\ stays[n] = keys[Kept(kept, n) + 1]
                                           /\ Members[stays[n]] = Included(r, 0, place[n])
    <2>1. \A n \in 0 .. new_total - 1 :
              /\ place[n] \in kept
              /\ keys[place[n] + 1] \in MemberKey
              /\ Members[keys[place[n] + 1]] = Included(r, 0, place[n])
      BY <1>7, <1>15
    <2>2. PICK stays : stays = [n \in 0 .. new_total - 1 |-> keys[place[n] + 1]]
      OBVIOUS
    <2>3. stays \in [0 .. new_total - 1 -> MemberKey]
      BY <2>1, <2>2
    <2>4. \A n \in 0 .. new_total - 1 : stays[n] = keys[place[n] + 1]
      BY <2>2
    <2> QED
      BY <1>7, <2>1, <2>3, <2>4
  <1>17. \A n, k \in 0 .. new_total - 1 : stays[n] = stays[k] => n = k
    <2> SUFFICES ASSUME NEW n \in 0 .. new_total - 1, NEW k \in 0 .. new_total - 1,
                        stays[n] = stays[k]
                 PROVE  n = k
      OBVIOUS
    <2>1. Included(r, 0, place[n]) = Included(r, 0, place[k])
      BY <1>16
    <2>2. place[n] = place[k]
      BY <2>1, EntryKinds
    <2> QED
      BY <1>7, <2>2
  <1>18. ASSUME NEW n \in 0 .. new_total - 1
         PROVE  Members'[stays[n]] = Included(r, 0, n)
    <2>1. PICK m \in MemberKey : m = stays[n]
      BY <1>16
    <2>2. (CHOOSE k \in 0 .. new_total - 1 : keys[Kept(kept, k) + 1] = m) = n
      <3>1. \A k \in 0 .. new_total - 1 : keys[Kept(kept, k) + 1] = m <=> k = n
        BY <1>16, <1>17, <2>1
      <3> QED
        BY <3>1
    <2>3. Members[m] = Included(r, 0, place[n])
      BY <1>16, <2>1
    <2>4. Members[m].at = "Included" /\ Members[m].ring_index = r
      BY <2>3, EntryFields
    <2>5. \E k \in 0 .. new_total - 1 : keys[Kept(kept, k) + 1] = m
      BY <1>16, <2>1
    <2>6. Members'[m] = Shifted(m, n)
      BY <1>9, <2>2, <2>4, <2>5
    <2>7. Shifted(m, n) = Included(r, 0, n)
      BY <2>3 DEF Shifted, Included
    <2> QED
      BY <2>1, <2>6, <2>7
  <1>19. ASSUME NEW m \in MemberKey, \A n \in 0 .. new_total - 1 : stays[n] # m
         PROVE  Members'[m] = Members[m]
    <2>1. ~ \E n \in 0 .. new_total - 1 : keys[Kept(kept, n) + 1] = m
      BY <1>16, <1>19
    <2> QED
      BY <1>9, <2>1
  <1>20. /\ Len(closed) = new_total
         /\ \A n \in 0 .. new_total - 1 : closed[n + 1] = stays[n]
    <2>1. Len(closed) = new_total
      BY <1>8
    <2>2. ASSUME NEW n \in 0 .. new_total - 1 PROVE closed[n + 1] = stays[n]
      <3>1. n + 1 \in 1 .. new_total /\ (n + 1) - 1 = n
        OBVIOUS
      <3>2. closed[n + 1] = keys[Kept(kept, (n + 1) - 1) + 1]
        BY <1>8, <3>1
      <3> QED
        BY <1>16, <3>1, <3>2
    <2> QED
      BY <2>1, <2>2
  <1>21. EntriesOK'
    <2>1. ASSUME NEW m \in MemberKey PROVE EntryOK(m)'
      <3>1. CASE \E n \in 0 .. new_total - 1 : stays[n] = m
        <4>1. PICK n \in 0 .. new_total - 1 : stays[n] = m
          BY <3>1
        <4>2. n \in Nat
          OBVIOUS
        <4> QED
          BY <1>10, <1>18, <4>1, <4>2 DEF EntryOK
      <3>2. CASE \A n \in 0 .. new_total - 1 : stays[n] # m
        BY <1>19, <3>2 DEF EntryOK, KeysInv, EntriesOK
      <3> QED
        BY <3>1, <3>2
    <2>2. Members' = [m \in MemberKey |-> Members'[m]]
      BY <1>9
    <2> QED
      BY <2>1, <2>2 DEF EntriesOK
  <1>22. Held'
    <2> SUFFICES ASSUME NEW m \in MemberKey, NEW s \in RingIndex, NEW p \in RingPage, NEW i \in Nat,
                        Members'[m] = Included(s, p, i)
                 PROVE  /\ i < Len(RingKeys'[s][p]) /\ RingKeys'[s][p][i + 1] = m
                        /\ i \notin PendingSuspensions'[s]
      BY DEF Held
    <2>1. CASE \E n \in 0 .. new_total - 1 : stays[n] = m
      <3>1. PICK n \in 0 .. new_total - 1 : stays[n] = m
        BY <2>1
      <3>2. Included(s, p, i) = Included(r, 0, n)
        BY <1>18, <3>1
      <3>3. s = r /\ p = 0 /\ i = n
        BY <3>2, EntryKinds
      <3> QED
        BY <1>13, <1>14, <1>20, <3>1, <3>3
    <2>2. CASE \A n \in 0 .. new_total - 1 : stays[n] # m
      <3>1. Members[m] = Included(s, p, i)
        BY <1>19, <2>2
      <3>2. i < Len(RingKeys[s][p]) /\ RingKeys[s][p][i + 1] = m /\ i \notin PendingSuspensions[s]
        BY <3>1 DEF KeysInv, RingPart, Held
      <3>3. s # r
        <4> SUFFICES ASSUME s = r PROVE FALSE
          OBVIOUS
        <4>1. p = 0
          BY <1>12, <3>2
        <4>2. i < len /\ keys[i + 1] = m
          BY <1>1, <1>2, <3>2, <4>1
        <4>3. i \in kept
          BY <1>3, <3>2, <4>2
        <4>4. PICK n \in 0 .. new_total - 1 : place[n] = i
          BY <1>7, <4>3
        <4>5. stays[n] = m
          BY <1>7, <1>16, <4>2, <4>4
        <4> QED
          BY <2>2, <4>5
      <3> QED
        BY <1>13, <1>14, <3>2, <3>3
    <2> QED
      BY <2>1, <2>2
  <1>23. Known'
    <2> SUFFICES ASSUME NEW s \in StatusKeys, NEW p \in RingPage, NEW i \in Nat,
                        i < Len(RingKeys'[s][p]), i \notin PendingSuspensions'[s]
                 PROVE  Members'[RingKeys'[s][p][i + 1]] = Included(s, p, i)
      BY <1>13 DEF Known
    <2>1. s \in RingIndex
      BY KeyTypes
    <2>2. CASE s = r
      <3>1. p = 0
        BY <1>12, <1>14, <2>2
      <3>2. i \in 0 .. new_total - 1
        BY <1>14, <1>20, <2>2, <3>1
      <3>3. RingKeys'[s][p][i + 1] = stays[i]
        BY <1>14, <1>20, <2>2, <3>1, <3>2
      <3> QED
        BY <1>18, <2>2, <3>1, <3>2, <3>3
    <2>3. CASE s # r
      <3>1. i < Len(RingKeys[s][p]) /\ i \notin PendingSuspensions[s]
        BY <1>13, <1>14, <2>1, <2>3
      <3>2. PICK k \in MemberKey : k = RingKeys[s][p][i + 1]
        BY <2>1, <3>1, KeyTypes
      <3>3. Members[k] = Included(s, p, i)
        BY <3>1, <3>2 DEF KeysInv, RingPart, Known
      <3>4. \A n \in 0 .. new_total - 1 : stays[n] # k
        BY <1>16, <2>3, <3>3, EntryKinds
      <3> QED
        BY <1>14, <1>19, <2>1, <2>3, <3>2, <3>3, <3>4
    <2> QED
      BY <2>2, <2>3
  <1>24. PendingOK'
    <2> SUFFICES ASSUME NEW s \in RingIndex, NEW i \in PendingSuspensions'[s]
                 PROVE  i \in Nat /\ i < Len(RingKeys'[s][0])
      BY DEF PendingOK
    <2>1. s # r
      BY <1>13
    <2> QED
      BY <1>13, <1>14, <2>1 DEF KeysInv, RingPart, PendingOK
  <1>25. /\ RingKeysStatus'[r].total = new_total /\ RingKeysStatus'[r].included = 0
         /\ \A s \in RingIndex : s # r => RingKeysStatus'[s] = RingKeysStatus[s]
         /\ Root'[r] = Restarted(Root[r])
         /\ \A s \in RingIndex : s # r => Root'[s] = Root[s]
    <2>1. RingKeysStatus \in [RingIndex -> Status] /\ RingKeysStatus[r] \in Status
          /\ Root = [s \in RingIndex |-> Root[s]]
      BY <1>10 DEF RingTypes, RootTypes
    <2> QED
      BY <1>9, <2>1 DEF Status
  <1>26. ASSUME NEW s \in RingIndex \ StatusKeys' PROVE GoneOK(s)'
    <2>1. s # r /\ s \notin StatusKeys
      BY <1>12, <1>13
    <2>2. GoneOK(s)
      BY <2>1 DEF KeysInv, RingPart
    <2>3. UNCHANGED RingDeletionQueue
      BY <1>9
    <2> QED
      BY <1>13, <1>14, <1>25, <2>1, <2>2, <2>3 DEF GoneOK
  <1>27. ASSUME NEW s \in RingIndex PROVE RootedOK(s)'
    <2>1. CASE s = r
      <3>1. Root'[r].keys = <<>>
        BY <1>25 DEF Restarted, NoRoot
      <3>2. [i \in 1 .. 0 |-> KeyAt(r, i - 1)'] = <<>>
        BY 1 .. 0 = {}
      <3> QED
        BY <1>25, <2>1, <3>1, <3>2 DEF RootedOK
    <2>2. CASE s # r
      BY <1>14, <1>25, <2>2, RootFrame DEF KeysInv
    <2> QED
      BY <2>1, <2>2
  <1>28. new_total <= len
    <2>1. IsFiniteSet(0 .. len - 1) /\ Cardinality(0 .. len - 1) = len
      BY Interval
    <2> QED
      BY <1>4, <1>6, <2>1, FS_Subset
  <1>29. Counted'
    <2>1. len <= ActiveMembers /\ ActiveMembers \in Nat
      BY <1>12, CountBound
    <2>2. ActiveMembers' = ActiveMembers - RingKeysStatus[r].total + RingKeysStatus'[r].total
      <3>1. ActiveMembers' = SaturatingSub(ActiveMembers, SaturatingSub(len, new_total))
        BY <1>9, <1>12
      <3> QED
        BY <1>12, <1>25, <1>28, <2>1, <3>1 DEF SaturatingSub
    <2> QED
      BY <1>25, <2>2, CountStep
  <1>30. SameOnboarding
    <2> SUFFICES ASSUME NEW m \in MemberKey, NEW q \in QueuePage, NEW t \in Nat
                 PROVE  Members'[m] = Onboarding(q, t) <=> Members[m] = Onboarding(q, t)
      BY DEF SameOnboarding
    <2>1. CASE \E n \in 0 .. new_total - 1 : stays[n] = m
      <3>1. PICK n \in 0 .. new_total - 1 : stays[n] = m
        BY <2>1
      <3>2. Members'[m] = Included(r, 0, n) /\ Members[m] = Included(r, 0, place[n])
        BY <1>16, <1>18, <3>1
      <3> QED
        BY <3>2, EntryKinds
    <2>2. CASE \A n \in 0 .. new_total - 1 : stays[n] # m
      BY <1>19, <2>2
    <2> QED
      BY <2>1, <2>2
  <1>31. UNCHANGED <<lifecycle, CurrentRingIndex, queue>> /\ lifecycle = "Live"
    BY <1>9
  <1>32. QueuePart'
    BY <1>30, <1>31, QueueFrame DEF KeysInv
  <1>33. RoomOK' /\ Ended'
    <2>1. CurrentRingIndex \in RingIndex /\ RingKeysStatus[CurrentRingIndex].total < RingCapacity
          /\ RingCapacity \in Nat
      BY Sizes DEF Inv, RingTypes, KeysInv, RoomOK
    <2> QED
      BY <1>12, <1>25, <1>28, <1>31, <2>1 DEF RoomOK, Ended
  <1> QED
    BY <1>21, <1>22, <1>23, <1>24, <1>26, <1>27, <1>29, <1>32, <1>33 DEF KeysInv, RingPart

-----------------------------------------------------------------------------
(* The invariant and the properties *)

LEMMA InitKeys == Init => KeysInv
  <1> SUFFICES ASSUME Init PROVE KeysInv
    OBVIOUS
  <1>1. Inv
    BY InitInv
  <1>2. NoStatus.total = 0 /\ NoStatus.included = 0 /\ NoRoot.keys = <<>>
    BY DEF NoStatus, NoRoot
  <1>3. EntriesOK
    BY DEF Init, EntriesOK, EntryOK
  <1>4. /\ \A m \in MemberKey : Members[m] = Absent
        /\ \A r \in RingIndex, p \in RingPage : RingKeys[r][p] = <<>>
        /\ \A q \in QueuePage : OnboardingQueue[q] = <<>>
        /\ StatusKeys = {}
        /\ \A r \in RingIndex : PendingSuspensions[r] = {} /\ Root[r] = NoRoot /\ r \notin StaleRings
        /\ \A r \in RingIndex : RingKeysStatus[r] = NoStatus
    BY DEF Init
  <1>5. RingPart
    <2>1. Held
      BY <1>4, EntryKinds DEF Held
    <2>2. Known /\ PendingOK
      BY <1>4 DEF Known, PendingOK
    <2>3. \A r \in RingIndex : GoneOK(r)
      BY <1>4 DEF GoneOK
    <2> QED
      BY <2>1, <2>2, <2>3 DEF RingPart
  <1>6. QueuePart
    <2>1. Queued
      BY <1>4, EntryKinds DEF Queued
    <2>2. ASSUME NEW q \in QueuePage PROVE QueuePageOK(q)
      <3>1. OnboardingQueue[q] = <<>> /\ Len(OnboardingQueue[q]) = 0
        BY <1>4
      <3>2. \A i \in 1 .. Len(OnboardingQueue[q]) : FALSE
        BY <3>1
      <3>3. Len(OnboardingQueue[q]) <= OnboardingQueuePageSize
        BY <3>1, SizesAssumption
      <3> QED
        BY <3>1, <3>2, <3>3 DEF QueuePageOK
    <2> QED
      BY <1>1, <2>1, <2>2 DEF QueuePart, Inv
  <1>7. ASSUME NEW r \in RingIndex PROVE RootedOK(r)
    <2>1. [i \in 1 .. 0 |-> KeyAt(r, i - 1)] = <<>>
      BY 1 .. 0 = {}
    <2> QED
      BY <1>2, <1>4, <2>1 DEF RootedOK
  <1>8. Counted
    <2>1. Filled = {}
      <3> SUFFICES ASSUME NEW x \in RingIndex \X Position, x[2] < RingKeysStatus[x[1]].total
                   PROVE  FALSE
        BY DEF Filled
      <3>1. x[1] \in RingIndex /\ x[2] \in Position
        OBVIOUS
      <3>2. x[2] < 0
        BY <1>2, <1>4, <3>1
      <3> QED
        BY <3>1, <3>2, Sizes DEF Position
    <2>2. ActiveMembers = 0
      BY DEF Init
    <2> QED
      BY <2>1, <2>2, FS_EmptySet DEF Counted
  <1>9. RoomOK
    BY <1>1, <1>2, <1>4, Sizes DEF RoomOK, Inv, RingTypes
  <1>10. Ended
    BY DEF Init, Ended
  <1> QED
    BY <1>3, <1>5, <1>6, <1>7, <1>8, <1>9, <1>10 DEF KeysInv

LEMMA NextKeys == ASSUME Inv, KeysInv, [Next]_vars PROVE KeysInv'
  <1>1. Inv'
    BY NextStep DEF Step
  <1>2. CASE \/ \E size \in OnboardingSizes : create_collection(size) \/ set_onboarding_size(size)
             \/ start_removal_session \/ end_removal_session \/ delete_collection \/ tick
             \/ \E r \in RingIndex : clean_up_old_roots(r)
             \/ UNCHANGED vars
    BY <1>2, AsideCalls
  <1>3. CASE \E m \in MemberKey : add_members(m)
    BY <1>3, AddMembers
  <1>4. CASE \E m \in MemberKey : remove_members(m)
    <2>1. PICK m \in MemberKey : remove_members(m)
      BY <1>4
    <2>2. queue_member_suspension_included(m) \/ queue_member_suspension_onboarding(m)
      BY <2>1 DEF remove_members
    <2> QED
      BY <2>1, <2>2, SuspendIncluded, SuspendQueued
  <1>5. CASE \E r \in RingIndex : remove_ring(r)
    <2>1. PICK r \in RingIndex : remove_ring(r)
      BY <1>5
    <2>2. enqueue_ring_for_deletion(r) /\ lifecycle # "Retired"
      BY <2>1 DEF remove_ring
    <2> QED
      BY <1>1, <2>2, EnqueueKeys
  <1>6. CASE \E r \in RingIndex : enqueue_ring_deletion(r)
    <2>1. PICK r \in RingIndex : enqueue_ring_deletion(r)
      BY <1>6
    <2>2. enqueue_ring_for_deletion(r) /\ lifecycle # "Retired"
      BY <2>1 DEF enqueue_ring_deletion
    <2> QED
      BY <1>1, <2>2, EnqueueKeys
  <1>7. CASE \E base, target \in RingIndex : merge_rings(base, target)
    BY <1>1, <1>7, MergeRingKeys
  <1>8. CASE \E m \in MemberKey : self_include(m)
    BY <1>1, <1>8, SelfIncludeKeys
  <1>9. CASE merge_queue_pages
    BY <1>9, MergeQueueKeys
  <1>10. CASE onboard_members
    BY <1>1, <1>10, OnboardKeys
  <1>11. CASE \E r \in RingIndex : remove_suspended_keys(r)
    BY <1>1, <1>11, RemoveSuspendedRingKeys
  <1>12. CASE \E r \in RingIndex, n \in 1 .. RingBuildingMemberLimit : build_ring(r, n)
    BY <1>12, BuildKeys
  <1>13. CASE \E r \in RingIndex, p \in RingPage : delete_ring_page(r, p)
    BY <1>13, DeletePageKeys
  <1>14. CASE \E q \in QueuePage : delete_onboarding_queue_page(q)
    BY <1>1, <1>14, DeleteQueuePage
  <1>15. CASE remove_orphaned_members
    BY <1>1, <1>15, RemoveOrphans
  <1>16. CASE finalize_collection_deletion
    BY <1>1, <1>16, FinalizeKeys
  <1> QED
    BY <1>2, <1>3, <1>4, <1>5, <1>6, <1>7, <1>8, <1>9, <1>10, <1>11, <1>12, <1>13, <1>14, <1>15,
       <1>16 DEF Next

\* Every call of the pallet keeps entries, pages, totals, roots and the queue in agreement.
THEOREM KeysInvariant == Spec => [](Inv /\ KeysInv)
  <1>1. Inv /\ KeysInv /\ [Next]_vars => (Inv /\ KeysInv)'
    BY NextStep, NextKeys DEF Step
  <1> QED
    BY InitInv, InitKeys, <1>1, PTL DEF Spec

\* Every key is where its entry in Members says it is, once, and nowhere else, after every
\* sequence of calls (onboard_members, do_self_include, merge_rings, remove_suspended_keys,
\* merge_queue_pages, queue_member_suspension).
THEOREM MembersCorrect == Spec => []MembersExact
  <1>1. Inv /\ KeysInv => PositionsExact
    <2> SUFFICES ASSUME Inv, KeysInv PROVE PositionsExact
      OBVIOUS
    <2>1. /\ DOMAIN Members = MemberKey
          /\ \A r \in RingIndex : DOMAIN RingKeys[r] = RingPage
      BY DEF KeysInv, EntriesOK, Inv, RingTypes
    <2>2. ASSUME NEW m \in MemberKey, Members[m].at = "Included"
          PROVE  /\ Members[m].ring_position
                       < Len(RingKeys[Members[m].ring_index][Members[m].ring_page])
                 /\ RingKeys[Members[m].ring_index][Members[m].ring_page]
                       [Members[m].ring_position + 1] = m
                 /\ Members[m].ring_position \notin PendingSuspensions[Members[m].ring_index]
      <3>1. PICK r \in RingIndex, p \in RingPage, i \in Nat : Members[m] = Included(r, p, i)
        BY <2>2, EntryAt
      <3>2. i < Len(RingKeys[r][p]) /\ RingKeys[r][p][i + 1] = m /\ i \notin PendingSuspensions[r]
        BY <3>1 DEF KeysInv, RingPart, Held
      <3>3. /\ Members[m].ring_index = r /\ Members[m].ring_page = p
            /\ Members[m].ring_position = i
        BY <3>1, EntryFields
      <3> QED
        BY <3>2, <3>3
    <2>3. ASSUME NEW r \in StatusKeys, NEW p \in RingPage,
                 NEW i \in 0 .. Len(RingKeys[r][p]) - 1, i \notin PendingSuspensions[r]
          PROVE  Members[RingKeys[r][p][i + 1]] = Included(r, p, i)
      <3>1. r \in RingIndex /\ Len(RingKeys[r][p]) \in Nat
        BY KeyTypes
      <3>2. i \in Nat /\ i < Len(RingKeys[r][p])
        BY <3>1
      <3> QED
        BY <2>3, <3>2 DEF KeysInv, RingPart, Known
    <2>4. StatusKeys \subseteq RingIndex
      BY KeyTypes
    <2> QED
      BY <2>1, <2>2, <2>3, <2>4 DEF PositionsExact
  <1>2. Inv /\ KeysInv => QueueExact
    <2> SUFFICES ASSUME Inv, KeysInv PROVE QueueExact
      OBVIOUS
    <2>1. DOMAIN Members = MemberKey /\ DOMAIN OnboardingQueue = QueuePage
      BY DEF KeysInv, EntriesOK, Inv, QueueTypes
    <2>2. ASSUME NEW m \in MemberKey, Members[m].at = "Onboarding"
          PROVE  /\ IsQueued(Members[m].queue_page)
                 /\ \E i \in 1 .. Len(OnboardingQueue[Members[m].queue_page]) :
                        OnboardingQueue[Members[m].queue_page][i] = m
      <3>1. PICK q \in QueuePage, t \in Nat : Members[m] = Onboarding(q, t)
        BY <2>2, EntryAt
      <3>2. /\ IsQueued(q)
            /\ \E i \in 1 .. Len(OnboardingQueue[q]) : OnboardingQueue[q][i] = m
        BY <3>1 DEF KeysInv, QueuePart, Queued
      <3>3. Members[m].queue_page = q
        BY <3>1, EntryFields
      <3> QED
        BY <3>2, <3>3
    <2>3. ASSUME NEW q \in QueuePage
          PROVE  /\ OnboardingQueue[q] # <<>> => q \in QueueKeys
                 /\ \A i \in 1 .. Len(OnboardingQueue[q]) :
                        /\ Members[OnboardingQueue[q][i]].at = "Onboarding"
                        /\ Members[OnboardingQueue[q][i]].queue_page = q
                        /\ \A j \in 1 .. Len(OnboardingQueue[q]) :
                               OnboardingQueue[q][j] = OnboardingQueue[q][i] => j = i
      <3>1. QueuePageOK(q)
        BY DEF KeysInv, QueuePart
      <3>2. ASSUME NEW i \in 1 .. Len(OnboardingQueue[q])
            PROVE  /\ Members[OnboardingQueue[q][i]].at = "Onboarding"
                   /\ Members[OnboardingQueue[q][i]].queue_page = q
        <4>1. PICK t \in Nat : Members[OnboardingQueue[q][i]] = Onboarding(q, t)
          BY <3>1 DEF QueuePageOK
        <4> QED
          BY <4>1, EntryFields
      <3> QED
        BY <3>1, <3>2 DEF QueuePageOK
    <2> QED
      BY <2>1, <2>2, <2>3 DEF QueueExact
  <1> QED
    BY KeysInvariant, <1>1, <1>2, PTL DEF MembersExact

\* The position of a key in the pages of a ring, which are as long as the first but for the last.
LEMMA FullPages ==
    ASSUME Inv, NEW r \in RingIndex, Paged(r), NEW g \in Nat, g < RingKeysStatus[r].total
    PROVE  /\ g \div Len(RingKeys[r][0]) = g \div RingPageSize
           /\ g % Len(RingKeys[r][0]) = g % RingPageSize
  <1>1. PICK total \in Nat : total = RingKeysStatus[r].total
    BY RingFacts
  <1>2. RingPageSize \in Nat \ {0} /\ 0 \in RingPage
    BY Sizes
  <1>3. Len(RingKeys[r][0]) = Smaller(SaturatingSub(total, 0 * RingPageSize), RingPageSize)
    BY <1>1, <1>2 DEF Paged, InPage
  <1>4. Len(RingKeys[r][0]) = IF total <= RingPageSize THEN total ELSE RingPageSize
    BY <1>1, <1>2, <1>3 DEF Smaller, SaturatingSub
  <1>5. CASE total <= RingPageSize
    <2>1. g < total /\ g < RingPageSize
      BY <1>1, <1>2, <1>5
    <2>2. g \div total = 0 /\ g % total = g /\ g \div RingPageSize = 0 /\ g % RingPageSize = g
      BY <1>2, <2>1
    <2> QED
      BY <1>4, <1>5, <2>2
  <1>6. CASE ~ (total <= RingPageSize)
    BY <1>4, <1>6
  <1> QED
    BY <1>5, <1>6

\* The root of a ring commits to its first keys, as they are stored and in their order, whatever
\* was removed, merged or added since it was first built (build_ring, remove_suspended_keys,
\* merge_rings, enqueue_ring_for_deletion).
THEOREM RootsCorrect == Spec => []RootExact
  <1>1. Inv /\ KeysInv => RootExact
    <2> SUFFICES ASSUME Inv, KeysInv, NEW r \in RingIndex
                 PROVE  Root[r].keys =
                            [i \in 1 .. RingKeysStatus[r].included |->
                                RingKeys[r][(i - 1) \div Len(RingKeys[r][0])]
                                    [((i - 1) % Len(RingKeys[r][0])) + 1]]
      BY DEF RootExact, Inv, RootTypes
    <2>1. PICK n \in Nat : n = RingKeysStatus[r].included /\ n <= RingKeysStatus[r].total
      BY RingFacts DEF RingOK, StatusOK
    <2>2. Root[r].keys = [i \in 1 .. n |-> KeyAt(r, i - 1)]
      BY <2>1 DEF KeysInv, RootedOK
    <2>3. ASSUME NEW i \in 1 .. n
          PROVE  KeyAt(r, i - 1) = RingKeys[r][(i - 1) \div Len(RingKeys[r][0])]
                                       [((i - 1) % Len(RingKeys[r][0])) + 1]
      <3>1. PICK g \in Nat : g = i - 1 /\ g < RingKeysStatus[r].total
        BY <2>1, RingFacts
      <3>2. Paged(r)
        <4>1. RingKeysStatus[r] # NoStatus
          BY <3>1 DEF NoStatus
        <4> QED
          BY <4>1, RingFacts DEF RingOK, StatusOK, PlaceOK
      <3>3. /\ g \div Len(RingKeys[r][0]) = g \div RingPageSize
            /\ g % Len(RingKeys[r][0]) = g % RingPageSize
        BY <3>1, <3>2, FullPages
      <3> QED
        BY <3>1, <3>3 DEF KeyAt
    <2> QED
      BY <2>1, <2>2, <2>3
  <1> QED
    BY KeysInvariant, <1>1, PTL

StaleOK == StaleRings \subseteq RingIndex

LEMMA StaleStep == ASSUME Inv, StaleOK, [Next]_vars PROVE StaleOK'
  <1>1. CurrentRingIndex \in RingIndex
    BY DEF Inv, RingTypes
  <1>2. CASE StaleRings' = StaleRings
    BY <1>2 DEF StaleOK
  <1>3. CASE \E r \in RingIndex : StaleRings' \subseteq StaleRings \union {r}
    BY <1>3 DEF StaleOK
  <1>4. CASE \E base, target \in RingIndex : merge_rings(base, target)
    BY <1>3, <1>4 DEF merge_rings
  <1>5. CASE \E r \in RingIndex : remove_suspended_keys(r)
    BY <1>3, <1>5 DEF remove_suspended_keys
  <1>6. CASE \E r \in RingIndex, n \in 1 .. RingBuildingMemberLimit : build_ring(r, n)
    BY <1>3, <1>6 DEF build_ring, StaleAfterBuild
  <1>7. CASE \E r \in RingIndex : remove_ring(r) \/ enqueue_ring_deletion(r)
    BY <1>3, <1>7 DEF remove_ring, enqueue_ring_deletion, enqueue_ring_for_deletion
  <1>8. CASE (\E m \in MemberKey : self_include(m)) \/ onboard_members
    <2>1. PICK keys : PushToRing(keys)
      BY <1>8 DEF self_include, onboard_members
    <2> QED
      BY <1>1, <1>3, <2>1 DEF PushToRing
  <1>9. CASE \/ \E size \in OnboardingSizes : create_collection(size) \/ set_onboarding_size(size)
             \/ start_removal_session \/ end_removal_session \/ delete_collection \/ tick
             \/ \E r \in RingIndex : clean_up_old_roots(r)
             \/ UNCHANGED vars
    BY <1>2, <1>9 DEF create_collection, set_onboarding_size, start_removal_session,
       end_removal_session, delete_collection, tick, clean_up_old_roots, vars, rings
  <1>10. CASE \E m \in MemberKey : add_members(m) \/ remove_members(m)
    BY <1>2, <1>10 DEF add_members, remove_members, queue_member_suspension_included,
       queue_member_suspension_onboarding, rings
  <1>11. CASE \/ merge_queue_pages
              \/ \E r \in RingIndex, p \in RingPage : delete_ring_page(r, p)
              \/ \E q \in QueuePage : delete_onboarding_queue_page(q)
              \/ remove_orphaned_members
              \/ finalize_collection_deletion
    BY <1>2, <1>11 DEF merge_queue_pages, delete_ring_page, delete_onboarding_queue_page,
       remove_orphaned_members, finalize_collection_deletion, rings
  <1> QED
    BY <1>4, <1>5, <1>6, <1>7, <1>8, <1>9, <1>10, <1>11 DEF Next

\* A deleted collection leaves no key, page, suspension, root or stale mark behind, though
\* finalize_collection_deletion looks at four of the storage items only.
THEOREM NoResidueCorrect == Spec => []NoResidue
  <1>1. Inv /\ KeysInv /\ StaleOK => NoResidue
    <2> SUFFICES ASSUME Inv, KeysInv, StaleOK, lifecycle = "Retired" PROVE NoResidue
      BY DEF NoResidue
    <2>1. StatusKeys = {} /\ RingDeletionQueue = {} /\ QueueKeys = {}
      BY DEF KeysInv, Ended
    <2>2. \A r \in RingIndex : GoneOK(r)
      BY <2>1 DEF KeysInv, RingPart
    <2>3. /\ DOMAIN RingKeys = RingIndex /\ \A r \in RingIndex : DOMAIN RingKeys[r] = RingPage
          /\ DOMAIN OnboardingQueue = QueuePage /\ StaleRings \subseteq RingIndex
      BY DEF Inv, RingTypes, QueueTypes, StaleOK
    <2>4. \A q \in QueuePage : OnboardingQueue[q] = <<>>
      BY <2>1 DEF KeysInv, QueuePart, QueuePageOK
    <2> QED
      BY <2>1, <2>2, <2>3, <2>4 DEF NoResidue, GoneOK
  <1>2. Init => StaleOK
    BY DEF Init, StaleOK
  <1>3. (Inv /\ KeysInv) /\ StaleOK /\ [Next]_vars => StaleOK'
    BY StaleStep
  <1> QED
    BY KeysInvariant, <1>1, <1>2, <1>3, PTL DEF Spec

\* The totals of the rings are those of their pages, the active members are the keys of all rings,
\* no page of the queue is overfull and the ring that is being filled has room (available_ring,
\* onboard_members, build_ring).
THEOREM CountsCorrect == Spec => []CountsExact
  <1>1. Inv /\ KeysInv => CountsExact
    <2> SUFFICES ASSUME Inv, KeysInv PROVE CountsExact
      OBVIOUS
    <2>1. StatusKeys \subseteq RingIndex
      BY KeyTypes
    <2>2. ASSUME NEW r \in StatusKeys
          PROVE  /\ RingKeysStatus[r].included <= RingKeysStatus[r].total
                 /\ \A p \in RingPage : Len(RingKeys[r][p]) = InPage(RingKeysStatus[r].total, p)
      BY <2>1, RingFacts DEF RingOK, StatusOK, PlaceOK, Paged
    <2>3. ASSUME NEW r \in RingIndex \ StatusKeys PROVE RingKeysStatus[r] = NoStatus
      BY RingFacts DEF RingOK, StatusOK, PlaceOK
    <2>4. ~ IsFull(RingKeysStatus[CurrentRingIndex].total)
      BY RingFacts, Sizes DEF KeysInv, RoomOK, IsFull
    <2>5. \A q \in QueuePage : Len(OnboardingQueue[q]) <= OnboardingQueuePageSize
      BY DEF KeysInv, QueuePart, QueuePageOK
    <2>6. ActiveMembers =
              Cardinality({x \in RingIndex \X Position : x[2] < RingKeysStatus[x[1]].total})
      BY DEF KeysInv, Counted, Filled
    <2> QED
      BY <2>2, <2>3, <2>4, <2>5, <2>6 DEF CountsExact
  <1> QED
    BY KeysInvariant, <1>1, PTL
=============================================================================

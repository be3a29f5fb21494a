----------------------------- MODULE MemberRings -----------------------------
(***************************************************************************)
(* pallets/members: one collection of ring members.  A key is queued for   *)
(* onboarding, moved into the ring that is being filled, and covered by    *)
(* the ring's root once the ring is built.  Keys leave by suspension, in   *)
(* two steps (queued during a removal session, taken out of the ring       *)
(* after it), or with their ring or their collection, page by page.        *)
(* Offchain workers submit the maintenance calls; each is authorised       *)
(* against the state it runs in, so arguments that have become stale       *)
(* refuse the call.                                                        *)
(*                                                                         *)
(* Every storage item of the pallet is keyed by the collection first and   *)
(* no call touches two collections, so one collection is modelled.  Its    *)
(* mode and sizes are constants.  A root commits to the keys pushed into   *)
(* it, and is the sequence of them.  A call that fails changes nothing and *)
(* is no step.  A batch of keys is a run of calls with one key each.       *)
(***************************************************************************)
EXTENDS MemberRingsState

-----------------------------------------------------------------------------
(* Types and empty values *)

RingIndex == 0 .. MaxRing
\* A full ring's next page is looked up as well.
RingPage == 0 .. RingCapacity \div RingPageSize
QueuePage == 0 .. QueuePageCount - 1
RevisionIndex == 0 .. MaxRevision
Time == 0 .. MaxNow
Position == 0 .. RingCapacity - 1

\* RingPosition, and Absent for a key that has no entry.
Absent == [at |-> "Absent"]
Suspended == [at |-> "Suspended"]
Onboarding(page, time) == [at |-> "Onboarding", queue_page |-> page, queued_at |-> time]
Included(r, p, i) ==
    [at |-> "Included", ring_index |-> r, ring_page |-> p, ring_position |-> i]

RingPosition ==
    {Absent, Suspended}
        \union [at : {"Onboarding"}, queue_page : QueuePage, queued_at : Time]
        \union [at : {"Included"}, ring_index : RingIndex, ring_page : RingPage,
                ring_position : Position]

NotImmutable == -1
NoStatus == [total |-> 0, included |-> 0, immutable_since |-> NotImmutable]
RingStatus == [total : 0 .. RingCapacity, included : 0 .. RingCapacity,
               immutable_since : Time \union {NotImmutable}]

NoRoot == [revision |-> -1, keys |-> <<>>]
RingRoot == [revision : RevisionIndex, keys : Seq(MemberKey)]
OldRoot == [ring_index : RingIndex, revision : RevisionIndex, archived_at : Time]

TypeOK ==
    /\ lifecycle \in {"Unused", "Live", "Suspended", "Retired"}
    /\ OnboardingSize \in 0 .. RingCapacity
    /\ RingsState \in 0 .. MaxSessions
    /\ CurrentRingIndex \in RingIndex
    /\ RingKeys \in [RingIndex -> [RingPage -> Seq(MemberKey)]]
    /\ RingKeysStatus \in [RingIndex -> RingStatus]
    /\ StatusKeys \subseteq RingIndex
    /\ PendingSuspensions \in [RingIndex -> SUBSET Position]
    /\ ActiveMembers \in Nat
    /\ StaleRings \subseteq RingIndex
    /\ RingDeletionQueue \subseteq RingIndex \X RingPage
    /\ Members \in [MemberKey -> RingPosition]
    /\ QueuePageIndices \in [head : QueuePage, tail : QueuePage]
    /\ OnboardingQueue \in [QueuePage -> Seq(MemberKey)]
    /\ QueueKeys \subseteq QueuePage
    /\ Root \in [RingIndex -> RingRoot \union {NoRoot}]
    /\ OldRoots \subseteq OldRoot
    /\ now \in Time
    /\ announced \in [RingIndex -> RingRoot \union {NoRoot}]

Init ==
    /\ lifecycle = "Unused"
    /\ OnboardingSize = 0
    /\ RingsState = 0
    /\ CurrentRingIndex = 0
    /\ RingKeys = [r \in RingIndex |-> [p \in RingPage |-> <<>>]]
    /\ RingKeysStatus = [r \in RingIndex |-> NoStatus]
    /\ StatusKeys = {}
    /\ PendingSuspensions = [r \in RingIndex |-> {}]
    /\ ActiveMembers = 0
    /\ StaleRings = {}
    /\ RingDeletionQueue = {}
    /\ Members = [m \in MemberKey |-> Absent]
    /\ QueuePageIndices = [head |-> 0, tail |-> 0]
    /\ OnboardingQueue = [q \in QueuePage |-> <<>>]
    /\ QueueKeys = {}
    /\ Root = [r \in RingIndex |-> NoRoot]
    /\ OldRoots = {}
    /\ now = 0
    /\ announced = [r \in RingIndex |-> NoRoot]

-----------------------------------------------------------------------------
(* Reading and changing the storage *)

append_only == RingsState = 0
mutating == RingsState > 0

\* Mutant: off by one.
IsFull_above(total) == total > RingCapacity

IsFull(total) == total >= RingCapacity

SaturatingSub(a, b) == IF a >= b THEN a - b ELSE 0
Smaller(a, b) == IF a <= b THEN a ELSE b

NextQueuePage(q) == (q + 1) % QueuePageCount

\* The number of keys of a ring of that many keys that are on page p.
InPage(total, p) == Smaller(SaturatingSub(total, p * RingPageSize), RingPageSize)

\* The key at a position counted over all pages, from 0.
KeyAt(r, i) == RingKeys[r][i \div RingPageSize][(i % RingPageSize) + 1]

\* Mutant: the position is not that within the page.
IncludedAt_flat(r, i) == Included(r, i \div RingPageSize, i)

IncludedAt(r, i) == Included(r, i \div RingPageSize, i % RingPageSize)

\* The pages of a ring when keys are pushed to its last, or to new pages.
PagesWith(r, keys) ==
    LET total == RingKeysStatus[r].total
    IN  [p \in RingPage |->
            [j \in 1 .. InPage(total + Len(keys), p) |->
                LET i == p * RingPageSize + j
                IN  IF i <= total THEN RingKeys[r][p][j] ELSE keys[i - total]]]

\* Pushes keys to the ring that is being filled, and moves on when they fill it.
PushToRing(keys) ==
    LET r == CurrentRingIndex
        total == RingKeysStatus[r].total
    IN  /\ IsFull(total + Len(keys)) => r < MaxRing
        /\ CurrentRingIndex' = IF IsFull(total + Len(keys)) THEN r + 1 ELSE r
        /\ RingKeys' = [RingKeys EXCEPT ![r] = PagesWith(r, keys)]
        /\ RingKeysStatus' = [RingKeysStatus EXCEPT ![r].total = total + Len(keys)]
        /\ StatusKeys' = StatusKeys \union {r}
        /\ ActiveMembers' = ActiveMembers + Len(keys)
        /\ StaleRings' = StaleRings \union {r}
        /\ Members' = [m \in MemberKey |->
                          IF \E i \in 1 .. Len(keys) : keys[i] = m
                          THEN IncludedAt(r, total + (CHOOSE i \in 1 .. Len(keys) : keys[i] = m) - 1)
                          ELSE Members[m]]
        /\ UNCHANGED <<PendingSuspensions, RingDeletionQueue>>

\* Mutant: the root is not kept.
archive_root_forgets(r) == OldRoots

\* The old roots after the root of r is archived.
archive_root(r) ==
    IF Root[r] = NoRoot
    THEN OldRoots
    ELSE {o \in OldRoots : <<o.ring_index, o.revision>> # <<r, Root[r].revision>>}
             \union {[ring_index |-> r, revision |-> Root[r].revision, archived_at |-> now]}

\* Mutant: subscribers are not told.
AnnouncedDeleted_silent(r) == announced

\* RingRootOp::Deleted, if there was a root.
AnnouncedDeleted(r) ==
    IF Root[r] = NoRoot THEN announced ELSE [announced EXCEPT ![r] = NoRoot]

\* What verify_membership and is_revision_valid accept.
is_revision_valid(r, revision) ==
    /\ lifecycle = "Live"
    /\ Root[r] # NoRoot
    /\ \/ Root[r].revision = revision
       \/ \E o \in OldRoots : /\ o.ring_index = r
                              /\ o.revision = revision
                              /\ now < o.archived_at + OldRootRetentionDuration

-----------------------------------------------------------------------------
(* Calls of the pallets that own collections *)

create_collection(size) ==
    /\ lifecycle = "Unused"
    /\ lifecycle' = "Live"
    /\ OnboardingSize' = size
    /\ RingsState' = 0
    /\ UNCHANGED <<rings, Members, queue, roots, now>>

push_to_onboarding_queue(m) ==
    LET head == QueuePageIndices.head
        tail == QueuePageIndices.tail
        full == Len(OnboardingQueue[tail]) >= OnboardingQueuePageSize
        page == IF full THEN NextQueuePage(tail) ELSE tail
    IN  /\ full => page # head
        /\ QueuePageIndices' = [head |-> head, tail |-> page]
        /\ OnboardingQueue' = [OnboardingQueue EXCEPT
                                  ![page] = IF full THEN <<m>> ELSE Append(@, m)]
        /\ QueueKeys' = QueueKeys \union {page}
        /\ Members' = [Members EXCEPT ![m] = Onboarding(page, now)]

add_members(m) ==
    /\ lifecycle = "Live"
    /\ Members[m] \in {Absent, Suspended}
    /\ push_to_onboarding_queue(m)
    /\ UNCHANGED <<config, rings, roots, now>>

start_removal_session ==
    /\ lifecycle = "Live"
    /\ RingsState < MaxSessions
    /\ RingsState' = RingsState + 1
    /\ UNCHANGED <<lifecycle, OnboardingSize, rings, Members, queue, roots, now>>

end_removal_session ==
    /\ lifecycle = "Live"
    /\ mutating
    /\ RingsState' = RingsState - 1
    /\ UNCHANGED <<lifecycle, OnboardingSize, rings, Members, queue, roots, now>>

\* remove_members for a key in a ring, and for one that still waits in the queue.
\* Only the owners of flexible collections remove members.
queue_member_suspension_included(m) ==
    /\ Members[m].at = "Included"
    /\ PendingSuspensions' = [PendingSuspensions EXCEPT
                                 ![Members[m].ring_index] = @ \union {Members[m].ring_position}]
    /\ Members' = [Members EXCEPT ![m] = Suspended]
    /\ UNCHANGED <<CurrentRingIndex, RingKeys, RingKeysStatus, StatusKeys, ActiveMembers,
                   StaleRings, RingDeletionQueue, queue>>

\* The keys without the first that is m, if there is one.
Without(keys, m) ==
    IF \A i \in 1 .. Len(keys) : keys[i] # m
    THEN keys
    ELSE LET idx == CHOOSE i \in 1 .. Len(keys) : keys[i] = m /\ \A j \in 1 .. i - 1 : keys[j] # m
         IN  [i \in 1 .. Len(keys) - 1 |-> IF i < idx THEN keys[i] ELSE keys[i + 1]]

queue_member_suspension_onboarding(m) ==
    /\ Members[m].at = "Onboarding"
    /\ LET page == Members[m].queue_page
       IN  /\ OnboardingQueue' = [OnboardingQueue EXCEPT ![page] = Without(@, m)]
           /\ QueueKeys' = QueueKeys \union {page}
    /\ Members' = [Members EXCEPT ![m] = Suspended]
    /\ UNCHANGED <<QueuePageIndices, rings>>

remove_members(m) ==
    /\ Mode = "Flexible"
    /\ lifecycle = "Live"
    /\ mutating
    /\ queue_member_suspension_included(m) \/ queue_member_suspension_onboarding(m)
    /\ UNCHANGED <<config, roots, now>>

delete_collection ==
    /\ OwnerDeletes
    /\ lifecycle = "Live"
    /\ lifecycle' = "Suspended"
    /\ UNCHANGED <<OnboardingSize, RingsState, rings, Members, queue, roots, now>>

\* Mutant: the last page, partly filled, is not counted.
PageCount_rounds_down(total) == total \div RingPageSize

PageCount(total) ==
    total \div RingPageSize + (IF total % RingPageSize = 0 THEN 0 ELSE 1)

enqueue_ring_for_deletion(r) ==
    LET total == RingKeysStatus[r].total
    IN  /\ OldRoots' = archive_root(r)
        /\ Root' = [Root EXCEPT ![r] = NoRoot]
        /\ announced' = AnnouncedDeleted(r)
        /\ StaleRings' = StaleRings \ {r}
        /\ PendingSuspensions' = [PendingSuspensions EXCEPT ![r] = {}]
        /\ RingKeysStatus' = [RingKeysStatus EXCEPT ![r] = NoStatus]
        /\ StatusKeys' = StatusKeys \ {r}
        /\ ActiveMembers' = SaturatingSub(ActiveMembers, total)
        /\ RingDeletionQueue' =
               RingDeletionQueue \union {<<r, p>> : p \in 0 .. PageCount(total) - 1}
        /\ UNCHANGED <<config, CurrentRingIndex, RingKeys, Members, queue, now>>

\* Only the owners of append-only collections remove rings.
remove_ring(r) ==
    /\ Mode = "AppendOnly"
    /\ lifecycle = "Live"
    /\ r # CurrentRingIndex
    /\ \A p \in RingPage : <<r, p>> \notin RingDeletionQueue
    /\ enqueue_ring_for_deletion(r)

-----------------------------------------------------------------------------
(* Calls of users and of the manager *)

set_onboarding_size(size) ==
    /\ lifecycle = "Live"
    /\ OnboardingSize' = size
    /\ UNCHANGED <<lifecycle, RingsState, rings, Members, queue, roots, now>>

\* Both rings are on page 0.
CanMerge(r) ==
    /\ r # CurrentRingIndex
    /\ Len(RingKeys[r][0]) \in 1 .. (RingCapacity \div 2) - 1
    /\ PendingSuspensions[r] = {}

\* Where the i-th key of the target goes when the base has that many keys.
MergedAt(base, start, i) == Included(base, 0, start + i - 1)

merge_rings(base, target) ==
    LET moved == RingKeys[target][0]
        start == Len(RingKeys[base][0])
    IN  /\ lifecycle = "Live"
        /\ Mode = "Flexible"
        /\ append_only
        /\ base # target
        /\ CanMerge(base)
        /\ CanMerge(target)
        /\ Members' = [m \in MemberKey |->
                          IF \E i \in 1 .. Len(moved) : moved[i] = m
                          THEN MergedAt(base, start, CHOOSE i \in 1 .. Len(moved) : moved[i] = m)
                          ELSE Members[m]]
        /\ RingKeys' = [RingKeys EXCEPT ![base][0] = @ \o moved, ![target][0] = <<>>]
        /\ RingKeysStatus' = [RingKeysStatus EXCEPT ![base].total = @ + Len(moved),
                                                    ![target] = NoStatus]
        /\ StatusKeys' = (StatusKeys \union {base}) \ {target}
        /\ OldRoots' = archive_root(target)
        /\ Root' = [Root EXCEPT ![target] = NoRoot]
        /\ announced' = AnnouncedDeleted(target)
        /\ StaleRings' = (StaleRings \union {base}) \ {target}
        /\ UNCHANGED <<config, CurrentRingIndex, PendingSuspensions, ActiveMembers,
                       RingDeletionQueue, queue, now>>

\* The key leaves its queue page; an emptied first page is left behind.
RemoveFromQueue(m) ==
    LET page == Members[m].queue_page
        keys == Without(OnboardingQueue[page], m)
    IN  /\ m \in {OnboardingQueue[page][i] : i \in 1 .. Len(OnboardingQueue[page])}
        /\ OnboardingQueue' = [OnboardingQueue EXCEPT ![page] = keys]
        /\ QueueKeys' = IF keys = <<>> THEN QueueKeys \ {page} ELSE QueueKeys \union {page}
        /\ QueuePageIndices' =
               [QueuePageIndices EXCEPT
                   !.head = IF keys = <<>> /\ @ = page /\ @ # QueuePageIndices.tail
                            THEN NextQueuePage(page) ELSE @]

\* do_self_include, and what the AsMember extension validates.  The ring's pending
\* suspensions do not matter here.
self_include(m) ==
    /\ lifecycle = "Live"
    /\ SelfInclusionDelay # NoDelay
    /\ append_only
    /\ Members[m].at = "Onboarding"
    /\ now >= Members[m].queued_at + SelfInclusionDelay
    /\ RemoveFromQueue(m)
    /\ PushToRing(<<m>>)
    /\ UNCHANGED <<config, roots, now>>

tick ==
    /\ now < MaxNow
    /\ now' = now + 1
    /\ UNCHANGED <<config, rings, Members, queue, roots>>

-----------------------------------------------------------------------------
(* Maintenance calls of the offchain worker: queue and rings *)

Requeued(m, page) == [Members[m] EXCEPT !.queue_page = page]

merge_queue_pages ==
    LET head == QueuePageIndices.head
        next == NextQueuePage(head)
        first == OnboardingQueue[head]
        second == OnboardingQueue[next]
    IN  /\ lifecycle = "Live"
        /\ head # QueuePageIndices.tail
        /\ Len(first) + Len(second) <= OnboardingQueuePageSize
        /\ Members' = [m \in MemberKey |->
                          IF /\ Members[m].at = "Onboarding"
                             /\ \E i \in 1 .. Len(first) : first[i] = m
                          THEN Requeued(m, next)
                          ELSE Members[m]]
        /\ OnboardingQueue' = [OnboardingQueue EXCEPT ![head] = <<>>, ![next] = first \o second]
        /\ QueueKeys' = (QueueKeys \ {head}) \union {next}
        /\ QueuePageIndices' = [QueuePageIndices EXCEPT !.head = next]
        /\ UNCHANGED <<config, rings, roots, now>>

\* The queue when the keys read from the pages head .. last are onboarded except for rest.
LeaveInQueue(head, last, rest) ==
    LET split == Len(rest) - OnboardingQueuePageSize
        tail == QueuePageIndices.tail
    IN  \/ /\ split > 0
           /\ OnboardingQueue' = [OnboardingQueue EXCEPT
                                     ![head] = SubSeq(rest, 1, split),
                                     ![last] = SubSeq(rest, split + 1, Len(rest))]
           /\ QueueKeys' = QueueKeys \union {head, last}
           /\ UNCHANGED QueuePageIndices
        \/ /\ split <= 0 /\ rest # <<>>
           /\ OnboardingQueue' = [OnboardingQueue EXCEPT ![head] = <<>>, ![last] = rest]
           /\ QueueKeys' = (QueueKeys \ {head}) \union {last}
           /\ QueuePageIndices' = [QueuePageIndices EXCEPT !.head = last]
        \/ /\ rest = <<>>
           /\ OnboardingQueue' = [OnboardingQueue EXCEPT ![head] = <<>>, ![last] = <<>>]
           /\ QueueKeys' = QueueKeys \ {head, last}
           /\ QueuePageIndices' = [QueuePageIndices EXCEPT
                                      !.head = IF last # tail THEN NextQueuePage(last) ELSE last]

\* Enough keys to keep a cohort together and to leave room for another, or to fill the ring.
should_onboard_members(open_slots, to_include) ==
    /\ lifecycle = "Live"
    /\ append_only
    /\ PendingSuspensions[CurrentRingIndex] = {}
    /\ to_include > 0
    /\ \/ to_include = open_slots
       \/ /\ to_include >= OnboardingSize
          /\ RingKeysStatus[CurrentRingIndex].total + to_include <= RingCapacity - OnboardingSize

onboard_members ==
    LET open_slots == RingCapacity - RingKeysStatus[CurrentRingIndex].total
        head == QueuePageIndices.head
        first == OnboardingQueue[head]
        both == Len(first) < open_slots /\ head # QueuePageIndices.tail
        last == IF both THEN NextQueuePage(head) ELSE head
        waiting == IF both THEN first \o OnboardingQueue[last] ELSE first
        to_include == Smaller(Len(waiting), open_slots)
    IN  /\ should_onboard_members(open_slots, to_include)
        /\ PushToRing(SubSeq(waiting, 1, to_include))
        /\ LeaveInQueue(head, last, SubSeq(waiting, to_include + 1, Len(waiting)))
        /\ UNCHANGED <<config, roots, now>>

\* The n-th position that is kept, from 0.
Kept(positions, n) ==
    CHOOSE i \in positions : Cardinality({j \in positions : j < i}) = n

Shifted(m, n) == [Members[m] EXCEPT !.ring_position = n]

\* Mutant: the intermediate root is kept.
Restarted_keeps_keys(root) ==
    IF root = NoRoot THEN NoRoot ELSE [root EXCEPT !.revision = @ + 1]

Restarted(root) ==
    IF root = NoRoot THEN NoRoot ELSE [revision |-> root.revision + 1, keys |-> <<>>]

\* The ring starts again from an empty root; its keys are pushed anew by build_ring.
remove_suspended_keys(r) ==
    LET keys == RingKeys[r][0]
        kept == (0 .. Len(keys) - 1) \ PendingSuspensions[r]
        new_total == Cardinality(kept)
    IN  /\ lifecycle = "Live"
        /\ append_only
        /\ PendingSuspensions[r] # {}
        /\ Root[r].revision < MaxRevision
        /\ Members' = [m \in MemberKey |->
                          IF /\ Members[m].at = "Included"
                             /\ Members[m].ring_index = r
                             /\ \E n \in 0 .. new_total - 1 : keys[Kept(kept, n) + 1] = m
                          THEN Shifted(m, CHOOSE n \in 0 .. new_total - 1 :
                                              keys[Kept(kept, n) + 1] = m)
                          ELSE Members[m]]
        /\ RingKeys' = [RingKeys EXCEPT ![r][0] =
                           [n \in 1 .. new_total |-> keys[Kept(kept, n - 1) + 1]]]
        /\ RingKeysStatus' = [RingKeysStatus EXCEPT ![r].total = new_total, ![r].included = 0]
        /\ StatusKeys' = StatusKeys \union {r}
        /\ ActiveMembers' = SaturatingSub(ActiveMembers,
                                SaturatingSub(RingKeysStatus[r].total, new_total))
        /\ OldRoots' = archive_root(r)
        /\ Root' = [Root EXCEPT ![r] = Restarted(@)]
        /\ StaleRings' = IF new_total > 0 THEN StaleRings \union {r} ELSE StaleRings
        /\ PendingSuspensions' = [PendingSuspensions EXCEPT ![r] = {}]
        /\ UNCHANGED <<config, CurrentRingIndex, RingDeletionQueue, queue, announced, now>>

\* A submitted to_include may be smaller than what waits by the time the call runs.
should_build_ring(r, to_include) ==
    /\ lifecycle = "Live"
    /\ append_only
    /\ PendingSuspensions[r] = {}
    /\ to_include <= SaturatingSub(RingKeysStatus[r].total, RingKeysStatus[r].included)
    /\ to_include \in 1 .. RingBuildingMemberLimit

next_revision(r) == IF Root[r] = NoRoot THEN 0 ELSE Root[r].revision + 1

BecomesImmutable(total, included) ==
    Mode = "AppendOnly" /\ included = total /\ total = RingCapacity

\* Mutant: a ring is no longer stale although keys are left.
StaleAfterBuild_always(r, included) == StaleRings \ {r}

StaleAfterBuild(r, included) ==
    IF included = RingKeysStatus[r].total THEN StaleRings \ {r} ELSE StaleRings

build_ring(r, to_include) ==
    LET status == RingKeysStatus[r]
        included == status.included + to_include
        pushed == [i \in 1 .. to_include |-> KeyAt(r, status.included + i - 1)]
        root == [revision |-> next_revision(r), keys |-> Root[r].keys \o pushed]
    IN  /\ should_build_ring(r, to_include)
        /\ Root[r].revision < MaxRevision
        /\ RingKeysStatus' = [RingKeysStatus EXCEPT
               ![r].included = included,
               ![r].immutable_since = IF BecomesImmutable(status.total, included) THEN now ELSE @]
        /\ StatusKeys' = StatusKeys \union {r}
        /\ StaleRings' = StaleAfterBuild(r, included)
        /\ OldRoots' = archive_root(r)
        /\ Root' = [Root EXCEPT ![r] = root]
        /\ announced' = [announced EXCEPT ![r] = root]
        /\ UNCHANGED <<config, CurrentRingIndex, RingKeys, PendingSuspensions, ActiveMembers,
                       RingDeletionQueue, Members, queue, now>>

-----------------------------------------------------------------------------
(* Maintenance calls of the offchain worker: deletion and old roots *)

delete_ring_page(r, p) ==
    /\ <<r, p>> \in RingDeletionQueue
    /\ RingDeletionQueue' = RingDeletionQueue \ {<<r, p>>}
    /\ Members' = [m \in MemberKey |->
                      IF \E i \in 1 .. Len(RingKeys[r][p]) :
                             RingKeys[r][p][i] = m /\ Members[m] = Included(r, p, i - 1)
                      THEN Absent ELSE Members[m]]
    /\ RingKeys' = [RingKeys EXCEPT ![r][p] = <<>>]
    /\ UNCHANGED <<config, CurrentRingIndex, RingKeysStatus, StatusKeys, PendingSuspensions,
                   ActiveMembers, StaleRings, queue, roots, now>>

enqueue_ring_deletion(r) ==
    /\ lifecycle = "Suspended"
    /\ r \in StatusKeys
    /\ enqueue_ring_for_deletion(r)

RingsDeleted == StatusKeys = {} /\ RingDeletionQueue = {}

\* Mutant: an empty page is not deleted.
ensure_can_delete_onboarding_queue_page_filled(q) ==
    /\ lifecycle = "Suspended"
    /\ RingsDeleted
    /\ OnboardingQueue[q] # <<>>

ensure_can_delete_onboarding_queue_page(q) ==
    /\ lifecycle = "Suspended"
    /\ RingsDeleted
    /\ q \in QueueKeys

delete_onboarding_queue_page(q) ==
    /\ ensure_can_delete_onboarding_queue_page(q)
    /\ OnboardingQueue' = [OnboardingQueue EXCEPT ![q] = <<>>]
    /\ QueueKeys' = QueueKeys \ {q}
    /\ Members' = [m \in MemberKey |->
                      IF \E i \in 1 .. Len(OnboardingQueue[q]) : OnboardingQueue[q][i] = m
                      THEN Absent ELSE Members[m]]
    /\ UNCHANGED <<config, rings, QueuePageIndices, roots, now>>

Present == {m \in MemberKey : Members[m] # Absent}

remove_orphaned_members ==
    /\ lifecycle = "Suspended"
    /\ RingsDeleted
    /\ QueueKeys = {}
    /\ Present # {}
    /\ \E orphans \in SUBSET Present :
           /\ Cardinality(orphans) = Smaller(Cardinality(Present), OrphanedMembersRemovalLimit)
           /\ Members' = [m \in MemberKey |-> IF m \in orphans THEN Absent ELSE Members[m]]
    /\ UNCHANGED <<config, rings, queue, roots, now>>

finalize_collection_deletion ==
    /\ lifecycle = "Suspended"
    /\ RingsDeleted
    /\ QueueKeys = {}
    /\ Present = {}
    /\ lifecycle' = "Retired"
    /\ CurrentRingIndex' = 0
    /\ OnboardingSize' = 0
    /\ ActiveMembers' = 0
    /\ RingsState' = 0
    /\ QueuePageIndices' = [head |-> 0, tail |-> 0]
    /\ UNCHANGED <<RingKeys, RingKeysStatus, StatusKeys, PendingSuspensions, StaleRings,
                   RingDeletionQueue, Members, OnboardingQueue, QueueKeys, roots, now>>

\* Revisions are visited in ascending order, up to the first that is retained.
Expired(r) ==
    {o \in OldRoots :
        /\ o.ring_index = r
        /\ \A older \in OldRoots :
               (older.ring_index = r /\ older.revision <= o.revision)
                   => now >= older.archived_at + OldRootRetentionDuration}

clean_up_old_roots(r) ==
    /\ Expired(r) # {}
    /\ OldRoots' = OldRoots \ {o \in Expired(r) :
                       Cardinality({older \in Expired(r) : older.revision < o.revision})
                           < OldRootCleanupLimit}
    /\ UNCHANGED <<config, rings, Members, queue, Root, announced, now>>

-----------------------------------------------------------------------------

Next ==
    \/ \E size \in OnboardingSizes : create_collection(size)
    \/ \E m \in MemberKey : add_members(m)
    \/ start_removal_session
    \/ end_removal_session
    \/ \E m \in MemberKey : remove_members(m)
    \/ delete_collection
    \/ \E r \in RingIndex : remove_ring(r)
    \/ \E size \in OnboardingSizes : set_onboarding_size(size)
    \/ \E base, target \in RingIndex : merge_rings(base, target)
    \/ \E m \in MemberKey : self_include(m)
    \/ tick
    \/ merge_queue_pages
    \/ onboard_members
    \/ \E r \in RingIndex : remove_suspended_keys(r)
    \/ \E r \in RingIndex, n \in 1 .. RingBuildingMemberLimit : build_ring(r, n)
    \/ \E r \in RingIndex, p \in RingPage : delete_ring_page(r, p)
    \/ \E r \in RingIndex : enqueue_ring_deletion(r)
    \/ \E q \in QueuePage : delete_onboarding_queue_page(q)
    \/ remove_orphaned_members
    \/ finalize_collection_deletion
    \/ \E r \in RingIndex : clean_up_old_roots(r)

Spec == Init /\ [][Next]_vars

-----------------------------------------------------------------------------
(* Properties *)

\* What Members says of a key in a ring and what the ring's pages hold agree, although
\* suspensions shift positions, merges move keys and pages are deleted one by one: a key
\* is where its entry says, and every key of a ring that is not being deleted has that
\* entry unless its position waits to be removed (remove_suspended_keys, merge_rings,
\* onboard_members, do_self_include, delete_ring_page).
PositionsExact ==
    /\ \A m \in DOMAIN Members :
           Members[m].at = "Included" =>
               LET r == Members[m].ring_index
                   p == Members[m].ring_page
                   i == Members[m].ring_position
               IN  /\ i < Len(RingKeys[r][p])
                   /\ RingKeys[r][p][i + 1] = m
                   /\ i \notin PendingSuspensions[r]
    /\ \A r \in StatusKeys : \A p \in DOMAIN RingKeys[r] :
           \A i \in 0 .. Len(RingKeys[r][p]) - 1 :
               i \notin PendingSuspensions[r]
                   => Members[RingKeys[r][p][i + 1]] = Included(r, p, i)

\* The pages from the first to the last of the queue, past the wrap of the page index.
IsQueued(q) ==
    IF QueuePageIndices.head <= QueuePageIndices.tail
    THEN QueuePageIndices.head <= q /\ q <= QueuePageIndices.tail
    ELSE QueuePageIndices.head <= q \/ q <= QueuePageIndices.tail

\* A key is onboarding exactly if it is in the queue, once, on the page its entry names,
\* and that page lies between head and tail, so that onboarding will reach it
\* (push_to_onboarding_queue, onboard_members, merge_queue_pages, do_self_include).
QueueExact ==
    /\ \A m \in DOMAIN Members :
           Members[m].at = "Onboarding" =>
               /\ IsQueued(Members[m].queue_page)
               /\ \E i \in 1 .. Len(OnboardingQueue[Members[m].queue_page]) :
                      OnboardingQueue[Members[m].queue_page][i] = m
    /\ \A q \in DOMAIN OnboardingQueue :
           /\ OnboardingQueue[q] # <<>> => q \in QueueKeys
           /\ \A i \in 1 .. Len(OnboardingQueue[q]) :
                  LET m == OnboardingQueue[q][i]
                  IN  /\ Members[m].at = "Onboarding" /\ Members[m].queue_page = q
                      /\ \A j \in 1 .. Len(OnboardingQueue[q]) :
                             OnboardingQueue[q][j] = m => j = i

\* The counts the pallet keeps are those of the stored keys: the pages of a ring hold its
\* total and no more, the included ones are among them, the active members are the keys
\* of all rings, no page of the queue is overfull, and the ring that is being filled has
\* room (the defensive assertions of available_ring, onboard_members and build_ring).
CountsExact ==
    /\ \A r \in StatusKeys :
           /\ RingKeysStatus[r].included <= RingKeysStatus[r].total
           /\ \A p \in RingPage : Len(RingKeys[r][p]) = InPage(RingKeysStatus[r].total, p)
    /\ \A r \in RingIndex \ StatusKeys : RingKeysStatus[r] = NoStatus
    /\ ActiveMembers =
           Cardinality({x \in RingIndex \X Position : x[2] < RingKeysStatus[x[1]].total})
    /\ ~IsFull(RingKeysStatus[CurrentRingIndex].total)
    /\ \A q \in QueuePage : Len(OnboardingQueue[q]) <= OnboardingQueuePageSize

\* The root of a ring commits to the first `included` keys of the ring as it is stored,
\* in their order, whatever was removed, merged or added since it was first built
\* (build_ring pushes to the stored intermediate, remove_suspended_keys restarts it).
\* A page is filled before the next, so all but the last are as long as the first.
RootExact ==
    \A r \in DOMAIN Root :
        LET full == Len(RingKeys[r][0])
        IN  Root[r].keys = [i \in 1 .. RingKeysStatus[r].included |->
                               RingKeys[r][(i - 1) \div full][((i - 1) % full) + 1]]

\* A ring with keys its root does not cover is always marked stale: the recovery call
\* mark_ring_stale_authorized ("in case the StaleRings entry was lost or never inserted")
\* is never needed.
ensure_can_mark_ring_stale(r) ==
    /\ lifecycle # "Suspended"
    /\ r \notin StaleRings
    /\ RingKeysStatus[r].total > RingKeysStatus[r].included

NoRingLost == \A r \in DOMAIN RingKeysStatus : ~ensure_can_mark_ring_stale(r)

\* The archived roots of a ring are older than its root, and in order of their revisions
\* they were archived one after the other, so clean_up_old_roots may stop at the first
\* that is retained without leaving an expired one behind.
OldRootsOrdered ==
    \A o \in OldRoots :
        /\ Root[o.ring_index] # NoRoot => o.revision < Root[o.ring_index].revision
        /\ \A newer \in OldRoots :
               newer.ring_index = o.ring_index /\ newer.revision > o.revision
                   => newer.archived_at >= o.archived_at

\* A revision that proofs may use is refused only when its ring or the collection is
\* deleted, or when the retention period since its archival is over, whatever builds,
\* suspensions and clean-ups happen meanwhile (get_root_at_revision, clean_up_old_roots).
RetentionKept ==
    [][\A r \in DOMAIN Root : \A revision \in {Root[r].revision} \union {o.revision : o \in OldRoots} :
          is_revision_valid(r, revision) /\ ~is_revision_valid(r, revision)' =>
              \/ lifecycle' # "Live"
              \/ Root'[r] = NoRoot
              \/ \E o \in OldRoots \union OldRoots' :
                     /\ o.ring_index = r /\ o.revision = revision
                     /\ now' >= o.archived_at + OldRootRetentionDuration]_vars

\* A ring reported as immutable keeps its keys, its root and the time until it is removed
\* (immutable_since, from which pallet-coinage counts the expiry of a recycler).
ImmutableKept ==
    [][\A r \in StatusKeys :
          RingKeysStatus[r].immutable_since # NotImmutable /\ r \in StatusKeys' =>
              /\ RingKeysStatus'[r] = RingKeysStatus[r]
              /\ RingKeys'[r] = RingKeys[r]
              /\ Root'[r] = Root[r]]_vars

\* A deleted collection leaves nothing behind but archived roots: every key, page, status,
\* suspension and root is gone when the deletion is finalized, which checks only four of
\* the storage items (finalize_collection_deletion).
NoResidue ==
    lifecycle = "Retired" =>
        /\ \A r \in DOMAIN RingKeys : /\ \A p \in DOMAIN RingKeys[r] : RingKeys[r][p] = <<>>
                                      /\ PendingSuspensions[r] = {}
                                      /\ Root[r] = NoRoot
        /\ StaleRings = {}
        /\ \A q \in DOMAIN OnboardingQueue : OnboardingQueue[q] = <<>>

\* Subscribers hear of every root: once a ring with members is built, the last thing
\* on_ring_root_change said of it is its root, and once it is removed or merged away,
\* that it is deleted (build_ring, merge_rings, enqueue_ring_for_deletion).
AnnouncedExact ==
    \A r \in DOMAIN announced :
        \/ announced[r] = Root[r]
        \/ r \in StaleRings
        \/ r \in StatusKeys /\ RingKeysStatus[r].total = 0

\* The hook is "called after a ring root is inserted, updated, or deleted" (OnRingRootChange),
\* so what it said last is the root of every ring that nothing waits to be done for.
HookHeard ==
    \A r \in DOMAIN announced :
        r \notin StaleRings /\ PendingSuspensions[r] = {} => announced[r] = Root[r]

\* The calls that take a collection apart.
deletion_call ==
    \/ \E r \in RingIndex, p \in RingPage : delete_ring_page(r, p)
    \/ \E r \in RingIndex : enqueue_ring_deletion(r)
    \/ \E q \in QueuePage : delete_onboarding_queue_page(q)
    \/ remove_orphaned_members
    \/ finalize_collection_deletion

\* The offchain worker submits them in every interval; that one of them is executed in the
\* end, whichever it is, is all that is assumed.
DeletionFairness == WF_vars(deletion_call)

FairSpec == Spec /\ DeletionFairness

\* A collection marked for deletion is deleted, with whatever is left in it: rings, pages
\* queued for deletion, an empty queue page, suspended keys without a ring.
DeletionFinishes == lifecycle = "Suspended" ~> lifecycle = "Retired"

\* Every key is where its entry in Members says it is, and nowhere else: in a ring or in the
\* onboarding queue (onboard_members, do_self_include, remove_suspended_keys, merge_rings,
\* merge_queue_pages).
MembersExact == PositionsExact /\ QueueExact

\* What a proof relies on stays while it may be used and goes afterwards: an accepted revision
\* for its retention period, the archived ones in an order that clean_up_old_roots can follow,
\* an immutable ring for as long as it exists (get_root_at_revision, archive_root, build_ring).
ProofsKept == []OldRootsOrdered /\ RetentionKept /\ ImmutableKept

=============================================================================

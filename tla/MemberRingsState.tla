-------------------------- MODULE MemberRingsState ---------------------------
(* The parameters and the state of pallets/members; its calls are in MemberRings. *)
EXTENDS Integers, FiniteSets, Sequences

CONSTANTS
    MemberKey,
    Mode,                       \* RingMode: "Flexible" or "AppendOnly"
    RingCapacity,               \* ring_size.ring_capacity()
    RingPageSize,               \* flexible_ring_capacity()
    RingBuildingMemberLimit,
    OnboardingQueuePageSize,
    QueuePageCount,             \* queue page indices are numbers modulo this (2^32)
    OnboardingSizes,            \* the sizes create_collection and set_onboarding_size choose
    SelfInclusionDelay,         \* NoDelay if the collection does not allow it
    OldRootRetentionDuration,
    OrphanedMembersRemovalLimit,
    OldRootCleanupLimit,        \* OFFCHAIN_WORKER_OLD_ROOT_CLEANUP_LIMIT
    OwnerDeletes,               \* whether the owner ever deletes the collection
    MaxRing,                    \* bound on the ring index
    MaxRevision,                \* bound on the revisions of a ring
    MaxSessions,                \* concurrent removal sessions (u8::MAX)
    MaxNow                      \* bound on the clock

NoDelay == -1

ASSUME SizesAssumption ==       \* integrity_test, create_collection
    /\ Mode \in {"Flexible", "AppendOnly"}
    /\ RingCapacity \in Nat \ {0}
    /\ RingPageSize \in Nat \ {0}
    /\ Mode = "Flexible" => RingCapacity <= RingPageSize
    /\ RingBuildingMemberLimit \in 1 .. RingPageSize
    /\ OnboardingQueuePageSize \in Nat \ {0}
    /\ QueuePageCount \in Nat \ {0}
    /\ OnboardingSizes \subseteq 0 .. RingCapacity
    /\ SelfInclusionDelay \in Nat \union {NoDelay}
    /\ OldRootRetentionDuration \in Nat
    /\ OrphanedMembersRemovalLimit \in Nat \ {0}
    /\ OldRootCleanupLimit \in Nat \ {0}
    /\ OwnerDeletes \in BOOLEAN

ASSUME BoundsAssumption ==
    /\ IsFiniteSet(MemberKey)
    /\ MaxRing \in Nat /\ MaxRevision \in Nat /\ MaxSessions \in Nat /\ MaxNow \in Nat

VARIABLES
    lifecycle,              \* in Collections, in SuspendedCollections, or in neither
    OnboardingSize,
    RingsState,             \* 0 for AppendOnly, n for Mutating(n)
    CurrentRingIndex,
    RingKeys,               \* ring -> page -> keys; an empty page is absent
    RingKeysStatus,
    StatusKeys,             \* the rings that have an entry in RingKeysStatus
    PendingSuspensions,     \* ring -> positions; an empty set is absent
    ActiveMembers,
    StaleRings,
    RingDeletionQueue,      \* <<ring, page>>
    Members,
    QueuePageIndices,
    OnboardingQueue,        \* page -> keys
    QueueKeys,              \* the pages that have an entry in OnboardingQueue
    Root,
    OldRoots,
    now,
    announced               \* history: what on_ring_root_change last said of a ring

config == <<lifecycle, OnboardingSize, RingsState>>
rings == <<CurrentRingIndex, RingKeys, RingKeysStatus, StatusKeys, PendingSuspensions,
           ActiveMembers, StaleRings, RingDeletionQueue>>
queue == <<QueuePageIndices, OnboardingQueue, QueueKeys>>
roots == <<Root, OldRoots, announced>>
vars == <<config, rings, Members, queue, roots, now>>
=============================================================================

---------------------------- MODULE MCRingRemoval ----------------------------
(* What is cleaned up by and by, a behaviour following one of four lines: of MembersSubscriber *)
(* the purges of two collections that are cleared time and again, the window of one ring with  *)
(* three revisions and the gap scan of three rings; of MemberRings the deletion of a           *)
(* collection.                                                                                 *)
EXTENDS MembersSubscriber

VARIABLES
    instance,
    lifecycle, OnboardingSize, RingsState, CurrentRingIndex, RingKeys, RingKeysStatus,
    StatusKeys, PendingSuspensions, ActiveMembers, StaleRings, RingDeletionQueue, Members,
    QueuePageIndices, OnboardingQueue, QueueKeys, Root, OldRoots, announced, members_now

memberVars ==
    <<lifecycle, OnboardingSize, RingsState, CurrentRingIndex, RingKeys, RingKeysStatus,
      StatusKeys, PendingSuspensions, ActiveMembers, StaleRings, RingDeletionQueue, Members,
      QueuePageIndices, OnboardingQueue, QueueKeys, Root, OldRoots, announced, members_now>>

\* What a behaviour of each line draws its inputs from, and how far it goes.
Limits ==
    [purge   |-> [collections |-> {1, 2}, rings |-> 2, revisions |-> {1}, batch |-> 1,
                  generations |-> 3, sequences |-> 0, clock |-> 0],
     windows |-> [collections |-> {1}, rings |-> 1, revisions |-> {1, 2, 3}, batch |-> 1,
                  generations |-> 1, sequences |-> 1, clock |-> 1],
     scan    |-> [collections |-> {1}, rings |-> 3, revisions |-> {1}, batch |-> 2,
                  generations |-> 0, sequences |-> 0, clock |-> 2]]

SomeRings(l) == SUBSET (0 .. l.rings - 1)

SomeBatches(l) ==
    UNION {[identifier : l.collections, sequence : 0 .. l.sequences, source_time : 0 .. now,
            next_ring_index : 0 .. l.rings, updates : [indices -> l.revisions \union {Deleted}]] :
                indices \in {i \in SomeRings(l) : Cardinality(i) <= l.batch}}

M == INSTANCE MemberRings WITH
        MemberKey <- {"x", "y"}, Mode <- "Flexible", RingCapacity <- 2, RingPageSize <- 2,
        RingBuildingMemberLimit <- 2, OnboardingQueuePageSize <- 1, QueuePageCount <- 2,
        OnboardingSizes <- {1}, SelfInclusionDelay <- 0, OrphanedMembersRemovalLimit <- 1,
        OldRootCleanupLimit <- 1, OwnerDeletes <- TRUE, MaxRing <- 1, MaxRevision <- 0,
        MaxSessions <- 1, MaxNow <- 0, now <- members_now

MCInit == instance \in {"purge", "windows", "scan", "deletion"} /\ Init /\ M!Init

OnSubscriber ==
    /\ instance # "deletion"
    /\ LET l == Limits[instance]
       IN  /\ \/ \E batch \in SomeBatches(l) : initialize_ring_roots(batch)
              \/ \E batch \in SomeBatches(l) : process_ring_updates(batch)
              \/ terminate_subscription
              \/ \E c \in l.collections, indices, sent \in SomeRings(l) :
                     replay_missing_roots(c, indices, sent)
              \/ \E removed \in SUBSET (l.collections \X (0 .. l.rings - 1)) :
                     purge_stale_ring_roots(removed)
              \/ \E c \in l.collections, cursor \in 0 .. l.rings : detect_missing_rings(c, cursor)
              \/ Tick
           /\ CurrentGeneration' <= l.generations /\ now' <= l.clock
    /\ UNCHANGED <<instance, memberVars>>

OnMembers == instance = "deletion" /\ M!Next /\ UNCHANGED <<instance, vars>>

MCNext == OnSubscriber \/ OnMembers

\* The offchain workers submit a purge, and the calls that delete a collection, at each of
\* their runs.
MCFairness ==
    /\ WF_vars(\E removed \in SUBSET (Identifier \X RingIndex) : purge_stale_ring_roots(removed))
    /\ WF_memberVars(instance = "deletion" /\ M!deletion_call)

MCSpec == MCInit /\ [][MCNext]_<<instance, vars, memberVars>> /\ MCFairness

\* What is cleaned up call by call is gone in the end: the entries of old generations on the
\* subscriber, whatever clears arrive meanwhile, and a deleted collection of the members pallet.
RemovalEnds == PurgeFinishes /\ M!DeletionFinishes
=============================================================================

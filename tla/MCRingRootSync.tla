--------------------------- MODULE MCRingRootSync ---------------------------
(* Small instances of RingRootSync, a behaviour being of one of them: one ring with two       *)
(* revisions over two subscriptions, and two rings over a subscription that stays, the scan   *)
(* and the replays of a gap included.                                                         *)
EXTENDS RingRootSync

CONSTANT Instances

VARIABLE instance

\* The keys of the rings are hashed into the opposite order.
MCStorageOrder == [r \in RingIndex |-> RingCount - r]

G == INSTANCE RingRootSync WITH
        RingCount <- 2, Revision <- {0}, StorageOrder <- [r \in {0, 1} |-> 2 - r],
        MaxUpdatesPerBatch <- 2, ChannelCapacity <- {0, 2}, UpdateTriggerBlocks <- 1,
        StuckBatchTimeout <- 1, NotifierReplayCooldown <- 1, MaxRecentRootsPerRing <- 2,
        MaxGeneration <- 0, MaxNow <- 1, MaxSubscriptions <- 1, MaxChannel <- 1

MCInit ==
    /\ instance \in Instances
    /\ IF instance = "ring" THEN Init ELSE G!Init

\* The owner deletes the collection late.
MCNext ==
    /\ \/ /\ instance = "ring" /\ Next
          /\ epoch < 2 => DeletedCollections' = {}
       \/ /\ instance = "gaps" /\ G!Next
          /\ Subscribers \subseteq Subscribers'
          /\ now = 0 => DeletedCollections' = {}
    /\ UNCHANGED instance

MCSpec == MCInit /\ [][MCNext]_<<instance, vars>>

RootsAgree == IF instance = "ring" THEN Agreement ELSE G!Agreement
=============================================================================

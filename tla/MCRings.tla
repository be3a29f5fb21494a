------------------------------- MODULE MCRings -------------------------------
(* The rings of a members collection, a behaviour being of one small instance: an append-only  *)
(* collection with rings of two pages, which has the constants of the cfg, a flexible one that *)
(* is filled and suspended from, and sparse rings that are merged while the collection may be  *)
(* deleted.                                                                                    *)
EXTENDS MemberRings, TLC

CONSTANTS m1, m2, m3, Instances

VARIABLE instance

MCMemberKey == {m1, m2, m3}
MCSymmetry == Permutations(MCMemberKey)

F == INSTANCE MemberRings WITH
        Mode <- "Flexible", RingPageSize <- 2, RingBuildingMemberLimit <- 2,
        QueuePageCount <- 2, OnboardingSizes <- {2}, SelfInclusionDelay <- 0,
        OwnerDeletes <- FALSE, MaxRevision <- 2, MaxSessions <- 1, MaxNow <- 0

M == INSTANCE SparseRings WITH
        MemberKey <- {"x", "y"}, Mode <- "Flexible", RingCapacity <- 4, RingPageSize <- 4,
        RingBuildingMemberLimit <- 2, OnboardingQueuePageSize <- 1, QueuePageCount <- 2,
        OnboardingSizes <- {1}, MaxRing <- 2, MaxRevision <- 1, MaxSessions <- 1, MaxNow <- 0

MCInit ==
    /\ instance \in Instances
    /\ CASE instance = "append" -> Init
         [] instance = "flexible" -> F!Init
         [] OTHER -> M!SparseInit

MCNext ==
    /\ \/ instance = "append" /\ Next
       \/ instance = "flexible" /\ F!Next
       \/ instance = "merge" /\ M!Next
    /\ UNCHANGED instance

MCSpec == MCInit /\ [][MCNext]_<<instance, vars>>

Of(append, flexible, merge) ==
    CASE instance = "append" -> append [] instance = "flexible" -> flexible [] OTHER -> merge

\* This depends on the sizes of the instance; the other properties are the same for all.

\* The totals of the rings and the number of active members are those of the stored keys, and
\* the ring that is being filled has room (available_ring, onboard_members, build_ring).
CountsMatch == Of(CountsExact, F!CountsExact, M!CountsExact)
=============================================================================

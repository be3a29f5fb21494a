SPECIFICATION MCSpec
CONSTANTS
    m1 = m1
    m2 = m2
    m3 = m3
    Instances = {"append", "flexible", "merge"}
    MemberKey <- MCMemberKey
    Mode = "AppendOnly"
    RingCapacity = 2
    RingPageSize = 1
    RingBuildingMemberLimit = 1
    OnboardingQueuePageSize = 2
    QueuePageCount = 3
    OnboardingSizes = {1, 2}
    SelfInclusionDelay = 1
    OldRootRetentionDuration = 1
    OrphanedMembersRemovalLimit = 1
    OldRootCleanupLimit = 1
    OwnerDeletes = TRUE
    MaxRing = 1
    MaxRevision = 3
    MaxSessions = 0
    MaxNow = 2
SYMMETRY MCSymmetry
INVARIANTS
    MembersExact
    CountsMatch
    RootExact
    NoRingLost
    NoResidue
    AnnouncedExact
PROPERTIES
    ProofsKept
CHECK_DEADLOCK FALSE

---------------------------- MODULE SparseRings ----------------------------
(* MemberRings from a state further on, where merges start. *)
EXTENDS MemberRings

\* Two rings that were filled and have since lost all keys but one, as suspensions leave
\* them, and a third that is to be filled.  (Two keys can fill rings
\* of four: a suspended key can be added again, and include itself, before it is taken
\* out of the ring.)  The clock counts from here.
SparseInit ==
    \E a, b \in MemberKey :
        LET ring(r) == IF r = 0 THEN <<a>> ELSE IF r = 1 THEN <<b>> ELSE <<>>
            root(r) == IF r < 2 THEN [revision |-> 0, keys |-> ring(r)] ELSE NoRoot
        IN  /\ a # b
            /\ lifecycle = "Live"
            /\ OnboardingSize \in OnboardingSizes
            /\ RingsState = 0
            /\ CurrentRingIndex = 2
            /\ RingKeys = [r \in RingIndex |-> [p \in RingPage |->
                                                   IF p = 0 THEN ring(r) ELSE <<>>]]
            /\ RingKeysStatus = [r \in RingIndex |->
                                    [NoStatus EXCEPT !.total = Len(ring(r)),
                                                     !.included = Len(ring(r))]]
            /\ StatusKeys = {0, 1}
            /\ PendingSuspensions = [r \in RingIndex |-> {}]
            /\ ActiveMembers = 2
            /\ StaleRings = {}
            /\ RingDeletionQueue = {}
            /\ Members = [m \in MemberKey |-> IF m = a THEN Included(0, 0, 0)
                                              ELSE IF m = b THEN Included(1, 0, 0)
                                              ELSE Suspended]
            /\ QueuePageIndices = [head |-> 0, tail |-> 0]
            /\ OnboardingQueue = [q \in QueuePage |-> <<>>]
            /\ QueueKeys = {}
            /\ Root = [r \in RingIndex |-> root(r)]
            /\ OldRoots = {}
            /\ now = 0
            /\ announced = [r \in RingIndex |-> root(r)]
=============================================================================

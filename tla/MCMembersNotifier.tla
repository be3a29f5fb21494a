------------------------- MODULE MCMembersNotifier -------------------------
(* Small instance of MembersNotifier.  A behaviour follows one of two lines: batches of one   *)
(* ring of a collection that stays, for two parachains, and pages of two rings for one.       *)
EXTENDS MembersNotifier

CONSTANTS p1, p2

VARIABLE instance

\* The keys of the rings are hashed into the opposite order.
MCStorageOrder == [r \in RingIndex |-> Cardinality({q \in RingIndex : q > r})]

MCWhitelist == [p \in ParaId |-> IF p = p1 THEN {1} ELSE {}]

MCInit ==
    /\ instance \in {"batches", "pages"}
    /\ Init
    /\ instance = "pages" => SubscriptionWhitelist \subseteq {p1}

MCNext ==
    /\ Next
    /\ \/ instance = "batches" /\ DeletedCollections' = {} /\ UNCHANGED CurrentRingIndex
       \/ instance = "pages" /\ Subscribers' \subseteq {p1}
    /\ UNCHANGED instance

MCSpec ==
    /\ MCInit /\ [][MCNext]_<<instance, vars>>
    /\ WF_vars(Tick) /\ WF_vars(abandon_stuck_batch)
=============================================================================

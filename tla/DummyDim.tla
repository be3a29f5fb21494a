------------------------------ MODULE DummyDim ------------------------------
(***************************************************************************)
(* pallets/dummy-dim: the origin that manages personhood by hand, on top   *)
(* of people-multi.  It keeps its own list of the ids it reserved and of   *)
(* the people it recognised.  Other ids and people come from               *)
(* force_recognize_personhood.                                             *)
(***************************************************************************)
EXTENDS PeopleMulti

CONSTANT MaxPersonBatchSize

VARIABLES
    ReservedIds,
    DimPeople                   \* personal id -> [key, suspended], NoRecord if none

vars == <<peopleVars, ReservedIds, DimPeople>>

NoRecord == [key |-> Nobody, suspended |-> FALSE]

reserve_ids(count) ==
    /\ count <= MaxPersonBatchSize
    /\ reserve_new_id(count)
    /\ ReservedIds' = ReservedIds \union (NextPersonalId .. NextPersonalId + count - 1)
    /\ UNCHANGED DimPeople

dim_renew_id_reservation(id) ==
    /\ renew_id_reservation(id)
    /\ ReservedIds' = ReservedIds \union {id}
    /\ UNCHANGED DimPeople

\* Mutant: the pallet's own reservation stays.
dim_cancel_id_reservation_kept(id) ==
    /\ cancel_id_reservation(id)
    /\ UNCHANGED <<ReservedIds, DimPeople>>

dim_cancel_id_reservation(id) ==
    /\ cancel_id_reservation(id)
    /\ ReservedIds' = ReservedIds \ {id}
    /\ UNCHANGED DimPeople

dim_recognize_personhood(people) ==
    /\ Cardinality(DOMAIN people) <= MaxPersonBatchSize
    /\ DOMAIN people \subseteq ReservedIds
    /\ recognize_personhood(people)
    /\ ReservedIds' = ReservedIds \ DOMAIN people
    /\ DimPeople' = [id \in PersonalId |-> IF id \in DOMAIN people
                                           THEN [key |-> people[id], suspended |-> FALSE]
                                           ELSE DimPeople[id]]

\* People that are not of this pallet fail the call after people-multi suspended them: the
\* whole call is undone.
dim_suspend_personhood(ids) ==
    /\ Cardinality(ids) <= MaxPersonBatchSize
    /\ suspend_personhood(ids)
    /\ \A id \in ids : DimPeople[id] # NoRecord
    /\ DimPeople' = [id \in PersonalId |-> IF id \in ids
                                           THEN [DimPeople[id] EXCEPT !.suspended = TRUE]
                                           ELSE DimPeople[id]]
    /\ UNCHANGED ReservedIds

resume_personhood(id) ==
    /\ DimPeople[id] # NoRecord /\ DimPeople[id].suspended
    /\ recognize_personhood_again(id)
    /\ DimPeople' = [DimPeople EXCEPT ![id].suspended = FALSE]
    /\ UNCHANGED ReservedIds

mutation_session ==
    /\ start_people_set_mutation_session \/ end_people_set_mutation_session
    /\ UNCHANGED <<ReservedIds, DimPeople>>

Batches == {ids \in SUBSET PersonalId : ids # {}}

DimCalls ==
    \/ \E count \in 1 .. MaxId : reserve_ids(count)
    \/ \E id \in PersonalId : \/ dim_renew_id_reservation(id) \/ dim_cancel_id_reservation(id)
                              \/ resume_personhood(id)
    \/ \E ids \in Batches : \/ dim_suspend_personhood(ids)
                            \/ \E people \in [ids -> Key] : dim_recognize_personhood(people)
    \/ mutation_session

Init == PeopleInit /\ ReservedIds = {} /\ DimPeople = [id \in PersonalId |-> NoRecord]

Next == DimCalls \/ (PeopleNext /\ UNCHANGED <<ReservedIds, DimPeople>>)

Spec == Init /\ [][Next]_vars
FairSpec == Spec /\ PeopleFairness

-----------------------------------------------------------------------------
(* Properties *)

\* The two pallets agree: what this one takes for reserved is, and the people it recognised
\* are people, with the same key, suspended in both or in none.
DimAgrees ==
    /\ ReservedIds \subseteq ReservedPersonalId
    /\ \A id \in PersonalId : DimPeople[id] # NoRecord =>
           /\ People[id].key = DimPeople[id].key
           /\ People[id].open = ~ DimPeople[id].suspended
=============================================================================

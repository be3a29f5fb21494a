-------------------------------- MODULE Pgas --------------------------------
(* pallets/pgas: people claim gas once for every slot of every day, by an alias that belongs *)
(* to the day and the slot; the records of the days that are over are cleaned in the            *)
(* background.                                                                                  *)
EXTENDS Integers, FiniteSets, FiniteSetsExt

CONSTANTS
    Member,                         \* the people, of either collection
    MaxClaims,                      \* member -> the slots its collection has a day
    MaxPgasClaimRecordCleanupPerCall, MaxPgasClaimsPerBatch,
    SECS_PER_DAY, PGAS_DAY_GRACE_WINDOW,
    MaxNow                          \* bound: the clock

Day == 0 .. MaxNow \div SECS_PER_DAY
Slot == 0 .. Max({MaxClaims[p] : p \in Member}) - 1

VARIABLES
    ClaimedGasAliases,              \* day -> the aliases, each of a member and a slot
    asset_exists,
    minted,                         \* day -> alias -> how often gas was minted for it
    now

vars == <<ClaimedGasAliases, asset_exists, minted, now>>

Init ==
    /\ ClaimedGasAliases = [d \in Day |-> {}]
    /\ asset_exists \in BOOLEAN
    /\ minted = [d \in Day |-> [x \in Member \X Slot |-> 0]]
    /\ now = 0

current_day == now \div SECS_PER_DAY

grace_day == (IF now < PGAS_DAY_GRACE_WINDOW THEN 0 ELSE now - PGAS_DAY_GRACE_WINDOW) \div SECS_PER_DAY

create_pgas_asset ==
    /\ ~asset_exists
    /\ asset_exists' = TRUE
    /\ UNCHANGED <<ClaimedGasAliases, minted, now>>

\* `validate_batch_claim` and `batch_claim_pgas`: different slots of the member's collection, none
\* of them claimed; all of them or none.  `claim_pgas` is the claim of one slot.
batch_claim_pgas(p, day, slots) ==
    LET aliases == {p} \X slots IN
    /\ slots # {} /\ Cardinality(slots) <= MaxPgasClaimsPerBatch
    /\ \A s \in slots : s < MaxClaims[p]
    /\ asset_exists
    /\ day \in {current_day, grace_day}
    /\ aliases \cap ClaimedGasAliases[day] = {}
    /\ ClaimedGasAliases' = [ClaimedGasAliases EXCEPT ![day] = @ \cup aliases]
    /\ minted' = [minted EXCEPT ![day] =
            [x \in DOMAIN @ |-> IF x \in aliases THEN @[x] + 1 ELSE @[x]]]
    /\ UNCHANGED <<asset_exists, now>>

authorize_clean_pgas_claim_records(day) ==
    day < grace_day /\ ClaimedGasAliases[day] # {}

\* `clear_prefix` removes as many records of the day as a call may.
clean_pgas_claim_records(day, cleared) ==
    /\ authorize_clean_pgas_claim_records(day)
    /\ cleared \subseteq ClaimedGasAliases[day]
    /\ Cardinality(cleared) =
            Min({MaxPgasClaimRecordCleanupPerCall, Cardinality(ClaimedGasAliases[day])})
    /\ ClaimedGasAliases' = [ClaimedGasAliases EXCEPT ![day] = @ \ cleared]
    /\ UNCHANGED <<asset_exists, minted, now>>

Tick ==
    /\ now < MaxNow
    /\ now' = now + 1
    /\ UNCHANGED <<ClaimedGasAliases, asset_exists, minted>>

Next ==
    \/ create_pgas_asset
    \/ \E p \in Member, day \in Day, slots \in SUBSET Slot : batch_claim_pgas(p, day, slots)
    \/ \E day \in Day : \E cleared \in SUBSET ClaimedGasAliases[day] :
        clean_pgas_claim_records(day, cleared)
    \/ Tick

Spec == Init /\ [][Next]_vars

-----------------------------------------------------------------------------
(* Properties *)

\* Gas is minted at most once for an alias of a day, though the record of the claim is removed
\* later: a day whose records are cleaned can no longer be claimed, across midnight and in
\* the grace window after it.
MintedOnce == \A d \in Day : \A x \in Member \X Slot : minted[d][x] <= 1
=============================================================================

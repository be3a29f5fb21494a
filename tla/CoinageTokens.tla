---------------------------- MODULE CoinageTokens ----------------------------
(***************************************************************************)
(* pallets/coinage: the tokens that pay for an unload in advance.  People  *)
(* have free tokens in every period, identified by a counter; anyone buys  *)
(* a token by putting a key in the collection of the current period        *)
(* (paid_tkn_manager.rs).  A token is consumed by the transaction whether  *)
(* or not its call succeeds.  Records of old periods are cleaned by        *)
(* authorised transactions.                                                *)
(*                                                                         *)
(* Proofs are sound: a token is the person and the counter, or the key, it *)
(* is proved with.  The keys of a period are in rings before the period    *)
(* expires: members takes them in one by one.                              *)
(***************************************************************************)
EXTENDS Integers, Sequences, FiniteSets, FiniteSetsExt

CONSTANTS
    Person, Key,
    FreeTokens,                 \* person -> free tokens in a period
    UnloadTokenTimePeriod, FREE_UNLOAD_TOKEN_GRACE_WINDOW, CLEAN_CONSUMED_FREE_TOKEN_LIMIT,
    PaidUnloadTokenTimePeriod, PaidUnloadTokenRingExpirationTime, RingSize,
    DUST_CLEANUP_BATCH_SIZE,
    MaxNow                      \* bound on the clock

VARIABLES
    ConsumedFreeUnloadTokens,   \* set of [period, person, counter]
    PaidUnloadTokenMembers,     \* keys that may not buy another token
    PaidUnloadTokenConsumed,    \* set of [period, ring, key]
    PaidTokenCollectionsCreated,            \* set of periods
    PaidUnloadTokenNextRingToClean,         \* period -> index
    PaidUnloadTokenDusting,     \* set of periods
    paid_rings,                 \* members: period -> keys in the order they were added
    now,
    freeUses, paidUses          \* history: records, with the times the token was consumed

freeVars == <<ConsumedFreeUnloadTokens, freeUses>>
consumed == <<PaidUnloadTokenConsumed, paidUses>>
collections == <<PaidUnloadTokenMembers, PaidTokenCollectionsCreated, PaidUnloadTokenNextRingToClean,
                 PaidUnloadTokenDusting, paid_rings>>
vars == <<freeVars, consumed, collections, now>>

PaidPeriod == 0 .. MaxNow \div PaidUnloadTokenTimePeriod
FreeToken == [period : 0 .. MaxNow \div UnloadTokenTimePeriod, person : Person,
              counter : UNION {0 .. FreeTokens[p] - 1 : p \in Person}]

-----------------------------------------------------------------------------
(* Free tokens *)

\* Now, and a while ago: a token made at the end of a period can be used just after it.
current_free_unload_token_periods ==
    {(IF now > FREE_UNLOAD_TOKEN_GRACE_WINDOW THEN now - FREE_UNLOAD_TOKEN_GRACE_WINDOW ELSE 0)
        \div UnloadTokenTimePeriod,
     now \div UnloadTokenTimePeriod}

use_free_token(token) ==
    /\ token.period \in current_free_unload_token_periods
    /\ token.counter < FreeTokens[token.person]
    /\ token \notin ConsumedFreeUnloadTokens
    /\ ConsumedFreeUnloadTokens' = ConsumedFreeUnloadTokens \union {token}
    /\ freeUses' = [freeUses EXCEPT ![token] = @ + 1]
    /\ UNCHANGED <<consumed, collections, now>>

\* Mutant: a period is over when the next has begun.
authorize_clean_consumed_free_token_grace(period) ==
    /\ period < now \div UnloadTokenTimePeriod
    /\ \E token \in ConsumedFreeUnloadTokens : token.period = period

authorize_clean_consumed_free_token(period) ==
    /\ \A current \in current_free_unload_token_periods : period < current
    /\ \E token \in ConsumedFreeUnloadTokens : token.period = period

clean_consumed_free_token(period) ==
    LET of == {token \in ConsumedFreeUnloadTokens : token.period = period} IN
    /\ authorize_clean_consumed_free_token(period)
    /\ \E cleared \in kSubset(Min({CLEAN_CONSUMED_FREE_TOKEN_LIMIT, Cardinality(of)}), of) :
           ConsumedFreeUnloadTokens' = ConsumedFreeUnloadTokens \ cleared
    /\ UNCHANGED <<freeUses, consumed, collections, now>>

-----------------------------------------------------------------------------
(* Paid tokens *)

current_period == now \div PaidUnloadTokenTimePeriod

period_expiration_time(period) ==
    (period + 1) * PaidUnloadTokenTimePeriod + PaidUnloadTokenRingExpirationTime

\* Keys of a ring of the collection of a period.
RingOf(period, k) ==
    LET i == CHOOSE i \in DOMAIN paid_rings[period] : paid_rings[period][i] = k
    IN (i - 1) \div RingSize
InCollection(period) == {paid_rings[period][i] : i \in DOMAIN paid_rings[period]}
ring_members(period, index) == {k \in InCollection(period) : RingOf(period, k) = index}

create_paid_token_collection ==
    /\ current_period \notin PaidTokenCollectionsCreated
    /\ PaidTokenCollectionsCreated' = PaidTokenCollectionsCreated \union {current_period}
    /\ UNCHANGED <<freeVars, consumed, PaidUnloadTokenMembers, PaidUnloadTokenNextRingToClean,
                   PaidUnloadTokenDusting, paid_rings, now>>

\* Creates the collection of the period if it is not there.
add_member(k) ==
    /\ k \notin PaidUnloadTokenMembers
    /\ PaidTokenCollectionsCreated' = PaidTokenCollectionsCreated \union {current_period}
    /\ paid_rings' = [paid_rings EXCEPT ![current_period] = Append(@, k)]
    /\ PaidUnloadTokenMembers' = PaidUnloadTokenMembers \union {k}
    /\ UNCHANGED <<freeVars, consumed, PaidUnloadTokenNextRingToClean, PaidUnloadTokenDusting, now>>

validate_token_consumption_proof(period, k) ==
    /\ k \in InCollection(period)
    /\ now < period_expiration_time(period)
    /\ [period |-> period, ring |-> RingOf(period, k), key |-> k] \notin PaidUnloadTokenConsumed

use_paid_token(period, k) ==
    /\ validate_token_consumption_proof(period, k)
    /\ PaidUnloadTokenConsumed' = PaidUnloadTokenConsumed
           \union {[period |-> period, ring |-> RingOf(period, k), key |-> k]}
    /\ paidUses' = [paidUses EXCEPT ![period][k] = @ + 1]
    /\ UNCHANGED <<freeVars, collections, now>>

\* The ring stays in members; its keys may buy tokens again.
clean_paid_unload_token_ring(period) ==
    LET ring_index == PaidUnloadTokenNextRingToClean[period] IN
    /\ period \in PaidTokenCollectionsCreated
    /\ now >= period_expiration_time(period)
    /\ ring_members(period, ring_index) # {}
    /\ PaidUnloadTokenMembers' = PaidUnloadTokenMembers \ ring_members(period, ring_index)
    /\ PaidUnloadTokenNextRingToClean' = [PaidUnloadTokenNextRingToClean EXCEPT ![period] = @ + 1]
    /\ UNCHANGED <<freeVars, consumed, PaidTokenCollectionsCreated, PaidUnloadTokenDusting,
                   paid_rings, now>>

ensure_can_delete_collection(period) ==
    /\ period \in PaidTokenCollectionsCreated
    /\ now >= period_expiration_time(period)
    /\ ring_members(period, PaidUnloadTokenNextRingToClean[period]) = {}

delete_expired_paid_unload_token_collection(period) ==
    /\ ensure_can_delete_collection(period)
    /\ paid_rings' = [paid_rings EXCEPT ![period] = <<>>]
    /\ PaidTokenCollectionsCreated' = PaidTokenCollectionsCreated \ {period}
    /\ PaidUnloadTokenNextRingToClean' = [PaidUnloadTokenNextRingToClean EXCEPT ![period] = 0]
    /\ PaidUnloadTokenDusting' = IF \E c \in PaidUnloadTokenConsumed : c.period = period
                                 THEN PaidUnloadTokenDusting \union {period}
                                 ELSE PaidUnloadTokenDusting
    /\ UNCHANGED <<freeVars, consumed, PaidUnloadTokenMembers, now>>

clean_paid_unload_token_dust ==
    \E period \in PaidUnloadTokenDusting :
        LET of == {c \in PaidUnloadTokenConsumed : c.period = period} IN
        /\ \E cleared \in kSubset(Min({DUST_CLEANUP_BATCH_SIZE, Cardinality(of)}), of) :
               /\ PaidUnloadTokenConsumed' = PaidUnloadTokenConsumed \ cleared
               /\ PaidUnloadTokenDusting' = IF cleared = of THEN PaidUnloadTokenDusting \ {period}
                                            ELSE PaidUnloadTokenDusting
        /\ UNCHANGED <<freeVars, paidUses, PaidUnloadTokenMembers, PaidTokenCollectionsCreated,
                       PaidUnloadTokenNextRingToClean, paid_rings, now>>

-----------------------------------------------------------------------------
(* The specification *)

Tick ==
    /\ now < MaxNow
    /\ now' = now + 1
    /\ UNCHANGED <<freeVars, consumed, collections>>

Init ==
    /\ ConsumedFreeUnloadTokens = {}
    /\ PaidUnloadTokenMembers = {}
    /\ PaidUnloadTokenConsumed = {}
    /\ PaidTokenCollectionsCreated = {}
    /\ PaidUnloadTokenNextRingToClean = [p \in PaidPeriod |-> 0]
    /\ PaidUnloadTokenDusting = {}
    /\ paid_rings = [p \in PaidPeriod |-> <<>>]
    /\ now = 0
    /\ freeUses = [t \in FreeToken |-> 0]
    /\ paidUses = [p \in PaidPeriod |-> [k \in Key |-> 0]]

Next ==
    \/ \E token \in FreeToken : use_free_token(token)
    \/ \E p \in 0 .. MaxNow \div UnloadTokenTimePeriod : clean_consumed_free_token(p)
    \/ create_paid_token_collection
    \/ \E k \in Key : add_member(k)
    \/ \E p \in PaidPeriod :
           \/ \E k \in Key : use_paid_token(p, k)
           \/ clean_paid_unload_token_ring(p)
           \/ delete_expired_paid_unload_token_collection(p)
    \/ clean_paid_unload_token_dust
    \/ Tick

Spec == Init /\ [][Next]_vars

-----------------------------------------------------------------------------
(* Properties *)

(* A token, free or paid, pays for one unload, also after the record of its consumption was    *)
(* cleaned: no record is cleaned while its token would still be accepted, with the grace       *)
(* window of the free tokens and with the two steps in which a collection is deleted and its   *)
(* records are removed.                                                                        *)
TokensOnce ==
    /\ \A t \in DOMAIN freeUses : freeUses[t] <= 1
    /\ \A p \in DOMAIN paidUses : \A k \in DOMAIN paidUses[p] : paidUses[p][k] <= 1

(* The keys that may not buy a token are those in the rings, not yet cleaned, of the           *)
(* collections there are: no key is locked out for good, and none is in two rings whose tokens *)
(* can both be consumed unless it bought both.                                                 *)
PaidKeysExact ==
    PaidUnloadTokenMembers =
        UNION {{k \in InCollection(p) : RingOf(p, k) >= PaidUnloadTokenNextRingToClean[p]} :
               p \in PaidTokenCollectionsCreated}

(* A token that was bought can be consumed for PaidUnloadTokenRingExpirationTime after the end  *)
(* of its period, whatever was cleaned in the meantime, also if it was bought at its very end. *)
PaidTokensLast ==
    \A p \in DOMAIN paid_rings :
        now < (p + 1) * PaidUnloadTokenTimePeriod + PaidUnloadTokenRingExpirationTime =>
            /\ InCollection(p) # {} => p \in PaidTokenCollectionsCreated
            /\ \A k \in InCollection(p) : paidUses[p][k] = 0 => validate_token_consumption_proof(p, k)
=============================================================================

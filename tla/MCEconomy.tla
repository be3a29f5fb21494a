------------------------------ MODULE MCEconomy ------------------------------
(* The parts of the economy, one per behaviour (they do not call each other here): the coins  *)
(* of three owners; recyclers of two values and two keys; keys of one value loaded again      *)
(* after their ring was cleaned; deposits of two keys, and the prices of the deposits of      *)
(* three, in two assets; free tokens; paid tokens; and the pallets that give people something *)
(* for free, so much and no more (people-lite, honour, origin-restriction, pgas), with        *)
(* chunks-manager.                                                                            *)
EXTENDS Coinage

CONSTANT Nobody

VARIABLES
    part,
    ConsumedFreeUnloadTokens, PaidUnloadTokenMembers, PaidUnloadTokenConsumed,
    PaidTokenCollectionsCreated, PaidUnloadTokenNextRingToClean, PaidUnloadTokenDusting,
    paid_rings, freeUses, paidUses,
    LitePeople, AttestationAllowance, PaidRegistrations, LitePeopleCollectionCreated,
    AliasToAccount, AccountToAlias, sufficients, AccountContexts, members, ring_revision,
    granted, attested, paid,
    Points, Votes, Tally, bestowed,
    Usages, spent,
    ClaimedGasAliases, asset_exists, minted,
    Chunks, ChunkPageHashes,
    clock

tokenVars ==
    <<ConsumedFreeUnloadTokens, PaidUnloadTokenMembers, PaidUnloadTokenConsumed,
      PaidTokenCollectionsCreated, PaidUnloadTokenNextRingToClean, PaidUnloadTokenDusting,
      paid_rings, freeUses, paidUses>>

MCLoadDeposits == {[asset_id |-> "a", price |-> 1]}

C == INSTANCE Coinage WITH
        Owner <- {"o1", "o2", "o3"}, Key <- {"k"}, RingSize <- 1

A == INSTANCE Coinage WITH
        Owner <- {}, MaximumExponent <- 0, MaxIndex <- 1, MaxNow <- 3

D == INSTANCE Coinage WITH
        Owner <- {}, MaximumExponent <- 0,
        DepositAsset <- {"a", "b"}, Funder <- {"f"}, MaxContribution <- 3,
        Modes <- {"sufficient", "sponsored"},
        LoadDeposits <- {[asset_id |-> "a", price |-> 1], [asset_id |-> "b", price |-> 2]}

E == INSTANCE Coinage WITH
        Owner <- {}, Key <- {"x", "y", "z"}, MaximumExponent <- 0, RingSize <- 3, MaxNow <- 0,
        DepositAsset <- {"a", "b"}, Funder <- {"f"}, MaxContribution <- 3,
        Modes <- {"sponsored"},
        LoadDeposits <- {[asset_id |-> "a", price |-> 1], [asset_id |-> "b", price |-> 2]}

F == INSTANCE CoinageTokens WITH
        Person <- {"p"}, Key <- {}, FreeTokens <- [p |-> 2],
        UnloadTokenTimePeriod <- 2, FREE_UNLOAD_TOKEN_GRACE_WINDOW <- 1,
        CLEAN_CONSUMED_FREE_TOKEN_LIMIT <- 1, PaidUnloadTokenTimePeriod <- 2,
        PaidUnloadTokenRingExpirationTime <- 1, RingSize <- 1, DUST_CLEANUP_BATCH_SIZE <- 1,
        MaxNow <- 4, now <- clock

P == INSTANCE CoinageTokens WITH
        Person <- {}, Key <- {"x", "y"}, FreeTokens <- <<>>,
        UnloadTokenTimePeriod <- 2, FREE_UNLOAD_TOKEN_GRACE_WINDOW <- 1,
        CLEAN_CONSUMED_FREE_TOKEN_LIMIT <- 1, PaidUnloadTokenTimePeriod <- 2,
        PaidUnloadTokenRingExpirationTime <- 1, RingSize <- 1, DUST_CLEANUP_BATCH_SIZE <- 1,
        MaxNow <- 5, now <- clock

L == INSTANCE PeopleLite WITH
        Key <- {"k1", "k2", "k3"}, Account <- {"a1", "a2", "a3"}, Verifier <- {"v"},
        Context <- {"c"}, Alias <- {"x"}, ContextOf <- [x \in {"x"} |-> "c"],
        MaxLitePeople <- 3, PaidRegistrationThreshold <- 1, PaidRegistrationPeriod <- 2,
        PaidRegistrationsPerPeriod <- 1, MaxAllowance <- 2, MaxNow <- 4, MaxRevision <- 1,
        now <- clock

H == INSTANCE Honour WITH
        Voter <- {"u"}, Point <- {1, 2}, Subject <- {"s", "t"}, PointFreezeDuration <- 2,
        CallMortality <- 4, MaxNow <- 4, now <- clock

O == INSTANCE OriginRestriction WITH
        None <- Nobody, Entity <- {"e"}, Fees <- {0, 1, 2, 4}, AllowanceMax <- 3,
        RecoveryPerBlock <- 1, MaxNow <- 4, now <- clock

G == INSTANCE Pgas WITH
        Member <- {"p", "l"}, MaxClaims <- [p |-> 2, l |-> 1],
        MaxPgasClaimRecordCleanupPerCall <- 2, MaxPgasClaimsPerBatch <- 2, SECS_PER_DAY <- 2,
        PGAS_DAY_GRACE_WINDOW <- 1, MaxNow <- 6, now <- clock

K == INSTANCE ChunksManager WITH
        None <- Nobody, Exponents <- {0, 2}, PageSize <- 2,
        Pages <- {<<1, 2>>, <<3>>}

liteVars == <<LitePeople, AttestationAllowance, PaidRegistrations, LitePeopleCollectionCreated,
              AliasToAccount, AccountToAlias, sufficients, AccountContexts, members,
              ring_revision, granted, attested, paid>>
honourVars == <<Points, Votes, Tally, bestowed>>
usageVars == <<Usages, spent>>
gasVars == <<ClaimedGasAliases, asset_exists, minted>>
chunkVars == <<Chunks, ChunkPageHashes>>

MCInit ==
    /\ part \in {"coins", "rings", "again", "deposits", "prices", "free", "paid",
                "people-lite", "honour", "origin-restriction", "pgas", "chunks-manager"}
    /\ CASE part = "coins" -> C!Init [] part = "again" -> A!Init [] part = "deposits" -> D!Init
         [] part = "prices" -> E!Init [] OTHER -> Init
    /\ IF part = "free" THEN F!Init ELSE P!Init
    /\ L!Init /\ H!Init /\ O!Init /\ G!Init /\ K!Init
    /\ part # "people-lite" => LitePeopleCollectionCreated
    /\ part # "pgas" => asset_exists

OnCoinage ==
    /\ \/ part = "rings" /\ Next
       \/ part = "coins" /\ C!Next
       \/ part = "again" /\ A!Next
       \/ part = "deposits" /\ D!Next
       \/ part = "prices" /\ E!Next
    /\ UNCHANGED <<tokenVars, clock>>

OnTokens ==
    /\ \/ part = "free" /\ F!Next
       \/ part = "paid" /\ P!Next
    /\ UNCHANGED vars

OnAllowances ==
    /\ \/ /\ part = "people-lite" /\ L!Next
          /\ UNCHANGED <<honourVars, usageVars, gasVars, chunkVars>>
       \/ /\ part = "honour" /\ H!Next
          /\ UNCHANGED <<liteVars, usageVars, gasVars, chunkVars>>
       \/ /\ part = "origin-restriction" /\ O!Next
          /\ UNCHANGED <<liteVars, honourVars, gasVars, chunkVars>>
       \/ /\ part = "pgas" /\ G!Next
          /\ UNCHANGED <<liteVars, honourVars, usageVars, chunkVars>>
       \/ /\ part = "chunks-manager" /\ K!Next
          /\ UNCHANGED <<liteVars, honourVars, usageVars, gasVars, clock>>
    /\ UNCHANGED <<vars, tokenVars>>

allowanceVars == <<liteVars, honourVars, usageVars, gasVars, chunkVars>>

MCNext ==
    /\ \/ (OnCoinage \/ OnTokens) /\ UNCHANGED allowanceVars
       \/ OnAllowances
    /\ UNCHANGED part

MCSpec == MCInit /\ [][MCNext]_<<part, vars, tokenVars, allowanceVars, clock>>

Of(inCoins, inAgain, inDeposits, inPrices, inRings) ==
    CASE part = "coins" -> inCoins [] part = "again" -> inAgain
      [] part = "deposits" -> inDeposits [] part = "prices" -> inPrices [] OTHER -> inRings

\* The coins and recyclers are backed by what the pots hold, and the pots by the deposits.
Backed == Of(C!ValueBacked, A!ValueBacked, D!ValueBacked, E!ValueBacked, ValueBacked)

\* What people get for free or for a payment they get once: unload tokens, attestations and
\* registrations, votes, allowances of fees and the gas of a day.
UsedOnce ==
    /\ P!TokensOnce /\ P!PaidKeysExact /\ P!PaidTokensLast
    /\ L!AllowanceKept /\ L!ThrottleKept
    /\ H!TallyExact /\ H!VoteOnce
    /\ O!RateLimited
    /\ G!MintedOnce

\* A lite person's account is linked and referenced exactly once.
LiteAccountsExact == L!LiteAccountsExact

\* Every way to read a parameter finds the same chunk, and a page once stored stays.
ChunksExact == [](part = "chunks-manager" => K!RangesAgree /\ K!IndexesWrap) /\ K!PagesStay
=============================================================================

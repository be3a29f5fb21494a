------------------------------- MODULE Coinage -------------------------------
(***************************************************************************)
(* pallets/coinage: the coins of one instance, each worth a power of two   *)
(* of the wrapped asset, and the recyclers that break the trace of a coin: *)
(* rings of keys of one value, from which the value of a key is taken out  *)
(* once, under its alias.  Expired rings are archived, and the value left  *)
(* in them is recovered against a commitment.                              *)
(*                                                                         *)
(* Proofs are sound: an alias stands for the key of a ring's member, and   *)
(* the same key has the same alias in every ring.  The unload tokens that  *)
(* pay for an unload in advance are in CoinageTokens.  Fees move with the  *)
(* market.  A call that fails is undone; the transaction extension locks   *)
(* the coin or the alias that it was made with.                            *)
(***************************************************************************)
EXTENDS CoinagePot

CONSTANTS
    Owner, Key,
    MaximumExponent,
    MaximumAge,
    MinimumExponentForOutputUnloadFee,
    RingSize,
    RecyclerExpirationTime,
    CoinFailureLockPeriod,
    DUST_CLEANUP_BATCH_SIZE,
    Fees,                       \* fees of an unload, in the wrapped asset
    MaxIndex,                   \* bound on the rings of a value
    MaxNow                      \* bound on the clock

ASSUME RecyclerAssumption ==    \* finitely many keys; sizes and times as the runtime sets them
    /\ IsFiniteSet(Key)
    /\ MaximumExponent \in Nat
    /\ RingSize \in Nat \ {0}
    /\ CoinFailureLockPeriod \in Nat
    /\ MaxIndex \in Nat /\ MaxNow \in Nat

Value == 0 .. MaximumExponent
Recycler == Value \X (0 .. MaxIndex)

VARIABLES
    CoinsByOwner,               \* owner -> [value, age], NoCoin
    LockedCoins,                \* owner -> [retries, until], NotLocked
    TotalValueOfDestroyedCoins,
    wrapped,                    \* asset held in the account of the pallet
    RecyclersCoinToRecycler,    \* key -> value, NoValue
    RecyclerAliasStates,        \* recycler -> key -> NoState, Unloaded or a lock
    RecyclersUnloadedCount,     \* recycler -> count, NotCounted
    RecyclersLastRemovedRingIndex,          \* value -> index, -1
    RecyclersArchives,          \* recycler -> [root, unloaded, remaining], NoArchive
    RecyclersDusting,
    queue,                      \* members: value -> keys waiting for a ring
    rings,                      \* members: recycler -> [members, immutable_since]
    now,
    joined, redeemed,           \* history: recycler -> keys, and times the key was paid out
    collateral                  \* history: FALSE once the mode changed while keys were loaded

coinVars == <<CoinsByOwner, LockedCoins>>
aliasVars == <<RecyclerAliasStates, RecyclersUnloadedCount>>
loadVars == <<RecyclersCoinToRecycler, queue>>
ringVars == <<RecyclersLastRemovedRingIndex, RecyclersArchives, RecyclersDusting, rings, joined>>
deposits == <<LoadDeposit, PotContributions, collateral>>
vars == <<coinVars, TotalValueOfDestroyedCoins, wrapped, loadVars, aliasVars, ringVars, redeemed,
          now, pot, deposits>>

NoCoin == [value |-> -1, age |-> 0]
NoState == [retries |-> -1, until |-> 0]
Unloaded == [retries |-> -2, until |-> 0]
NotLocked == NoState
NotCounted == -1
NoValue == -1
NoArchive == [root |-> {}, unloaded |-> {}, remaining |-> 0]
Never == -1

Worth(v) == 2 ^ v
Only(x, value) == [y \in {x} |-> value]
Owning == {o \in Owner : CoinsByOwner[o] # NoCoin}
UnloadedOf(r) == {k \in DOMAIN RecyclerAliasStates[r] : RecyclerAliasStates[r][k] = Unloaded}

-----------------------------------------------------------------------------
(* Coins: the transaction takes the coin of its signer *)

failed_dispatch_lock(lock) ==
    LET retries == IF lock = NotLocked THEN 0 ELSE lock.retries + 1
    IN [retries |-> retries, until |-> now + 2 ^ retries * CoinFailureLockPeriod]

CanUse(o) == CoinsByOwner[o] # NoCoin /\ now >= LockedCoins[o].until
Young(o) == CoinsByOwner[o].age < MaximumAge

\* The coin of o is spent, coins are put where there were none; the lock of o goes with its coin.
Spent(o, coins) ==
    /\ CoinsByOwner' = [p \in Owner |-> IF p \in DOMAIN coins THEN coins[p]
                                        ELSE IF p = o THEN NoCoin ELSE CoinsByOwner[p]]
    /\ LockedCoins' = [LockedCoins EXCEPT ![o] = NotLocked]

NoCoins == <<>>

\* Coins of the given values at owners that have none, worth units in all.
IsSplit(values, units) ==
    /\ DOMAIN values \cap Owning = {}
    /\ MapThenSumSet(LAMBDA o : Worth(values[o]), DOMAIN values) = units

Splits == UNION {[D -> Value] : D \in SUBSET Owner}

split(o, values) ==
    /\ CanUse(o) /\ Young(o)
    /\ IsSplit(values, Worth(CoinsByOwner[o].value))
    /\ Spent(o, [p \in DOMAIN values |-> [value |-> values[p], age |-> CoinsByOwner[o].age + 1]])
    /\ UNCHANGED <<TotalValueOfDestroyedCoins, wrapped, loadVars, aliasVars, ringVars, redeemed, now,
                   pot, deposits>>

transfer(o, to) ==
    /\ CanUse(o) /\ Young(o)
    /\ CoinsByOwner[to] = NoCoin
    /\ Spent(o, Only(to, [CoinsByOwner[o] EXCEPT !.age = @ + 1]))
    /\ UNCHANGED <<TotalValueOfDestroyedCoins, wrapped, loadVars, aliasVars, ringVars, redeemed, now,
                   pot, deposits>>

direct_offboard_coin_into_external_asset(o) ==
    /\ CanUse(o)
    /\ Spent(o, NoCoins)
    /\ wrapped' = wrapped - Worth(CoinsByOwner[o].value)
    /\ UNCHANGED <<TotalValueOfDestroyedCoins, loadVars, aliasVars, ringVars, redeemed, now, pot,
                   deposits>>

\* Mutant: what the fee leaves of the coin is not recorded.
pay_for_recycler_unload_fee_token_with_coin_lost(o, fee) ==
    LET amount == Worth(CoinsByOwner[o].value) IN
    /\ CanUse(o) /\ Young(o)
    /\ fee <= amount
    /\ Spent(o, NoCoins)
    /\ wrapped' = wrapped - fee
    /\ UNCHANGED <<TotalValueOfDestroyedCoins, loadVars, aliasVars, ringVars, redeemed, now, pot,
                   deposits>>

\* The token the fee is for is added by CoinageTokens.
pay_for_recycler_unload_fee_token_with_coin(o, fee) ==
    LET amount == Worth(CoinsByOwner[o].value) IN
    /\ CanUse(o) /\ Young(o)
    /\ fee <= amount
    /\ Spent(o, NoCoins)
    /\ wrapped' = wrapped - fee
    /\ TotalValueOfDestroyedCoins' = TotalValueOfDestroyedCoins + (amount - fee)
    /\ UNCHANGED <<loadVars, aliasVars, ringVars, redeemed, now, pot, deposits>>

\* post_dispatch of a call that failed: the fee moved above the coin, or the asset could not be
\* paid out.  The coin is put back.
coin_call_fails(o) ==
    /\ CanUse(o)
    /\ LockedCoins' = [LockedCoins EXCEPT ![o] = failed_dispatch_lock(@)]
    /\ UNCHANGED <<CoinsByOwner, TotalValueOfDestroyedCoins, wrapped, loadVars, aliasVars, ringVars,
                   redeemed, now, pot, deposits>>

-----------------------------------------------------------------------------
(* Loading keys *)

is_member_key_used(k) == RecyclersCoinToRecycler[k] # NoValue

\* Keys, each with its value, wait for a ring.
load(keys) ==
    /\ \A k \in DOMAIN keys : ~ is_member_key_used(k)
    /\ RecyclersCoinToRecycler' = [k \in Key |-> IF k \in DOMAIN keys THEN keys[k]
                                                 ELSE RecyclersCoinToRecycler[k]]
    /\ queue' = [v \in Value |-> queue[v] \union {k \in DOMAIN keys : keys[k] = v}]

Charge(p, n) == CanCharge(p, n) /\ pot' = charge_load_deposit(p, n)

load_recycler_with_coin(o, k) ==
    /\ CanUse(o)
    /\ load(Only(k, CoinsByOwner[o].value))
    /\ Charge(pot, 1)
    /\ Spent(o, NoCoins)
    /\ UNCHANGED <<TotalValueOfDestroyedCoins, wrapped, aliasVars, ringVars, redeemed, now, deposits>>

\* Also the unpaid load; one key for the signed call and several for the batch, charged at once.
load_recycler_with_external_asset(keys) ==
    /\ load(keys)
    /\ Charge(pot, Cardinality(DOMAIN keys))
    /\ wrapped' = wrapped + MapThenSumSet(LAMBDA k : Worth(keys[k]), DOMAIN keys)
    /\ UNCHANGED <<coinVars, TotalValueOfDestroyedCoins, aliasVars, ringVars, redeemed, now, deposits>>

\* members takes keys into the first ring that has room; a full ring no longer changes.  External.
onboard(v, keys) ==
    LET open == {i \in 0 .. MaxIndex : rings[<<v, i>>].immutable_since = Never}
        r == <<v, Min(open)>>
        filled == rings[r].members \union keys
    IN /\ open # {}
       /\ Cardinality(filled) <= RingSize
       /\ rings' = [rings EXCEPT ![r] =
                       [members |-> filled,
                        immutable_since |-> IF Cardinality(filled) = RingSize THEN now ELSE Never]]
       /\ joined' = [joined EXCEPT ![r] = @ \union keys]
       /\ queue' = [queue EXCEPT ![v] = @ \ keys]
       /\ UNCHANGED <<coinVars, TotalValueOfDestroyedCoins, wrapped, RecyclersCoinToRecycler,
                      aliasVars, RecyclersLastRemovedRingIndex, RecyclersArchives,
                      RecyclersDusting, redeemed, now, pot, deposits>>

-----------------------------------------------------------------------------
(* Unloading keys *)

Expired(r) ==
    rings[r].immutable_since # Never /\ now >= rings[r].immutable_since + RecyclerExpirationTime

validate_recycler_revision(r) == rings[r].members # {} /\ ~ Expired(r)

ensure_alias_available(r, k) ==
    RecyclerAliasStates[r][k] # Unloaded /\ now >= RecyclerAliasStates[r][k].until

\* A ring that has states and no count predates the count and stays uncounted.
unloaded_count(r) ==
    IF RecyclersUnloadedCount[r] # NotCounted THEN RecyclersUnloadedCount[r]
    ELSE IF \A k \in DOMAIN RecyclerAliasStates[r] : RecyclerAliasStates[r][k] = NoState THEN 0
    ELSE NotCounted


\* Mutant: the count is read after the alias is marked, where a new ring looks uncounted.
Counted_after(r, n) == IF RecyclersUnloadedCount[r] = NotCounted THEN NotCounted
                       ELSE RecyclersUnloadedCount[r] + n

Counted(r, n) == IF unloaded_count(r) = NotCounted THEN NotCounted ELSE unloaded_count(r) + n

\* Keys of one or several rings are unloaded, for good.
unload(keys) ==
    /\ \A r \in DOMAIN keys :
           /\ keys[r] # {} /\ keys[r] \subseteq rings[r].members
           /\ validate_recycler_revision(r)
           /\ \A k \in keys[r] : ensure_alias_available(r, k)
    /\ RecyclerAliasStates' =
           [r \in Recycler |-> IF r \notin DOMAIN keys THEN RecyclerAliasStates[r]
                               ELSE [k \in Key |-> IF k \in keys[r] THEN Unloaded
                                                   ELSE RecyclerAliasStates[r][k]]]
    /\ RecyclersUnloadedCount' =
           [r \in Recycler |-> IF r \notin DOMAIN keys THEN RecyclersUnloadedCount[r]
                               ELSE Counted(r, Cardinality(keys[r]))]
    /\ redeemed' =
           [r \in Recycler |-> IF r \notin DOMAIN keys THEN redeemed[r]
                               ELSE [k \in Key |-> redeemed[r][k] + IF k \in keys[r] THEN 1 ELSE 0]]

Taken(r, keys) == Worth(r[1]) * Cardinality(keys)

\* Coins put where there were none.
Placed(coins) ==
    CoinsByOwner' = [o \in Owner |-> IF o \in DOMAIN coins THEN coins[o] ELSE CoinsByOwner[o]]

unload_recycler_into_coin(r, keys, to) ==
    /\ CoinsByOwner[to] = NoCoin
    /\ \E increment \in 0 .. MaximumExponent - r[1] :
           /\ Cardinality(keys) = 2 ^ increment
           /\ Placed(Only(to, [value |-> r[1] + increment, age |-> 0]))
    /\ unload(Only(r, keys))
    /\ pot' = settle_load_deposits(pot, Cardinality(keys))
    /\ UNCHANGED <<LockedCoins, TotalValueOfDestroyedCoins, wrapped, loadVars, ringVars, now, deposits>>

\* The fee, if there is one to pay, is taken out of what is unloaded.
CanTakeFee(r) == r[1] >= MinimumExponentForOutputUnloadFee

\* With a token the maximum is zero.
unload_recycler_into_coins(r, keys, values, max_fee, fee) ==
    /\ max_fee > 0 => CanTakeFee(r)
    /\ fee <= max_fee
    /\ IsSplit(values, Taken(r, keys) - max_fee)
    /\ unload(Only(r, keys))
    /\ pot' = settle_load_deposits(pot, Cardinality(keys))
    /\ wrapped' = wrapped - fee
    /\ TotalValueOfDestroyedCoins' = TotalValueOfDestroyedCoins + (max_fee - fee)
    /\ Placed([o \in DOMAIN values |-> [value |-> values[o], age |-> 1]])
    /\ UNCHANGED <<LockedCoins, loadVars, ringVars, now, deposits>>

\* One ring with a token, or with the fee taken out of the output, which then leaves the pallet
\* as well; several rings when a signer pays.
unload_recyclers_into_external_asset(keys) ==
    /\ unload(keys)
    /\ pot' = settle_load_deposits(pot, MapThenSumSet(LAMBDA r : Cardinality(keys[r]), DOMAIN keys))
    /\ wrapped' = wrapped - MapThenSumSet(LAMBDA r : Taken(r, keys[r]), DOMAIN keys)
    /\ UNCHANGED <<coinVars, TotalValueOfDestroyedCoins, loadVars, ringVars, now, deposits>>

\* Validation does not count on the deposits the same call settles.
unload_recycler_into_external_asset_and_loaded_coins(r, keys, loaded) ==
    LET amount == Taken(r, keys) - MapThenSumSet(LAMBDA k : Worth(loaded[k]), DOMAIN loaded) IN
    /\ loaded # <<>> /\ amount >= 0
    /\ CanCharge(pot, Cardinality(DOMAIN loaded))
    /\ unload(Only(r, keys))
    /\ load(loaded)
    /\ Charge(settle_load_deposits(pot, Cardinality(keys)), Cardinality(DOMAIN loaded))
    /\ wrapped' = wrapped - amount
    /\ UNCHANGED <<coinVars, TotalValueOfDestroyedCoins, ringVars, now, deposits>>

\* A call whose fee is taken out of its output fails: the first alias, which the extension marked
\* and counted before the dispatch, is locked and taken out of the count.
output_unload_fails(r, k) ==
    /\ CanTakeFee(r)
    /\ k \in rings[r].members /\ validate_recycler_revision(r) /\ ensure_alias_available(r, k)
    /\ RecyclerAliasStates' = [RecyclerAliasStates EXCEPT ![r][k] = failed_dispatch_lock(@)]
    /\ RecyclersUnloadedCount' = [RecyclersUnloadedCount EXCEPT ![r] = Counted(r, 0)]
    /\ UNCHANGED <<coinVars, TotalValueOfDestroyedCoins, wrapped, loadVars, ringVars, redeemed, now,
                   pot, deposits>>

-----------------------------------------------------------------------------
(* Expired rings *)

\* The aliases the archive commits to as unloaded.
AtClean(r) == UnloadedOf(r)

\* The keys of the ring may be loaded again.
Forgotten(keys, r) == [k \in Key |-> IF k \in keys THEN NoValue ELSE RecyclersCoinToRecycler[k]]

clean_recycler(v) ==
    LET r == <<v, RecyclersLastRemovedRingIndex[v] + 1>>
        remaining == Cardinality(rings[r].members) - Cardinality(AtClean(r))
    IN /\ r \in Recycler /\ Expired(r)
       /\ RecyclersCoinToRecycler' = Forgotten(rings[r].members, r)
       /\ RecyclersUnloadedCount' = [RecyclersUnloadedCount EXCEPT ![r] = NotCounted]
       /\ RecyclersArchives' =
              [RecyclersArchives EXCEPT ![r] =
                  IF remaining = 0 THEN @
                  ELSE [root |-> rings[r].members, unloaded |-> AtClean(r), remaining |-> remaining]]
       /\ RecyclersDusting' = IF \E k \in Key : RecyclerAliasStates[r][k] # NoState
                              THEN RecyclersDusting \union {r} ELSE RecyclersDusting
       /\ rings' = [rings EXCEPT ![r].members = {}]
       /\ RecyclersLastRemovedRingIndex' = [RecyclersLastRemovedRingIndex EXCEPT ![v] = r[2]]
       /\ pot' = settle_load_deposits(pot, remaining)
       /\ UNCHANGED <<coinVars, TotalValueOfDestroyedCoins, wrapped, queue, RecyclerAliasStates,
                      joined, redeemed, now, deposits>>

clean_recycler_dust(r, keys) ==
    LET dust == {k \in Key : RecyclerAliasStates[r][k] # NoState} IN
    /\ r \in RecyclersDusting
    /\ keys \subseteq dust
    /\ Cardinality(keys) = Min({DUST_CLEANUP_BATCH_SIZE, Cardinality(dust)})
    /\ RecyclerAliasStates' =
           [RecyclerAliasStates EXCEPT ![r] = [k \in Key |-> IF k \in keys THEN NoState ELSE @[k]]]
    /\ RecyclersDusting' = IF keys = dust THEN RecyclersDusting \ {r} ELSE RecyclersDusting
    /\ UNCHANGED <<coinVars, TotalValueOfDestroyedCoins, wrapped, loadVars, RecyclersUnloadedCount,
                   RecyclersLastRemovedRingIndex, RecyclersArchives, rings, joined, redeemed, now,
                   pot, deposits>>

\* Mutant: the commitment is not brought up to date.
Recovered_same_root(archive, k) == [archive EXCEPT !.remaining = @ - 1]

Recovered(archive, k) == [archive EXCEPT !.remaining = @ - 1, !.unloaded = @ \union {k}]

\* The deposit of the key was settled when its ring was cleaned.
unload_archived_recycler_into_external_asset(r, k) ==
    LET archive == RecyclersArchives[r] IN
    /\ archive # NoArchive
    /\ k \in archive.root \ archive.unloaded
    /\ RecyclersArchives' = [RecyclersArchives EXCEPT ![r] =
           IF archive.remaining = 1 THEN NoArchive ELSE Recovered(archive, k)]
    /\ wrapped' = wrapped - Worth(r[1])
    /\ redeemed' = [redeemed EXCEPT ![r][k] = @ + 1]
    /\ UNCHANGED <<coinVars, TotalValueOfDestroyedCoins, loadVars, aliasVars,
                   RecyclersLastRemovedRingIndex, RecyclersDusting, rings, joined, now, pot, deposits>>

-----------------------------------------------------------------------------
(* The specification *)

Tick ==
    /\ now < MaxNow
    /\ now' = now + 1
    /\ UNCHANGED <<coinVars, TotalValueOfDestroyedCoins, wrapped, loadVars, aliasVars, ringVars,
                   redeemed, pot, deposits>>

\* Keys whose value can be unloaded: they wait for a ring, or are in one and not unloaded.
InRings(r) == rings[r].members \ UnloadedOf(r)
LiveKeys == MapThenSumSet(LAMBDA v : Cardinality(queue[v]), Value)
            + MapThenSumSet(LAMBDA r : Cardinality(InRings(r)), Recycler)

OnPot ==
    /\ PotNext
    /\ collateral' = (collateral /\ (pot'.mode # pot.mode => LiveKeys = 0))
    /\ UNCHANGED <<coinVars, TotalValueOfDestroyedCoins, wrapped, loadVars, aliasVars, ringVars,
                   redeemed, now>>

Init ==
    /\ PotInit
    /\ CoinsByOwner = [o \in Owner |-> NoCoin]
    /\ LockedCoins = [o \in Owner |-> NotLocked]
    /\ TotalValueOfDestroyedCoins = 0
    /\ wrapped = 0
    /\ RecyclersCoinToRecycler = [k \in Key |-> NoValue]
    /\ RecyclerAliasStates = [r \in Recycler |-> [k \in Key |-> NoState]]
    /\ RecyclersUnloadedCount = [r \in Recycler |-> NotCounted]
    /\ RecyclersLastRemovedRingIndex = [v \in Value |-> -1]
    /\ RecyclersArchives = [r \in Recycler |-> NoArchive]
    /\ RecyclersDusting = {}
    /\ queue = [v \in Value |-> {}]
    /\ rings = [r \in Recycler |-> [members |-> {}, immutable_since |-> Never]]
    /\ now = 0
    /\ joined = [r \in Recycler |-> {}]
    /\ redeemed = [r \in Recycler |-> [k \in Key |-> 0]]
    /\ collateral = TRUE

Loads == UNION {[K -> Value] : K \in (SUBSET Key) \ {{}}}

OnCoins ==
    \E o \in Owner :
        \/ \E values \in Splits : split(o, values)
        \/ \E to \in Owner : transfer(o, to)
        \/ direct_offboard_coin_into_external_asset(o)
        \/ \E fee \in Fees : pay_for_recycler_unload_fee_token_with_coin(o, fee)
        \/ coin_call_fails(o)
        \/ \E k \in Key : load_recycler_with_coin(o, k)

OnRings ==
    \/ \E keys \in Loads : load_recycler_with_external_asset(keys)
    \/ \E v \in Value : \E keys \in (SUBSET queue[v]) \ {{}} : onboard(v, keys)
    \/ \E r \in Recycler : \E keys \in (SUBSET rings[r].members) \ {{}} :
        \/ \E to \in Owner : unload_recycler_into_coin(r, keys, to)
        \/ \E values \in Splits, max_fee \in Fees \union {0}, fee \in Fees \union {0} :
               /\ max_fee = 0 <=> fee = 0
               /\ unload_recycler_into_coins(r, keys, values, max_fee, fee)
        \/ \E loaded \in Loads : unload_recycler_into_external_asset_and_loaded_coins(r, keys, loaded)
    \/ \E R \in (SUBSET {r \in Recycler : rings[r].members # {}}) \ {{}} :
           \E keys \in [R -> SUBSET Key] : unload_recyclers_into_external_asset(keys)
    \/ \E r \in Recycler, k \in Key :
           output_unload_fails(r, k) \/ unload_archived_recycler_into_external_asset(r, k)
    \/ \E v \in Value : clean_recycler(v)
    \/ \E r \in RecyclersDusting, keys \in SUBSET Key : clean_recycler_dust(r, keys)

Next == OnCoins \/ OnRings \/ OnPot \/ Tick

Spec == Init /\ [][Next]_vars

-----------------------------------------------------------------------------
(* Properties *)

(* The asset held by the pallet is worth exactly the coins, the keys in the recyclers that are *)
(* not unloaded, the keys left in archives, and what was destroyed: no sequence of splits,     *)
(* loads, unloads with a fee, failed calls, archives and recoveries makes a coin that has no   *)
(* asset behind it, or asset that no coin accounts for.                                        *)
BackingExact ==
    wrapped = TotalValueOfDestroyedCoins
              + MapThenSumSet(LAMBDA o : Worth(CoinsByOwner[o].value), Owning)
              + MapThenSumSet(LAMBDA v : Worth(v) * Cardinality(queue[v]), Value)
              + MapThenSumSet(LAMBDA r : Worth(r[1]) * (Cardinality(InRings(r))
                                                        + RecyclersArchives[r].remaining), Recycler)

(* The value of a key is paid out at most once for each ring it was in, whether from the ring, *)
(* after its alias was locked by failed calls, or from the archive; and until then it can be:  *)
(* the key is in the ring and not unloaded, or the archive of the ring commits to it as not    *)
(* unloaded and counts it (clean_unchecked, unload_archived).                                  *)
PaidOutOnce ==
    \A r \in DOMAIN redeemed :
        LET open == {k \in joined[r] : redeemed[r][k] = 0}
            archive == RecyclersArchives[r]
        IN /\ \A k \in joined[r] : redeemed[r][k] <= 1
           /\ IF rings[r].members # {} \/ joined[r] = {}
              THEN InRings(r) = open
              ELSE /\ archive.remaining = Cardinality(open)
                   /\ archive # NoArchive => archive.root \ archive.unloaded = open

(* The stored count of a ring is the number of its unloaded aliases, though the extension      *)
(* counts the first alias of a call before it knows that the call succeeds: it is what         *)
(* clean_unchecked compares with its scan.                                                     *)
CountExact ==
    \A r \in DOMAIN rings :
        rings[r].members # {} => unloaded_count(r) = Cardinality(UnloadedOf(r))

(* The keys that may not be loaded again are exactly those that wait for a ring or are in one  *)
(* that is not cleaned, each with the value of its recycler.                                   *)
KeysExact ==
    \A k \in DOMAIN RecyclersCoinToRecycler, v \in DOMAIN queue :
        RecyclersCoinToRecycler[k] = v <=>
            k \in queue[v] \/ \E r \in DOMAIN rings : r[1] = v /\ k \in rings[r].members

(* A lock is put on a coin, not on an account: an account that has spent its coin is not       *)
(* locked, or the next coin sent to it could not be used.                                      *)
LocksOwned == \A o \in DOMAIN LockedCoins : LockedCoins[o] # NotLocked => CoinsByOwner[o] # NoCoin

(* The ledger of a sponsored instance has one deposit for every key that can be unloaded, of   *)
(* an instance whose mode did not change while it had keys, and never more than that           *)
(* otherwise: a call that unloads and loads settles before it charges, and the keys of an      *)
(* archive were settled when the ring was cleaned.                                             *)
DepositsMatch ==
    /\ load_deposit_key_count(pot) <= LiveKeys
    /\ collateral /\ pot.mode = "sponsored" => load_deposit_key_count(pot) = LiveKeys

\* What the pallet owes it has: the coins and keys their value, the pots the deposits of the
\* keys, priced as they were charged (load_recycler_*, unload_recycler_*, settle of the pot).
ValueBacked == BackingExact /\ PotExact /\ DepositsMatch

\* The records about recyclers agree with the keys that were loaded and not yet unloaded.
RecyclersExact == CountExact /\ KeysExact /\ LocksOwned

=============================================================================

--------------------------- MODULE CoinageProofs ---------------------------
(* What pallets/coinage keeps right of its recyclers for every number of    *)
(* keys, values and rings, for every ring size and expiry, and for every    *)
(* sequence of calls, failed ones included.                                 *)
EXTENDS Coinage, NaturalsInduction, WellFoundedInduction, FiniteSetTheorems, TLAPS

-----------------------------------------------------------------------------
(* The inductive invariant *)

AliasState == {NoState, Unloaded} \union [retries : Nat, until : Int]
Ring == [members : SUBSET Key, immutable_since : Nat \union {Never}]
Archive == [root : SUBSET Key, unloaded : SUBSET Key, remaining : Nat]

Coin == [value : Value, age : Nat]

KeyTypes ==
    /\ RecyclersCoinToRecycler \in [Key -> Value \union {NoValue}]
    /\ queue \in [Value -> SUBSET Key]

RingTypes ==
    /\ rings \in [Recycler -> Ring]
    /\ joined \in [Recycler -> SUBSET Key]
    /\ redeemed \in [Recycler -> [Key -> Nat]]
    /\ RecyclerAliasStates \in [Recycler -> [Key -> AliasState]]
    /\ RecyclersUnloadedCount \in [Recycler -> Nat \union {NotCounted}]
    /\ RecyclersLastRemovedRingIndex \in [Value -> Int]
    /\ RecyclersArchives \in [Recycler -> Archive]
    /\ RecyclersDusting \subseteq Recycler

CoinTypes ==
    /\ CoinsByOwner \in [Owner -> Coin \union {NoCoin}]
    /\ LockedCoins = [o \in Owner |-> LockedCoins[o]]

\* The rings of a value are cleaned in the order of their indices.
Cleaned(r) == r[2] <= RecyclersLastRemovedRingIndex[r[1]]

Open(r) == {k \in joined[r] : redeemed[r][k] = 0}

\* A ring that is not cleaned still has all its keys, and what was paid out is what is
\* marked as unloaded.
LiveRing(r) ==
    /\ rings[r].members = joined[r]
    /\ RecyclersArchives[r] = NoArchive
    /\ UnloadedOf(r) \subseteq joined[r]
    /\ \A k \in Key : redeemed[r][k] = IF RecyclerAliasStates[r][k] = Unloaded THEN 1 ELSE 0
    /\ unloaded_count(r) = Cardinality(UnloadedOf(r))
    /\ r \notin RecyclersDusting

\* Of a cleaned ring the archive is left, of the keys not paid out.
CleanedRing(r) ==
    /\ rings[r].members = {}
    /\ rings[r].immutable_since # Never
    /\ \A k \in joined[r] : redeemed[r][k] <= 1
    /\ RecyclersArchives[r].remaining = Cardinality(Open(r))
    /\ RecyclersArchives[r] # NoArchive =>
           RecyclersArchives[r].root \ RecyclersArchives[r].unloaded = Open(r)

RingInv ==
    \A r \in Recycler :
        /\ IF Cleaned(r) THEN CleanedRing(r) ELSE LiveRing(r)
        /\ rings[r].immutable_since # Never => joined[r] # {}

\* A key is in one place: in the queue of its value or in a ring of it that is not cleaned.
KeyInv ==
    /\ \A k \in Key, v \in Value :
        k \in queue[v] =>
            RecyclersCoinToRecycler[k] = v /\ \A r \in Recycler : k \notin rings[r].members
    /\ \A r \in Recycler : \A k \in rings[r].members :
        /\ RecyclersCoinToRecycler[k] = r[1]
        /\ \A s \in Recycler : k \in rings[s].members => s = r
    /\ \A k \in Key, v \in Value :
        RecyclersCoinToRecycler[k] = v =>
            k \in queue[v] \/ \E r \in Recycler : r[1] = v /\ k \in rings[r].members

RingPart == RingTypes /\ RingInv
KeyPart == KeyTypes /\ KeyInv
CoinPart == CoinTypes /\ LocksOwned

Inv == now \in Nat /\ CoinPart /\ RingPart /\ KeyPart

-----------------------------------------------------------------------------
(* Sets and states *)

LEMMA KeySets ==
    \A S \in SUBSET Key : IsFiniteSet(S) /\ Cardinality(S) \in Nat
  BY RecyclerAssumption, FS_Subset, FS_CardinalityType

LEMMA RecyclerFields ==
    /\ Value \subseteq Nat
    /\ \A r \in Recycler : r[1] \in Value /\ r[2] \in 0 .. MaxIndex /\ r = <<r[1], r[2]>>
    /\ \A r, s \in Recycler : r[1] = s[1] /\ r[2] = s[2] => r = s
    /\ NoValue \notin Value
  BY RecyclerAssumption DEF Recycler, Value, NoValue

LEMMA StateFacts ==
    /\ NoState \in AliasState /\ Unloaded \in AliasState /\ NoState # Unloaded
    /\ \A s \in AliasState : s.retries \in Int /\ s.until \in Int
    /\ \A s \in AliasState : s # Unloaded /\ s # NoState => s.retries \in Nat
  BY DEF AliasState, NoState, Unloaded

\* A lock is neither the mark of an unloaded alias nor an absent state.
LEMMA LockFacts ==
    ASSUME now \in Nat, NEW s \in AliasState, s # Unloaded
    PROVE  /\ failed_dispatch_lock(s) \in AliasState
           /\ failed_dispatch_lock(s) # Unloaded
           /\ failed_dispatch_lock(s) # NoState
  <1> DEFINE retries == IF s = NotLocked THEN 0 ELSE s.retries + 1
  <1>1. retries \in Nat
    BY StateFacts DEF NotLocked
  <1>2. failed_dispatch_lock(s)
            = [retries |-> retries, until |-> now + 2 ^ retries * CoinFailureLockPeriod]
    BY DEF failed_dispatch_lock
  <1> HIDE DEF retries
  <1>3. 2 ^ retries \in Int
    BY <1>1
  <1>4. 2 ^ retries * CoinFailureLockPeriod \in Int
    BY <1>3, RecyclerAssumption
  <1>5. now + 2 ^ retries * CoinFailureLockPeriod \in Int
    BY <1>4
  <1>6. failed_dispatch_lock(s) \in [retries : Nat, until : Int]
    BY <1>1, <1>2, <1>5
  <1>7. failed_dispatch_lock(s).retries = retries
    BY <1>2
  <1>8. Unloaded.retries = -2 /\ NoState.retries = -1
    BY DEF Unloaded, NoState
  <1> QED
    BY <1>1, <1>6, <1>7, <1>8 DEF AliasState

LEMMA NoArchiveType == NoArchive \in Archive /\ NoArchive.remaining = 0
  BY DEF NoArchive, Archive

\* A set of ring indices that is not empty has a least one.
LEMMA FirstIndex ==
    ASSUME NEW S \in SUBSET (0 .. MaxIndex), S # {}
    PROVE  Min(S) \in S
  <1>1. S \subseteq Nat
    OBVIOUS
  <1>2. PICK x \in S : \A y \in S : ~ (<<y, x>> \in OpToRel(<, Nat))
    BY <1>1, NatLessThanWellFounded, WFMin
  <1>3. \A y \in S : ~ (y < x)
    BY <1>1, <1>2 DEF OpToRel
  <1>4. \E z \in S : \A y \in S : z <= y
    BY <1>1, <1>3
  <1> QED
    BY <1>4, Zenon DEF Min

-----------------------------------------------------------------------------
(* Coins *)

\* What is placed where no coin was is not locked, and the lock of a spent coin goes.
LEMMA SpentCoins ==
    ASSUME CoinPart, NEW o \in Owner, NEW coins, DOMAIN coins \subseteq Owner,
           \A p \in DOMAIN coins : coins[p] \in Coin /\ CoinsByOwner[p] = NoCoin,
           Spent(o, coins)
    PROVE  CoinPart'
  <1>1. CoinTypes /\ LocksOwned
    BY DEF CoinPart
  <1>2. /\ CoinsByOwner' = [p \in Owner |-> IF p \in DOMAIN coins THEN coins[p]
                                            ELSE IF p = o THEN NoCoin ELSE CoinsByOwner[p]]
        /\ LockedCoins' = [LockedCoins EXCEPT ![o] = NotLocked]
    BY DEF Spent
  <1>3. CoinsByOwner' \in [Owner -> Coin \union {NoCoin}]
    BY <1>1, <1>2 DEF CoinTypes
  <1>4. LockedCoins' = [p \in Owner |-> IF p = o THEN NotLocked ELSE LockedCoins[p]]
    BY <1>1, <1>2 DEF CoinTypes
  <1>5. CoinTypes'
    BY <1>3, <1>4 DEF CoinTypes
  <1>6. \A p \in Owner : LockedCoins'[p] # NotLocked => CoinsByOwner'[p] # NoCoin
    <2> SUFFICES ASSUME NEW p \in Owner, LockedCoins'[p] # NotLocked
                 PROVE  CoinsByOwner'[p] # NoCoin
      OBVIOUS
    <2>1. p # o /\ LockedCoins[p] # NotLocked
      BY <1>4
    <2>2. CoinsByOwner[p] # NoCoin
      BY <1>1, <2>1 DEF LocksOwned, CoinTypes
    <2> QED
      BY <1>2, <2>1, <2>2
  <1> QED
    BY <1>4, <1>5, <1>6 DEF CoinPart, LocksOwned

LEMMA PlacedCoins ==
    ASSUME CoinPart, NEW coins, DOMAIN coins \subseteq Owner,
           \A p \in DOMAIN coins : coins[p] \in Coin /\ CoinsByOwner[p] = NoCoin,
           Placed(coins), LockedCoins' = LockedCoins
    PROVE  CoinPart'
  <1>1. CoinTypes /\ LocksOwned
    BY DEF CoinPart
  <1>2. CoinsByOwner' = [o \in Owner |-> IF o \in DOMAIN coins THEN coins[o]
                                         ELSE CoinsByOwner[o]]
    BY DEF Placed
  <1>3. CoinTypes'
    BY <1>1, <1>2 DEF CoinTypes
  <1>4. LocksOwned'
    BY <1>1, <1>2 DEF LocksOwned, CoinTypes
  <1> QED
    BY <1>3, <1>4 DEF CoinPart

LEMMA SplitCoins ==
    ASSUME NEW values \in Splits, NEW units, IsSplit(values, units), NEW age \in Nat
    PROVE  LET coins == [p \in DOMAIN values |-> [value |-> values[p], age |-> age]]
           IN  /\ DOMAIN coins \subseteq Owner
               /\ \A p \in DOMAIN coins : coins[p] \in Coin /\ CoinsByOwner[p] = NoCoin
  <1>1. PICK D \in SUBSET Owner : values \in [D -> Value]
    BY DEF Splits
  <1>2. \A p \in DOMAIN values : p \notin Owning
    BY DEF IsSplit
  <1> QED
    BY <1>1, <1>2 DEF Owning, Coin

-----------------------------------------------------------------------------
(* Keys *)

\* Keys that are loaded were nowhere.
LEMMA LoadKeys ==
    ASSUME RingPart, KeyPart, NEW K \in SUBSET Key, NEW keys \in [K -> Value], load(keys),
           rings' = rings
    PROVE  KeyPart'
  <1>1. KeyTypes /\ KeyInv /\ rings \in [Recycler -> Ring]
    BY DEF KeyPart, RingPart, RingTypes
  <1>2. /\ \A k \in K : RecyclersCoinToRecycler[k] = NoValue
        /\ RecyclersCoinToRecycler' = [k \in Key |-> IF k \in K THEN keys[k]
                                                     ELSE RecyclersCoinToRecycler[k]]
        /\ queue' = [v \in Value |-> queue[v] \union {k \in K : keys[k] = v}]
    BY DEF load, is_member_key_used
  <1>3. KeyTypes'
    BY <1>1, <1>2 DEF KeyTypes
  <1>4. ASSUME NEW r \in Recycler
        PROVE  rings[r].members \subseteq Key /\ rings[r].members \intersect K = {}
    <2>1. rings[r].members \subseteq Key
      BY <1>1 DEF Ring
    <2> QED
      BY <1>1, <1>2, <2>1, RecyclerFields DEF KeyInv
  <1>5. ASSUME NEW k \in Key, NEW v \in Value, k \in queue'[v]
        PROVE  RecyclersCoinToRecycler'[k] = v /\ \A r \in Recycler : k \notin rings'[r].members
    <2>1. CASE k \in K
      <3>1. k \notin queue[v]
        BY <1>1, <1>2, <2>1, RecyclerFields DEF KeyInv
      <3> QED
        BY <1>2, <1>4, <1>5, <2>1, <3>1
    <2>2. CASE k \notin K
      BY <1>1, <1>2, <1>5, <2>2 DEF KeyInv
    <2> QED
      BY <2>1, <2>2
  <1>6. ASSUME NEW r \in Recycler, NEW k \in rings'[r].members
        PROVE  /\ RecyclersCoinToRecycler'[k] = r[1]
               /\ \A s \in Recycler : k \in rings'[s].members => s = r
    <2>1. k \in Key /\ k \notin K /\ k \in rings[r].members
      BY <1>4
    <2> QED
      BY <1>1, <1>2, <2>1 DEF KeyInv
  <1>7. ASSUME NEW k \in Key, NEW v \in Value, RecyclersCoinToRecycler'[k] = v
        PROVE  k \in queue'[v] \/ \E r \in Recycler : r[1] = v /\ k \in rings'[r].members
    <2>1. CASE k \in K
      BY <1>2, <1>7, <2>1
    <2>2. CASE k \notin K
      <3>1. RecyclersCoinToRecycler[k] = v
        BY <1>2, <1>7, <2>2
      <3>2. k \in queue[v] \/ \E r \in Recycler : r[1] = v /\ k \in rings[r].members
        BY <1>1, <3>1 DEF KeyInv
      <3> QED
        BY <1>2, <3>2
    <2> QED
      BY <2>1, <2>2
  <1>8. KeyInv'
    BY <1>5, <1>6, <1>7 DEF KeyInv
  <1> QED
    BY <1>3, <1>8 DEF KeyPart

LEMMA KeysKept ==
    ASSUME KeyPart, UNCHANGED loadVars, rings' = rings
    PROVE  KeyPart'
  BY DEF KeyPart, KeyTypes, KeyInv, loadVars

-----------------------------------------------------------------------------
(* Rings *)

\* A ring is only touched where one of its own entries changes.
LEMMA RingKept ==
    ASSUME NEW r \in Recycler,
           rings'[r] = rings[r], joined'[r] = joined[r], redeemed'[r] = redeemed[r],
           RecyclerAliasStates'[r] = RecyclerAliasStates[r],
           RecyclersUnloadedCount'[r] = RecyclersUnloadedCount[r],
           RecyclersLastRemovedRingIndex'[r[1]] = RecyclersLastRemovedRingIndex[r[1]],
           RecyclersArchives'[r] = RecyclersArchives[r],
           r \in RecyclersDusting' => r \in RecyclersDusting
    PROVE  /\ Cleaned(r)' = Cleaned(r)
           /\ LiveRing(r) => LiveRing(r)'
           /\ CleanedRing(r) => CleanedRing(r)'
  BY DEF Cleaned, LiveRing, CleanedRing, Open, UnloadedOf, unloaded_count

LEMMA RingsKept ==
    ASSUME RingPart, UNCHANGED <<aliasVars, ringVars, redeemed>>
    PROVE  RingPart'
  <1>1. RingTypes' /\ rings' = rings /\ joined' = joined
    BY DEF RingPart, RingTypes, aliasVars, ringVars
  <1>2. \A r \in Recycler : /\ Cleaned(r)' = Cleaned(r)
                            /\ LiveRing(r) => LiveRing(r)'
                            /\ CleanedRing(r) => CleanedRing(r)'
    BY RingKept DEF aliasVars, ringVars
  <1> QED
    BY <1>1, <1>2 DEF RingPart, RingInv

\* What RingPart says of one ring.
LEMMA RingFacts ==
    ASSUME RingPart, NEW r \in Recycler
    PROVE  /\ rings[r] \in Ring /\ rings[r].members \subseteq Key
           /\ rings[r].immutable_since \in Nat \union {Never}
           /\ joined[r] \subseteq Key
           /\ redeemed[r] \in [Key -> Nat]
           /\ RecyclerAliasStates[r] \in [Key -> AliasState]
           /\ RecyclersUnloadedCount[r] \in Nat \union {NotCounted}
           /\ RecyclersArchives[r] \in Archive
           /\ UnloadedOf(r) = {k \in Key : RecyclerAliasStates[r][k] = Unloaded}
           /\ Cleaned(r) => CleanedRing(r)
           /\ ~ Cleaned(r) => LiveRing(r)
           /\ rings[r].members # {} => ~ Cleaned(r)
           /\ rings[r].immutable_since # Never => joined[r] # {}
  <1>1. RingTypes /\ RingInv
    BY DEF RingPart
  <1>2. /\ rings[r] \in Ring /\ joined[r] \subseteq Key
        /\ redeemed[r] \in [Key -> Nat]
        /\ RecyclerAliasStates[r] \in [Key -> AliasState]
        /\ RecyclersUnloadedCount[r] \in Nat \union {NotCounted}
        /\ RecyclersArchives[r] \in Archive
    BY <1>1 DEF RingTypes
  <1>3. rings[r].members \subseteq Key /\ rings[r].immutable_since \in Nat \union {Never}
    BY <1>2 DEF Ring
  <1>4. UnloadedOf(r) = {k \in Key : RecyclerAliasStates[r][k] = Unloaded}
    BY <1>2 DEF UnloadedOf
  <1>5. /\ Cleaned(r) => CleanedRing(r)
        /\ ~ Cleaned(r) => LiveRing(r)
        /\ rings[r].immutable_since # Never => joined[r] # {}
    BY <1>1 DEF RingInv
  <1>6. rings[r].members # {} => ~ Cleaned(r)
    BY <1>5 DEF CleanedRing
  <1> QED
    BY <1>2, <1>3, <1>4, <1>5, <1>6

\* The count of a ring with keys is known, whether it is stored or not.
LEMMA CountOf ==
    ASSUME RingPart, NEW r \in Recycler, ~ Cleaned(r), NEW n \in Nat
    PROVE  Counted(r, n) = Cardinality(UnloadedOf(r)) + n /\ Counted(r, n) \in Nat
  <1>1. LiveRing(r) /\ UnloadedOf(r) \in SUBSET Key
    BY RingFacts
  <1>2. Cardinality(UnloadedOf(r)) \in Nat /\ unloaded_count(r) = Cardinality(UnloadedOf(r))
    BY <1>1, KeySets DEF LiveRing
  <1> QED
    BY <1>2 DEF Counted, NotCounted

\* A ring some keys of which are unloaded.
LEMMA UnloadRing ==
    ASSUME RingPart, NEW r \in Recycler, NEW K \in SUBSET Key,
           K # {}, K \subseteq rings[r].members,
           \A k \in K : RecyclerAliasStates[r][k] # Unloaded,
           RecyclerAliasStates'[r] = [k \in Key |-> IF k \in K THEN Unloaded
                                                    ELSE RecyclerAliasStates[r][k]],
           RecyclersUnloadedCount'[r] = Counted(r, Cardinality(K)),
           redeemed'[r] = [k \in Key |-> redeemed[r][k] + IF k \in K THEN 1 ELSE 0],
           UNCHANGED ringVars
    PROVE  ~ Cleaned(r)' /\ LiveRing(r)'
  <1>1. ~ Cleaned(r) /\ LiveRing(r)
    BY RingFacts
  <1>2. ~ Cleaned(r)'
    BY <1>1 DEF Cleaned, ringVars
  <1>3. /\ RecyclerAliasStates[r] \in [Key -> AliasState]
        /\ UnloadedOf(r) = {k \in Key : RecyclerAliasStates[r][k] = Unloaded}
    BY RingFacts
  <1>4. UnloadedOf(r)' = UnloadedOf(r) \union K /\ UnloadedOf(r) \intersect K = {}
    BY <1>3 DEF UnloadedOf
  <1>5. UnloadedOf(r) \in SUBSET Key
    BY <1>3
  <1>6. /\ Cardinality(UnloadedOf(r)') = Cardinality(UnloadedOf(r)) + Cardinality(K)
        /\ Cardinality(K) \in Nat
    <2>1. IsFiniteSet(UnloadedOf(r)) /\ IsFiniteSet(K) /\ Cardinality(K) \in Nat
      BY <1>5, KeySets
    <2>2. Cardinality(UnloadedOf(r) \union K) =
            Cardinality(UnloadedOf(r)) + Cardinality(K) - Cardinality(UnloadedOf(r) \intersect K)
      BY <2>1, FS_Union
    <2>3. Cardinality(UnloadedOf(r) \intersect K) = 0
      BY <1>4, FS_EmptySet
    <2>4. Cardinality(UnloadedOf(r)) \in Nat
      BY <1>5, KeySets
    <2> QED
      BY <1>4, <2>1, <2>2, <2>3, <2>4
  <1>7. unloaded_count(r)' = Cardinality(UnloadedOf(r)')
    <2>1. /\ Counted(r, Cardinality(K)) = Cardinality(UnloadedOf(r)')
          /\ Counted(r, Cardinality(K)) \in Nat
      BY <1>1, <1>6, CountOf
    <2>2. RecyclersUnloadedCount'[r] # NotCounted
      BY <2>1 DEF NotCounted
    <2> QED
      BY <2>1, <2>2 DEF unloaded_count
  <1>8. \A k \in Key : redeemed'[r][k] = IF RecyclerAliasStates'[r][k] = Unloaded THEN 1 ELSE 0
    <2> SUFFICES ASSUME NEW k \in Key
                 PROVE  redeemed'[r][k] = IF RecyclerAliasStates'[r][k] = Unloaded THEN 1 ELSE 0
      OBVIOUS
    <2>1. redeemed[r][k] = IF RecyclerAliasStates[r][k] = Unloaded THEN 1 ELSE 0
      BY <1>1 DEF LiveRing
    <2>2. CASE k \in K
      BY <2>1, <2>2
    <2>3. CASE k \notin K
      <3>1. redeemed'[r][k] = redeemed[r][k] + 0
        BY <2>3
      <3>2. RecyclerAliasStates'[r][k] = RecyclerAliasStates[r][k]
        BY <2>3
      <3> QED
        BY <2>1, <3>1, <3>2
    <2> QED
      BY <2>2, <2>3
  <1>9. rings'[r].members = joined'[r] /\ UnloadedOf(r)' \subseteq joined'[r]
    BY <1>1, <1>4 DEF LiveRing, ringVars
  <1>10. RecyclersArchives'[r] = NoArchive /\ r \notin RecyclersDusting'
    BY <1>1 DEF LiveRing, ringVars
  <1> QED
    BY <1>2, <1>7, <1>8, <1>9, <1>10 DEF LiveRing

\* Unloading keys of one or of several rings.
LEMMA UnloadKeys ==
    ASSUME RingPart, NEW R \in SUBSET Recycler, NEW keys \in [R -> SUBSET Key], unload(keys),
           UNCHANGED ringVars
    PROVE  RingPart'
  <1>1. \A r \in R : /\ keys[r] # {} /\ keys[r] \subseteq rings[r].members
                      /\ \A k \in keys[r] : RecyclerAliasStates[r][k] # Unloaded
    BY DEF unload, ensure_alias_available
  <1>2. /\ RecyclerAliasStates' =
               [r \in Recycler |-> IF r \notin R THEN RecyclerAliasStates[r]
                                   ELSE [k \in Key |-> IF k \in keys[r] THEN Unloaded
                                                       ELSE RecyclerAliasStates[r][k]]]
        /\ RecyclersUnloadedCount' =
               [r \in Recycler |-> IF r \notin R THEN RecyclersUnloadedCount[r]
                                   ELSE Counted(r, Cardinality(keys[r]))]
        /\ redeemed' =
               [r \in Recycler |-> IF r \notin R THEN redeemed[r]
                                   ELSE [k \in Key |-> redeemed[r][k]
                                                       + IF k \in keys[r] THEN 1 ELSE 0]]
    BY DEF unload
  <1>3. /\ rings' = rings /\ joined' = joined
        /\ RecyclersLastRemovedRingIndex' = RecyclersLastRemovedRingIndex
        /\ RecyclersArchives' = RecyclersArchives /\ RecyclersDusting' = RecyclersDusting
    BY DEF ringVars
  <1>4. ASSUME NEW r \in Recycler, r \notin R
        PROVE  /\ Cleaned(r)' = Cleaned(r)
               /\ LiveRing(r) => LiveRing(r)'
               /\ CleanedRing(r) => CleanedRing(r)'
    <2>1. /\ RecyclerAliasStates'[r] = RecyclerAliasStates[r]
          /\ RecyclersUnloadedCount'[r] = RecyclersUnloadedCount[r]
          /\ redeemed'[r] = redeemed[r]
      BY <1>2, <1>4
    <2> QED
      BY <1>3, <2>1, RingKept
  <1>5. ASSUME NEW r \in R
        PROVE  /\ ~ Cleaned(r)' /\ LiveRing(r)'
    <2>1. /\ RecyclerAliasStates'[r] = [k \in Key |-> IF k \in keys[r] THEN Unloaded
                                                      ELSE RecyclerAliasStates[r][k]]
          /\ RecyclersUnloadedCount'[r] = Counted(r, Cardinality(keys[r]))
          /\ redeemed'[r] = [k \in Key |-> redeemed[r][k] + IF k \in keys[r] THEN 1 ELSE 0]
      BY <1>2
    <2> QED
      BY <1>1, <2>1, UnloadRing
  <1>6. RingTypes'
    <2>1. RecyclerAliasStates' \in [Recycler -> [Key -> AliasState]]
      BY <1>2, StateFacts DEF RingPart, RingTypes
    <2>2. redeemed' \in [Recycler -> [Key -> Nat]]
      <3> SUFFICES ASSUME NEW r \in Recycler PROVE redeemed'[r] \in [Key -> Nat]
        BY <1>2
      <3>1. redeemed[r] \in [Key -> Nat]
        BY RingFacts
      <3> QED
        BY <1>2, <3>1
    <2>3. RecyclersUnloadedCount' \in [Recycler -> Nat \union {NotCounted}]
      <3> SUFFICES ASSUME NEW r \in Recycler
                   PROVE  RecyclersUnloadedCount'[r] \in Nat \union {NotCounted}
        BY <1>2
      <3>1. CASE r \notin R
        BY <1>2, <3>1, RingFacts
      <3>2. CASE r \in R
        <4>1. Cardinality(keys[r]) \in Nat
          BY <3>2, KeySets
        <4>2. ~ Cleaned(r)
          BY <1>1, <3>2, RingFacts
        <4>3. Counted(r, Cardinality(keys[r])) \in Nat
          BY <4>1, <4>2, CountOf
        <4> QED
          BY <1>2, <3>2, <4>3
      <3> QED
        BY <3>1, <3>2
    <2> QED
      BY <1>3, <2>1, <2>2, <2>3 DEF RingPart, RingTypes
  <1>7. RingInv'
    <2> SUFFICES ASSUME NEW r \in Recycler
                 PROVE  /\ IF Cleaned(r)' THEN CleanedRing(r)' ELSE LiveRing(r)'
                        /\ rings'[r].immutable_since # Never => joined'[r] # {}
      BY DEF RingInv
    <2>1. rings'[r].immutable_since # Never => joined'[r] # {}
      BY <1>3, RingFacts
    <2>2. IF Cleaned(r)' THEN CleanedRing(r)' ELSE LiveRing(r)'
      BY <1>4, <1>5, RingFacts
    <2> QED
      BY <2>1, <2>2
  <1> QED
    BY <1>6, <1>7 DEF RingPart

LEMMA UnloadOne ==
    ASSUME RingPart, NEW r \in Recycler, NEW K \in SUBSET Key, unload(Only(r, K)),
           UNCHANGED ringVars
    PROVE  RingPart'
  <1>1. Only(r, K) \in [{r} -> SUBSET Key]
    BY DEF Only
  <1> QED
    BY <1>1, UnloadKeys

\* A lock after a failed call leaves the ring as it was, its count included.
LEMMA OutputUnloadFails ==
    ASSUME now \in Nat, RingPart, NEW r \in Recycler, NEW k \in Key, output_unload_fails(r, k)
    PROVE  RingPart'
  <1>1. /\ k \in rings[r].members
        /\ RecyclerAliasStates[r][k] # Unloaded
        /\ RecyclerAliasStates' = [RecyclerAliasStates EXCEPT ![r][k] = failed_dispatch_lock(@)]
        /\ RecyclersUnloadedCount' = [RecyclersUnloadedCount EXCEPT ![r] = Counted(r, 0)]
        /\ rings' = rings /\ joined' = joined /\ redeemed' = redeemed
        /\ RecyclersLastRemovedRingIndex' = RecyclersLastRemovedRingIndex
        /\ RecyclersArchives' = RecyclersArchives /\ RecyclersDusting' = RecyclersDusting
    BY DEF output_unload_fails, ensure_alias_available, ringVars
  <1>2. PICK lock \in AliasState :
            lock = failed_dispatch_lock(RecyclerAliasStates[r][k]) /\ lock # Unloaded
    BY <1>1, RingFacts, LockFacts
  <1>3. RecyclerAliasStates \in [Recycler -> [Key -> AliasState]]
        /\ RecyclersUnloadedCount \in [Recycler -> Nat \union {NotCounted}]
    BY DEF RingPart, RingTypes
  <1>4. RecyclerAliasStates' = [RecyclerAliasStates EXCEPT ![r] = [@ EXCEPT ![k] = lock]]
    BY <1>1, <1>2, <1>3
  <1>5. /\ RecyclerAliasStates' \in [Recycler -> [Key -> AliasState]]
        /\ RecyclerAliasStates'[r] = [RecyclerAliasStates[r] EXCEPT ![k] = lock]
        /\ \A s \in Recycler : s # r => RecyclerAliasStates'[s] = RecyclerAliasStates[s]
    BY <1>2, <1>3, <1>4
  <1>6. ~ Cleaned(r) /\ LiveRing(r)
    BY <1>1, RingFacts
  <1>7. Counted(r, 0) = Cardinality(UnloadedOf(r)) /\ Counted(r, 0) \in Nat
    <2>1. Cardinality(UnloadedOf(r)) \in Nat
      BY RingFacts, KeySets
    <2> QED
      BY <1>6, <2>1, CountOf
  <1>8. /\ RecyclersUnloadedCount' \in [Recycler -> Nat \union {NotCounted}]
        /\ RecyclersUnloadedCount'[r] = Counted(r, 0)
        /\ \A s \in Recycler : s # r => RecyclersUnloadedCount'[s] = RecyclersUnloadedCount[s]
    BY <1>1, <1>3, <1>7
  <1>9. UnloadedOf(r)' = UnloadedOf(r)
    BY <1>1, <1>2, <1>3, <1>5 DEF UnloadedOf
  <1>10. \A j \in Key : redeemed'[r][j] = IF RecyclerAliasStates'[r][j] = Unloaded THEN 1 ELSE 0
    <2> SUFFICES ASSUME NEW j \in Key
                 PROVE  redeemed'[r][j] = IF RecyclerAliasStates'[r][j] = Unloaded THEN 1 ELSE 0
      OBVIOUS
    <2>1. (RecyclerAliasStates'[r][j] = Unloaded) <=> (RecyclerAliasStates[r][j] = Unloaded)
      BY <1>1, <1>2, <1>3, <1>5
    <2> QED
      BY <1>1, <1>6, <2>1 DEF LiveRing
  <1>11. unloaded_count(r)' = Cardinality(UnloadedOf(r)')
    BY <1>7, <1>8, <1>9 DEF unloaded_count, NotCounted
  <1>12. ~ Cleaned(r)' /\ LiveRing(r)'
    <2>1. ~ Cleaned(r)'
      BY <1>1, <1>6 DEF Cleaned
    <2>2. /\ rings'[r].members = joined'[r] /\ UnloadedOf(r)' \subseteq joined'[r]
          /\ RecyclersArchives'[r] = NoArchive /\ r \notin RecyclersDusting'
      BY <1>1, <1>6, <1>9 DEF LiveRing
    <2> QED
      BY <1>10, <1>11, <2>1, <2>2 DEF LiveRing
  <1>13. ASSUME NEW s \in Recycler, s # r
         PROVE  /\ Cleaned(s)' = Cleaned(s)
                /\ LiveRing(s) => LiveRing(s)'
                /\ CleanedRing(s) => CleanedRing(s)'
    BY <1>1, <1>5, <1>8, <1>13, RingKept
  <1>14. RingTypes'
    BY <1>1, <1>5, <1>8, Zenon DEF RingPart, RingTypes
  <1>15. RingInv'
    <2> SUFFICES ASSUME NEW s \in Recycler
                 PROVE  /\ IF Cleaned(s)' THEN CleanedRing(s)' ELSE LiveRing(s)'
                        /\ rings'[s].immutable_since # Never => joined'[s] # {}
      BY DEF RingInv
    <2>1. rings'[s].immutable_since # Never => joined'[s] # {}
      BY <1>1, RingFacts
    <2>2. IF Cleaned(s)' THEN CleanedRing(s)' ELSE LiveRing(s)'
      BY <1>12, <1>13, RingFacts
    <2> QED
      BY <2>1, <2>2
  <1> QED
    BY <1>14, <1>15 DEF RingPart

\* A step that touches one ring.
LEMMA OneRing ==
    ASSUME RingPart, RingTypes', NEW r \in Recycler,
           IF Cleaned(r)' THEN CleanedRing(r)' ELSE LiveRing(r)',
           rings'[r].immutable_since # Never => joined'[r] # {},
           \A s \in Recycler : s # r =>
               /\ rings'[s] = rings[s] /\ joined'[s] = joined[s] /\ redeemed'[s] = redeemed[s]
               /\ RecyclerAliasStates'[s] = RecyclerAliasStates[s]
               /\ RecyclersUnloadedCount'[s] = RecyclersUnloadedCount[s]
               /\ RecyclersArchives'[s] = RecyclersArchives[s]
               /\ s \in RecyclersDusting' => s \in RecyclersDusting
               /\ Cleaned(s)' <=> Cleaned(s)
    PROVE  RingPart'
  <1> SUFFICES ASSUME NEW s \in Recycler
               PROVE  /\ IF Cleaned(s)' THEN CleanedRing(s)' ELSE LiveRing(s)'
                      /\ rings'[s].immutable_since # Never => joined'[s] # {}
    BY DEF RingPart, RingInv
  <1>1. CASE s = r
    BY <1>1
  <1>2. CASE s # r
    <2>1. rings'[s].immutable_since # Never => joined'[s] # {}
      BY <1>2, RingFacts
    <2>2. (LiveRing(s) => LiveRing(s)') /\ (CleanedRing(s) => CleanedRing(s)')
      <3>1. /\ rings'[s] = rings[s] /\ joined'[s] = joined[s] /\ redeemed'[s] = redeemed[s]
            /\ RecyclerAliasStates'[s] = RecyclerAliasStates[s]
            /\ RecyclersUnloadedCount'[s] = RecyclersUnloadedCount[s]
            /\ RecyclersArchives'[s] = RecyclersArchives[s]
            /\ s \in RecyclersDusting' => s \in RecyclersDusting
        BY <1>2
      <3> QED
        BY <3>1 DEF LiveRing, CleanedRing, Open, UnloadedOf, unloaded_count
    <2> QED
      BY <1>2, <2>1, <2>2, RingFacts
  <1> QED
    BY <1>1, <1>2

-----------------------------------------------------------------------------
(* Keys on their way: into a ring, out of it when it is cleaned, out of its archive *)

LEMMA Onboard ==
    ASSUME now \in Nat, RingPart, KeyPart, NEW v \in Value,
           NEW keys \in (SUBSET queue[v]) \ {{}}, onboard(v, keys)
    PROVE  RingPart' /\ KeyPart'
  <1> DEFINE open == {i \in 0 .. MaxIndex : rings[<<v, i>>].immutable_since = Never}
  <1>1. open # {} /\ Min(open) \in open
    BY FirstIndex DEF onboard
  <1>2. PICK r \in Recycler : r = <<v, Min(open)>>
    BY <1>1 DEF Recycler
  <1>3. r[1] = v /\ rings[r].immutable_since = Never
    BY <1>1, <1>2
  <1>4. PICK filled : filled = rings[r].members \union keys
    OBVIOUS
  <1>5. PICK since :
            since = IF Cardinality(filled) = RingSize THEN now ELSE Never
    OBVIOUS
  <1>6. /\ rings' = [rings EXCEPT ![r] = [members |-> filled, immutable_since |-> since]]
        /\ joined' = [joined EXCEPT ![r] = @ \union keys]
        /\ queue' = [queue EXCEPT ![v] = @ \ keys]
        /\ RecyclersCoinToRecycler' = RecyclersCoinToRecycler
        /\ RecyclerAliasStates' = RecyclerAliasStates
        /\ RecyclersUnloadedCount' = RecyclersUnloadedCount
        /\ RecyclersLastRemovedRingIndex' = RecyclersLastRemovedRingIndex
        /\ RecyclersArchives' = RecyclersArchives /\ RecyclersDusting' = RecyclersDusting
        /\ redeemed' = redeemed
    BY <1>2, <1>4, <1>5 DEF onboard, aliasVars
  <1> HIDE DEF open
  <1>7. since \in Nat \union {Never}
    BY <1>5
  <1>8. KeyTypes /\ KeyInv /\ RingTypes /\ queue[v] \subseteq Key
    BY DEF KeyPart, RingPart, KeyTypes
  <1>9. keys \subseteq Key /\ filled \subseteq Key /\ keys # {}
    BY <1>4, <1>8, RingFacts
  <1>10. [members |-> filled, immutable_since |-> since] \in Ring
    BY <1>7, <1>9 DEF Ring
  <1>11. /\ rings' \in [Recycler -> Ring]
         /\ rings'[r].members = filled /\ rings'[r].immutable_since = since
         /\ \A s \in Recycler : s # r => rings'[s] = rings[s]
    BY <1>6, <1>8, <1>10 DEF RingTypes
  <1>12. /\ joined' \in [Recycler -> SUBSET Key]
         /\ joined'[r] = joined[r] \union keys
         /\ \A s \in Recycler : s # r => joined'[s] = joined[s]
    BY <1>6, <1>8, <1>9 DEF RingTypes
  <1>13. RingTypes'
    BY <1>6, <1>8, <1>11, <1>12, Zenon DEF RingTypes
  <1>14. ~ Cleaned(r) /\ LiveRing(r)
    BY <1>3, RingFacts DEF CleanedRing
  <1>15. \A s \in Recycler : Cleaned(s)' <=> Cleaned(s)
    BY <1>6 DEF Cleaned
  <1>16. LiveRing(r)'
    <2>1. /\ rings'[r].members = joined'[r] /\ UnloadedOf(r)' \subseteq joined'[r]
          /\ RecyclersArchives'[r] = NoArchive /\ r \notin RecyclersDusting'
      BY <1>4, <1>6, <1>11, <1>12, <1>14 DEF LiveRing, UnloadedOf
    <2>2. /\ \A k \in Key : redeemed'[r][k] = IF RecyclerAliasStates'[r][k] = Unloaded
                                             THEN 1 ELSE 0
          /\ unloaded_count(r)' = Cardinality(UnloadedOf(r))'
      BY <1>6, <1>14 DEF LiveRing, UnloadedOf, unloaded_count
    <2> QED
      BY <2>1, <2>2 DEF LiveRing
  <1>17. RingPart'
    <2>1. rings'[r].immutable_since # Never => joined'[r] # {}
      BY <1>9, <1>12
    <2>2. IF Cleaned(r)' THEN CleanedRing(r)' ELSE LiveRing(r)'
      BY <1>14, <1>15, <1>16
    <2> QED
      BY <1>6, <1>11, <1>12, <1>13, <1>15, <2>1, <2>2, OneRing
  <1>18. /\ queue' \in [Value -> SUBSET Key] /\ queue'[v] = queue[v] \ keys
         /\ \A w \in Value : w # v => queue'[w] = queue[w]
    BY <1>6, <1>8 DEF KeyTypes
  <1>19. KeyTypes'
    BY <1>6, <1>8, <1>18 DEF KeyTypes
  <1>20. \A k \in keys : /\ RecyclersCoinToRecycler[k] = v
                         /\ \A s \in Recycler : k \notin rings[s].members
    BY <1>8, <1>9 DEF KeyInv
  <1>21. ASSUME NEW k \in Key, NEW w \in Value, k \in queue'[w]
         PROVE  /\ RecyclersCoinToRecycler'[k] = w
                /\ \A s \in Recycler : k \notin rings'[s].members
    <2>1. k \in queue[w]
      BY <1>18, <1>21
    <2>2. RecyclersCoinToRecycler[k] = w /\ \A s \in Recycler : k \notin rings[s].members
      BY <1>8, <2>1 DEF KeyInv
    <2>3. k \notin keys
      BY <1>18, <1>20, <1>21, <2>2
    <2> QED
      BY <1>4, <1>6, <1>11, <2>2, <2>3
  <1>22. ASSUME NEW s \in Recycler, NEW k \in rings'[s].members
         PROVE  /\ RecyclersCoinToRecycler'[k] = s[1]
                /\ \A t \in Recycler : k \in rings'[t].members => t = s
    <2>1. CASE k \in keys
      <3>1. \A t \in Recycler : k \in rings'[t].members => t = r
        BY <1>11, <1>20, <2>1
      <3> QED
        BY <1>3, <1>6, <1>20, <1>22, <2>1, <3>1
    <2>2. CASE k \notin keys
      <3>1. \A t \in Recycler : k \in rings'[t].members <=> k \in rings[t].members
        BY <1>4, <1>11, <2>2
      <3> QED
        BY <1>6, <1>8, <1>22, <3>1 DEF KeyInv
    <2> QED
      BY <2>1, <2>2
  <1>23. ASSUME NEW k \in Key, NEW w \in Value, RecyclersCoinToRecycler'[k] = w
         PROVE  k \in queue'[w] \/ \E s \in Recycler : s[1] = w /\ k \in rings'[s].members
    <2>1. k \in queue[w] \/ \E s \in Recycler : s[1] = w /\ k \in rings[s].members
      BY <1>6, <1>8, <1>23 DEF KeyInv
    <2>2. \A s \in Recycler : rings[s].members \subseteq rings'[s].members
      BY <1>4, <1>11
    <2>3. CASE k \in keys
      <3>1. w = v /\ k \in rings'[r].members
        BY <1>4, <1>6, <1>11, <1>20, <1>23, <2>3
      <3> QED
        BY <1>3, <3>1
    <2>4. CASE k \notin keys
      BY <1>18, <2>1, <2>2, <2>4
    <2> QED
      BY <2>3, <2>4
  <1>24. KeyInv'
    BY <1>21, <1>22, <1>23 DEF KeyInv
  <1> QED
    BY <1>17, <1>19, <1>24 DEF KeyPart

\* The archive of a cleaned ring has the keys that are not unloaded.
LEMMA CleanRecycler ==
    ASSUME RingPart, KeyPart, NEW v \in Value, clean_recycler(v)
    PROVE  RingPart' /\ KeyPart'
  <1>1. PICK r : r = <<v, RecyclersLastRemovedRingIndex[v] + 1>>
    OBVIOUS
  <1>2. PICK remaining :
            remaining = Cardinality(rings[r].members) - Cardinality(UnloadedOf(r))
    OBVIOUS
  <1>3. /\ r \in Recycler
        /\ rings[r].immutable_since # Never
        /\ RecyclersCoinToRecycler' =
               [k \in Key |-> IF k \in rings[r].members THEN NoValue
                              ELSE RecyclersCoinToRecycler[k]]
        /\ RecyclersUnloadedCount' = [RecyclersUnloadedCount EXCEPT ![r] = NotCounted]
        /\ RecyclersArchives' =
              [RecyclersArchives EXCEPT ![r] =
                  IF remaining = 0 THEN @
                  ELSE [root |-> rings[r].members, unloaded |-> UnloadedOf(r),
                        remaining |-> remaining]]
        /\ RecyclersDusting' \subseteq RecyclersDusting \union {r}
        /\ rings' = [rings EXCEPT ![r].members = {}]
        /\ RecyclersLastRemovedRingIndex' = [RecyclersLastRemovedRingIndex EXCEPT ![v] = r[2]]
        /\ queue' = queue /\ RecyclerAliasStates' = RecyclerAliasStates
        /\ joined' = joined /\ redeemed' = redeemed
    BY <1>1, <1>2 DEF clean_recycler, Expired, Forgotten, AtClean
  <1>4. RingTypes /\ KeyTypes /\ KeyInv
    BY DEF RingPart, KeyPart
  <1>5. RecyclersLastRemovedRingIndex \in [Value -> Int]
    BY <1>4 DEF RingTypes
  <1>6. /\ r[1] = v /\ r[2] = RecyclersLastRemovedRingIndex[v] + 1
        /\ RecyclersLastRemovedRingIndex[v] \in Int
    BY <1>1, <1>5
  <1>7. ~ Cleaned(r) /\ LiveRing(r)
    <2>1. ~ Cleaned(r)
      BY <1>6 DEF Cleaned
    <2> QED
      BY <1>3, <2>1, RingFacts
  <1>8. /\ RecyclersLastRemovedRingIndex' \in [Value -> Int]
        /\ RecyclersLastRemovedRingIndex'[v] = r[2]
        /\ \A w \in Value : w # v =>
               RecyclersLastRemovedRingIndex'[w] = RecyclersLastRemovedRingIndex[w]
    BY <1>3, <1>5, <1>6
  <1>9. Cleaned(r)'
    BY <1>6, <1>8 DEF Cleaned
  <1>10. ASSUME NEW s \in Recycler, s # r
         PROVE  Cleaned(s)' <=> Cleaned(s)
    <2>1. s[1] \in Value /\ s[2] \in Int
      BY RecyclerFields
    <2>2. CASE s[1] = v
      <3>1. s[2] # r[2]
        BY <1>3, <1>6, <1>10, <2>2, RecyclerFields
      <3> QED
        BY <1>6, <1>8, <2>1, <2>2, <3>1 DEF Cleaned
    <2>3. CASE s[1] # v
      BY <1>8, <2>1, <2>3 DEF Cleaned
    <2> QED
      BY <2>2, <2>3
  <1>11. /\ rings' \in [Recycler -> Ring]
         /\ rings'[r].members = {} /\ rings'[r].immutable_since = rings[r].immutable_since
         /\ \A s \in Recycler : s # r => rings'[s] = rings[s]
    <2>1. rings \in [Recycler -> Ring] /\ rings[r] \in Ring
      BY <1>3, <1>4 DEF RingTypes
    <2>2. rings' = [rings EXCEPT ![r] = [@ EXCEPT !.members = {}]]
      BY <1>3
    <2>3. /\ [rings[r] EXCEPT !.members = {}] \in Ring
          /\ [rings[r] EXCEPT !.members = {}].members = {}
          /\ [rings[r] EXCEPT !.members = {}].immutable_since = rings[r].immutable_since
      BY <2>1 DEF Ring
    <2> QED
      BY <1>3, <2>1, <2>2, <2>3
  <1>12. /\ UnloadedOf(r) \subseteq rings[r].members /\ rings[r].members = joined[r]
         /\ rings[r].members \in SUBSET Key /\ UnloadedOf(r) \in SUBSET Key
    BY <1>3, <1>7, RingFacts DEF LiveRing
  <1>13. Open(r) = rings[r].members \ UnloadedOf(r)
    <2>1. \A k \in Key : redeemed[r][k] = 0 <=> k \notin UnloadedOf(r)
      BY <1>3, <1>7, RingFacts DEF LiveRing
    <2> QED
      BY <1>12, <2>1 DEF Open
  <1>14. remaining = Cardinality(Open(r)) /\ remaining \in Nat
    <2>1. /\ IsFiniteSet(rings[r].members) /\ Cardinality(rings[r].members) \in Nat
          /\ Cardinality(UnloadedOf(r)) \in Nat
      BY <1>12, KeySets
    <2>2. Cardinality(Open(r)) = Cardinality(rings[r].members)
              - Cardinality(rings[r].members \intersect UnloadedOf(r))
      BY <1>13, <2>1, FS_Difference
    <2>3. rings[r].members \intersect UnloadedOf(r) = UnloadedOf(r)
      BY <1>12
    <2>4. Open(r) \in SUBSET Key
      BY <1>12, <1>13
    <2> QED
      BY <1>2, <2>2, <2>3, <2>4, KeySets
  <1>15. PICK archive \in Archive :
            archive = IF remaining = 0 THEN NoArchive
                      ELSE [root |-> rings[r].members, unloaded |-> UnloadedOf(r),
                            remaining |-> remaining]
    BY <1>12, <1>14, NoArchiveType DEF Archive
  <1>16. RecyclersArchives' = [RecyclersArchives EXCEPT ![r] = archive]
    BY <1>3, <1>7, <1>15 DEF LiveRing
  <1>17. /\ RecyclersArchives' \in [Recycler -> Archive] /\ RecyclersArchives'[r] = archive
         /\ \A s \in Recycler : s # r => RecyclersArchives'[s] = RecyclersArchives[s]
    BY <1>3, <1>4, <1>15, <1>16 DEF RingTypes
  <1>18. /\ RecyclersUnloadedCount' \in [Recycler -> Nat \union {NotCounted}]
         /\ \A s \in Recycler : s # r => RecyclersUnloadedCount'[s] = RecyclersUnloadedCount[s]
    BY <1>3, <1>4 DEF RingTypes
  <1>19. RingTypes'
    <2>1. RecyclersDusting' \subseteq Recycler
      BY <1>3, <1>4 DEF RingTypes
    <2> QED
      BY <1>3, <1>4, <1>8, <1>11, <1>17, <1>18, <2>1, Zenon DEF RingTypes
  <1>20. CleanedRing(r)'
    <2>1. Open(r)' = Open(r)
      BY <1>3 DEF Open
    <2>2. archive.remaining = Cardinality(Open(r))
      BY <1>14, <1>15, NoArchiveType
    <2>3. archive # NoArchive => archive.root \ archive.unloaded = Open(r)
      BY <1>13, <1>15
    <2>4. \A k \in joined[r] : redeemed[r][k] <= 1
      BY <1>7, <1>12 DEF LiveRing
    <2> QED
      BY <1>3, <1>11, <1>17, <2>1, <2>2, <2>3, <2>4 DEF CleanedRing
  <1>21. RingPart'
    <2>1. rings'[r].immutable_since # Never => joined'[r] # {}
      BY <1>3, RingFacts
    <2>2. IF Cleaned(r)' THEN CleanedRing(r)' ELSE LiveRing(r)'
      BY <1>9, <1>20
    <2>3. \A s \in Recycler : s # r => (s \in RecyclersDusting' => s \in RecyclersDusting)
      BY <1>3
    <2> QED
      BY <1>3, <1>10, <1>11, <1>17, <1>18, <1>19, <2>1, <2>2, <2>3, OneRing
  <1>22. KeyTypes'
    BY <1>3, <1>4 DEF KeyTypes
  <1>23. ASSUME NEW k \in Key, NEW w \in Value, k \in queue'[w]
         PROVE  /\ RecyclersCoinToRecycler'[k] = w
                /\ \A s \in Recycler : k \notin rings'[s].members
    <2>1. RecyclersCoinToRecycler[k] = w /\ \A s \in Recycler : k \notin rings[s].members
      BY <1>3, <1>4, <1>23 DEF KeyInv
    <2> QED
      BY <1>3, <1>11, <2>1
  <1>24. ASSUME NEW s \in Recycler, NEW k \in rings'[s].members
         PROVE  /\ RecyclersCoinToRecycler'[k] = s[1]
                /\ \A t \in Recycler : k \in rings'[t].members => t = s
    <2>1. s # r /\ k \in rings[s].members
      BY <1>11
    <2>2. k \in Key /\ RecyclersCoinToRecycler[k] = s[1]
      BY <1>4, <2>1, RingFacts DEF KeyInv
    <2>3. \A t \in Recycler : k \in rings[t].members => t = s
      BY <1>4, <2>1 DEF KeyInv
    <2>4. k \notin rings[r].members
      BY <1>3, <2>1, <2>3
    <2> QED
      BY <1>3, <1>11, <2>2, <2>3, <2>4
  <1>25. ASSUME NEW k \in Key, NEW w \in Value, RecyclersCoinToRecycler'[k] = w
         PROVE  k \in queue'[w] \/ \E s \in Recycler : s[1] = w /\ k \in rings'[s].members
    <2>1. k \notin rings[r].members /\ RecyclersCoinToRecycler[k] = w
      BY <1>3, <1>25, RecyclerFields
    <2>2. k \in queue[w] \/ \E s \in Recycler : s[1] = w /\ k \in rings[s].members
      BY <1>4, <2>1 DEF KeyInv
    <2> QED
      BY <1>3, <1>11, <2>1, <2>2
  <1>26. KeyInv'
    BY <1>23, <1>24, <1>25 DEF KeyInv
  <1> QED
    BY <1>21, <1>22, <1>26 DEF KeyPart

\* Only the states of cleaned rings are removed.
LEMMA CleanDust ==
    ASSUME RingPart, NEW r \in RecyclersDusting, NEW keys \in SUBSET Key,
           clean_recycler_dust(r, keys)
    PROVE  RingPart'
  <1>1. r \in Recycler /\ RingTypes
    BY DEF RingPart, RingTypes
  <1>2. /\ RecyclerAliasStates' =
               [RecyclerAliasStates EXCEPT ![r] = [k \in Key |-> IF k \in keys THEN NoState
                                                                 ELSE @[k]]]
        /\ RecyclersDusting' \subseteq RecyclersDusting
        /\ RecyclersUnloadedCount' = RecyclersUnloadedCount
        /\ RecyclersLastRemovedRingIndex' = RecyclersLastRemovedRingIndex
        /\ RecyclersArchives' = RecyclersArchives /\ rings' = rings /\ joined' = joined
        /\ redeemed' = redeemed
    BY DEF clean_recycler_dust
  <1>3. /\ RecyclerAliasStates' \in [Recycler -> [Key -> AliasState]]
        /\ \A s \in Recycler : s # r => RecyclerAliasStates'[s] = RecyclerAliasStates[s]
    BY <1>1, <1>2, StateFacts DEF RingTypes
  <1>4. RingTypes'
    <2>1. RecyclersDusting' \subseteq Recycler
      BY <1>1, <1>2 DEF RingTypes
    <2> QED
      BY <1>1, <1>2, <1>3, <2>1, Zenon DEF RingTypes
  <1>5. \A s \in Recycler : Cleaned(s)' <=> Cleaned(s)
    BY <1>2 DEF Cleaned
  <1>6. Cleaned(r) /\ CleanedRing(r)
    BY <1>1, RingFacts DEF LiveRing
  <1>7. CleanedRing(r)'
    BY <1>2, <1>6 DEF CleanedRing, Open
  <1>8. rings'[r].immutable_since # Never => joined'[r] # {}
    BY <1>1, <1>2, RingFacts
  <1>9. IF Cleaned(r)' THEN CleanedRing(r)' ELSE LiveRing(r)'
    BY <1>1, <1>5, <1>6, <1>7
  <1> QED
    BY <1>1, <1>2, <1>3, <1>4, <1>5, <1>8, <1>9, OneRing

\* A key of an archive is recovered once, and the archive goes with its last key.
LEMMA UnloadArchived ==
    ASSUME RingPart, NEW r \in Recycler, NEW k \in Key,
           unload_archived_recycler_into_external_asset(r, k)
    PROVE  RingPart'
  <1>1. PICK archive : archive = RecyclersArchives[r]
    OBVIOUS
  <1>2. /\ archive # NoArchive /\ k \in archive.root \ archive.unloaded
        /\ RecyclersArchives' = [RecyclersArchives EXCEPT ![r] =
               IF archive.remaining = 1 THEN NoArchive ELSE Recovered(archive, k)]
        /\ redeemed' = [redeemed EXCEPT ![r][k] = @ + 1]
        /\ RecyclerAliasStates' = RecyclerAliasStates
        /\ RecyclersUnloadedCount' = RecyclersUnloadedCount
        /\ RecyclersLastRemovedRingIndex' = RecyclersLastRemovedRingIndex
        /\ RecyclersDusting' = RecyclersDusting /\ rings' = rings /\ joined' = joined
    BY <1>1 DEF unload_archived_recycler_into_external_asset, aliasVars
  <1>3. Cleaned(r) /\ CleanedRing(r)
    BY <1>1, <1>2, RingFacts DEF LiveRing
  <1>4. k \in Open(r) /\ archive.remaining = Cardinality(Open(r))
        /\ archive.root \ archive.unloaded = Open(r)
    BY <1>1, <1>2, <1>3 DEF CleanedRing
  <1>5. k \in joined[r] /\ redeemed[r][k] = 0 /\ RingTypes
    BY <1>4 DEF Open, RingPart
  <1>6. redeemed \in [Recycler -> [Key -> Nat]] /\ redeemed[r] \in [Key -> Nat]
    BY <1>5 DEF RingTypes
  <1>7. redeemed' = [redeemed EXCEPT ![r] = [@ EXCEPT ![k] = 1]]
    BY <1>2, <1>5, <1>6
  <1>8. /\ redeemed' \in [Recycler -> [Key -> Nat]]
        /\ redeemed'[r][k] = 1
        /\ \A j \in Key : j # k => redeemed'[r][j] = redeemed[r][j]
        /\ \A s \in Recycler : s # r => redeemed'[s] = redeemed[s]
    BY <1>6, <1>7
  <1>9. joined[r] \subseteq Key /\ archive \in Archive
    BY <1>1, RingFacts
  <1>10. Open(r)' = Open(r) \ {k} /\ Open(r) \in SUBSET Key
    BY <1>2, <1>8, <1>9 DEF Open
  <1>11. Cardinality(Open(r)') = Cardinality(Open(r)) - 1 /\ Cardinality(Open(r)) \in Nat
    <2>1. IsFiniteSet(Open(r)) /\ Cardinality(Open(r)) \in Nat
      BY <1>10, KeySets
    <2>2. Cardinality(Open(r) \ {k}) = Cardinality(Open(r)) - 1
      BY <1>4, <2>1, FS_RemoveElement
    <2> QED
      BY <1>10, <2>1, <2>2
  <1>12. Cardinality(Open(r)') \in Nat
    <2>1. Open(r)' \in SUBSET Key
      BY <1>10
    <2> QED
      BY <2>1, KeySets
  <1>13. PICK left \in Archive : left = IF archive.remaining = 1 THEN NoArchive
                                        ELSE Recovered(archive, k)
    <2>1. archive.remaining - 1 \in Nat
      BY <1>4, <1>11, <1>12
    <2>2. Recovered(archive, k) \in Archive
      BY <1>9, <2>1 DEF Recovered, Archive
    <2> QED
      BY <2>2, NoArchiveType
  <1>14. left.remaining = Cardinality(Open(r)')
    BY <1>4, <1>9, <1>11, <1>13, NoArchiveType DEF Recovered, Archive
  <1>15. left # NoArchive => left.root \ left.unloaded = Open(r)'
    <2> SUFFICES ASSUME left # NoArchive PROVE left.root \ left.unloaded = Open(r)'
      OBVIOUS
    <2>1. left.root = archive.root /\ left.unloaded = archive.unloaded \union {k}
      BY <1>9, <1>13 DEF Recovered, Archive
    <2> QED
      BY <1>4, <1>10, <2>1
  <1>16. /\ RecyclersArchives' \in [Recycler -> Archive] /\ RecyclersArchives'[r] = left
         /\ \A s \in Recycler : s # r => RecyclersArchives'[s] = RecyclersArchives[s]
    BY <1>2, <1>5, <1>13 DEF RingTypes
  <1>17. RingTypes'
    BY <1>2, <1>5, <1>8, <1>16, Zenon DEF RingTypes
  <1>18. CleanedRing(r)'
    <2>1. \A j \in joined'[r] : redeemed'[r][j] <= 1
      BY <1>2, <1>3, <1>8, <1>9 DEF CleanedRing
    <2> QED
      BY <1>2, <1>3, <1>14, <1>15, <1>16, <2>1 DEF CleanedRing
  <1>19. \A s \in Recycler : Cleaned(s)' <=> Cleaned(s)
    BY <1>2 DEF Cleaned
  <1>20. rings'[r].immutable_since # Never => joined'[r] # {}
    BY <1>2, RingFacts
  <1>21. IF Cleaned(r)' THEN CleanedRing(r)' ELSE LiveRing(r)'
    BY <1>3, <1>18, <1>19
  <1> QED
    BY <1>2, <1>8, <1>16, <1>17, <1>19, <1>20, <1>21, OneRing

-----------------------------------------------------------------------------
(* The invariant is inductive *)

LEMMA InitInv == Init => Inv
  <1> SUFFICES ASSUME Init PROVE Inv
    OBVIOUS
  <1>1. now \in Nat
    BY DEF Init
  <1>2. CoinPart
    BY DEF Init, CoinPart, CoinTypes, LocksOwned, NotLocked
  <1>3. KeyPart
    <2>1. KeyTypes
      BY DEF Init, KeyTypes
    <2>2. \A r \in Recycler : rings[r].members = {}
      BY DEF Init
    <2> QED
      BY <2>1, <2>2, RecyclerFields DEF Init, KeyPart, KeyInv
  <1>4. RingTypes
    <2>1. [members |-> {}, immutable_since |-> Never] \in Ring
      BY DEF Ring
    <2>2. /\ rings \in [Recycler -> Ring] /\ joined \in [Recycler -> SUBSET Key]
          /\ redeemed \in [Recycler -> [Key -> Nat]]
      BY <2>1 DEF Init
    <2>3. RecyclerAliasStates \in [Recycler -> [Key -> AliasState]]
      BY StateFacts DEF Init
    <2>4. /\ RecyclersUnloadedCount \in [Recycler -> Nat \union {NotCounted}]
          /\ RecyclersLastRemovedRingIndex \in [Value -> Int]
          /\ RecyclersArchives \in [Recycler -> Archive] /\ RecyclersDusting \subseteq Recycler
      BY NoArchiveType DEF Init
    <2> QED
      BY <2>2, <2>3, <2>4 DEF RingTypes
  <1>5. ASSUME NEW r \in Recycler
        PROVE  ~ Cleaned(r) /\ LiveRing(r) /\ rings[r].immutable_since = Never
    <2>1. ~ Cleaned(r)
      BY RecyclerFields DEF Init, Cleaned
    <2>2. UnloadedOf(r) = {} /\ Cardinality(UnloadedOf(r)) = 0
      <3>1. UnloadedOf(r) = {}
        BY StateFacts DEF Init, UnloadedOf
      <3> QED
        BY <3>1, FS_EmptySet
    <2>3. unloaded_count(r) = 0
      BY DEF Init, unloaded_count
    <2>4. \A k \in Key : redeemed[r][k] = IF RecyclerAliasStates[r][k] = Unloaded THEN 1 ELSE 0
      BY StateFacts DEF Init
    <2> QED
      BY <2>1, <2>2, <2>3, <2>4 DEF Init, LiveRing
  <1> QED
    BY <1>1, <1>2, <1>3, <1>4, <1>5 DEF Inv, RingPart, RingInv

\* Calls that spend a coin.
LEMMA OnCoinsInv == Inv /\ OnCoins => Inv'
  <1> SUFFICES ASSUME Inv, NEW o \in Owner,
                      \/ \E values \in Splits : split(o, values)
                      \/ \E to \in Owner : transfer(o, to)
                      \/ direct_offboard_coin_into_external_asset(o)
                      \/ \E fee \in Fees : pay_for_recycler_unload_fee_token_with_coin(o, fee)
                      \/ coin_call_fails(o)
                      \/ \E k \in Key : load_recycler_with_coin(o, k)
               PROVE  Inv'
    BY DEF OnCoins
  <1>1. now \in Nat /\ CoinPart /\ RingPart /\ KeyPart /\ CoinTypes
    BY DEF Inv, CoinPart
  <1>2. CoinsByOwner[o] # NoCoin => /\ CoinsByOwner[o] \in Coin
                                    /\ CoinsByOwner[o].value \in Value
                                    /\ CoinsByOwner[o].age \in Nat
    BY <1>1 DEF CoinTypes, Coin
  <1>3. \A coins : coins = NoCoins => DOMAIN coins = {}
    BY DEF NoCoins
  <1>4. ASSUME NEW values \in Splits, split(o, values) PROVE Inv'
    <2>1. UNCHANGED <<loadVars, aliasVars, ringVars, redeemed, now>>
      BY <1>4 DEF split
    <2>2. CoinsByOwner[o].age + 1 \in Nat
      BY <1>2, <1>4 DEF split, CanUse
    <2>3. PICK age \in Nat : age = CoinsByOwner[o].age + 1
      BY <2>2
    <2>4. IsSplit(values, Worth(CoinsByOwner[o].value))
          /\ Spent(o, [p \in DOMAIN values |-> [value |-> values[p], age |-> age]])
      BY <1>4, <2>3 DEF split
    <2>5. LET coins == [p \in DOMAIN values |-> [value |-> values[p], age |-> age]]
          IN  /\ DOMAIN coins \subseteq Owner
              /\ \A p \in DOMAIN coins : coins[p] \in Coin /\ CoinsByOwner[p] = NoCoin
      BY <2>4, SplitCoins
    <2>6. CoinPart'
      BY <1>1, <2>4, <2>5, SpentCoins
    <2> QED
      BY <1>1, <2>1, <2>6, KeysKept, RingsKept DEF Inv, ringVars
  <1>5. ASSUME NEW to \in Owner, transfer(o, to) PROVE Inv'
    <2>1. /\ UNCHANGED <<loadVars, aliasVars, ringVars, redeemed, now>>
          /\ CoinsByOwner[o] # NoCoin /\ CoinsByOwner[to] = NoCoin
          /\ Spent(o, Only(to, [CoinsByOwner[o] EXCEPT !.age = @ + 1]))
      BY <1>5 DEF transfer, CanUse
    <2>2. [CoinsByOwner[o] EXCEPT !.age = @ + 1] \in Coin
      BY <1>2, <2>1 DEF Coin
    <2>3. PICK coin \in Coin : coin = [CoinsByOwner[o] EXCEPT !.age = @ + 1]
      BY <2>2
    <2>4. /\ DOMAIN Only(to, coin) \subseteq Owner
          /\ \A p \in DOMAIN Only(to, coin) : Only(to, coin)[p] \in Coin /\ CoinsByOwner[p] = NoCoin
      BY <2>1 DEF Only
    <2>5. CoinPart'
      BY <1>1, <2>1, <2>3, <2>4, SpentCoins
    <2> QED
      BY <1>1, <2>1, <2>5, KeysKept, RingsKept DEF Inv, ringVars
  <1>6. ASSUME direct_offboard_coin_into_external_asset(o) PROVE Inv'
    <2>1. UNCHANGED <<loadVars, aliasVars, ringVars, redeemed, now>> /\ Spent(o, NoCoins)
      BY <1>6 DEF direct_offboard_coin_into_external_asset
    <2>2. CoinPart'
      BY <1>1, <1>3, <2>1, SpentCoins
    <2> QED
      BY <1>1, <2>1, <2>2, KeysKept, RingsKept DEF Inv, ringVars
  <1>7. ASSUME NEW fee \in Fees, pay_for_recycler_unload_fee_token_with_coin(o, fee) PROVE Inv'
    <2>1. UNCHANGED <<loadVars, aliasVars, ringVars, redeemed, now>> /\ Spent(o, NoCoins)
      BY <1>7 DEF pay_for_recycler_unload_fee_token_with_coin
    <2>2. CoinPart'
      BY <1>1, <1>3, <2>1, SpentCoins
    <2> QED
      BY <1>1, <2>1, <2>2, KeysKept, RingsKept DEF Inv, ringVars
  <1>8. ASSUME coin_call_fails(o) PROVE Inv'
    <2>1. /\ UNCHANGED <<loadVars, aliasVars, ringVars, redeemed, now>>
          /\ CoinsByOwner' = CoinsByOwner /\ CoinsByOwner[o] # NoCoin
          /\ LockedCoins' = [LockedCoins EXCEPT ![o] = failed_dispatch_lock(@)]
      BY <1>8 DEF coin_call_fails, CanUse
    <2>2. LockedCoins' = [p \in Owner |-> IF p = o THEN failed_dispatch_lock(LockedCoins[p])
                                          ELSE LockedCoins[p]]
      BY <1>1, <2>1 DEF CoinTypes
    <2>3. CoinTypes'
      BY <1>1, <2>1, <2>2 DEF CoinTypes
    <2>4. \A p \in Owner : LockedCoins'[p] # NotLocked => CoinsByOwner'[p] # NoCoin
      BY <1>1, <2>1, <2>2 DEF CoinPart, CoinTypes, LocksOwned
    <2>5. CoinPart'
      BY <2>2, <2>3, <2>4 DEF CoinPart, LocksOwned
    <2> QED
      BY <1>1, <2>1, <2>5, KeysKept, RingsKept DEF Inv, ringVars
  <1>9. ASSUME NEW k \in Key, load_recycler_with_coin(o, k) PROVE Inv'
    <2>1. /\ UNCHANGED <<aliasVars, ringVars, redeemed, now>> /\ Spent(o, NoCoins)
          /\ CoinsByOwner[o] # NoCoin /\ load(Only(k, CoinsByOwner[o].value))
      BY <1>9 DEF load_recycler_with_coin, CanUse
    <2>2. Only(k, CoinsByOwner[o].value) \in [{k} -> Value]
      BY <1>2, <2>1 DEF Only
    <2>3. CoinPart'
      BY <1>1, <1>3, <2>1, SpentCoins
    <2>4. KeyPart'
      BY <1>1, <2>1, <2>2, LoadKeys DEF ringVars
    <2> QED
      BY <1>1, <2>1, <2>3, <2>4, RingsKept DEF Inv
  <1> QED
    BY <1>4, <1>5, <1>6, <1>7, <1>8, <1>9

LEMMA CoinsKept ==
    ASSUME CoinPart, UNCHANGED coinVars
    PROVE  CoinPart'
  BY DEF CoinPart, CoinTypes, LocksOwned, coinVars

\* Calls that take keys out of a ring.
LEMMA UnloadInv ==
    ASSUME Inv, NEW r \in Recycler, NEW keys \in (SUBSET rings[r].members) \ {{}},
           \/ \E to \in Owner : unload_recycler_into_coin(r, keys, to)
           \/ \E values \in Splits, max_fee \in Fees \union {0}, fee \in Fees \union {0} :
                  unload_recycler_into_coins(r, keys, values, max_fee, fee)
           \/ \E loaded \in Loads :
                  unload_recycler_into_external_asset_and_loaded_coins(r, keys, loaded)
    PROVE  Inv'
  <1>1. now \in Nat /\ CoinPart /\ RingPart /\ KeyPart
    BY DEF Inv
  <1>2. keys \in SUBSET Key
    BY <1>1, RingFacts
  <1>3. ASSUME NEW to \in Owner, unload_recycler_into_coin(r, keys, to) PROVE Inv'
    <2>1. PICK increment \in 0 .. MaximumExponent - r[1] :
              Placed(Only(to, [value |-> r[1] + increment, age |-> 0]))
      BY <1>3 DEF unload_recycler_into_coin
    <2>2. /\ CoinsByOwner[to] = NoCoin /\ unload(Only(r, keys)) /\ LockedCoins' = LockedCoins
          /\ UNCHANGED <<loadVars, ringVars, now>>
      BY <1>3 DEF unload_recycler_into_coin
    <2>3. r[1] + increment \in Value
      BY RecyclerFields, RecyclerAssumption DEF Value
    <2>4. PICK coin \in Coin : coin = [value |-> r[1] + increment, age |-> 0]
      BY <2>3 DEF Coin
    <2>5. /\ DOMAIN Only(to, coin) \subseteq Owner
          /\ \A p \in DOMAIN Only(to, coin) : Only(to, coin)[p] \in Coin /\ CoinsByOwner[p] = NoCoin
      BY <2>2 DEF Only
    <2>6. CoinPart'
      BY <1>1, <2>1, <2>2, <2>4, <2>5, PlacedCoins
    <2>7. RingPart'
      BY <1>1, <1>2, <2>2, UnloadOne
    <2> QED
      BY <1>1, <2>2, <2>6, <2>7, KeysKept DEF Inv, ringVars
  <1>4. ASSUME NEW values \in Splits, NEW max_fee \in Fees \union {0}, NEW fee \in Fees \union {0},
               unload_recycler_into_coins(r, keys, values, max_fee, fee)
        PROVE  Inv'
    <2>1. /\ IsSplit(values, Taken(r, keys) - max_fee)
          /\ Placed([o \in DOMAIN values |-> [value |-> values[o], age |-> 1]])
          /\ unload(Only(r, keys)) /\ LockedCoins' = LockedCoins
          /\ UNCHANGED <<loadVars, ringVars, now>>
      BY <1>4 DEF unload_recycler_into_coins
    <2>2. PICK age \in Nat : age = 1
      OBVIOUS
    <2>3. LET coins == [p \in DOMAIN values |-> [value |-> values[p], age |-> age]]
          IN  /\ DOMAIN coins \subseteq Owner
              /\ \A p \in DOMAIN coins : coins[p] \in Coin /\ CoinsByOwner[p] = NoCoin
      BY <2>1, SplitCoins
    <2>4. CoinPart'
      BY <1>1, <2>1, <2>2, <2>3, PlacedCoins
    <2>5. RingPart'
      BY <1>1, <1>2, <2>1, UnloadOne
    <2> QED
      BY <1>1, <2>1, <2>4, <2>5, KeysKept DEF Inv, ringVars
  <1>5. ASSUME NEW loaded \in Loads,
               unload_recycler_into_external_asset_and_loaded_coins(r, keys, loaded)
        PROVE  Inv'
    <2>1. unload(Only(r, keys)) /\ load(loaded) /\ UNCHANGED <<coinVars, ringVars, now>>
      BY <1>5 DEF unload_recycler_into_external_asset_and_loaded_coins
    <2>2. PICK K \in SUBSET Key : loaded \in [K -> Value]
      BY DEF Loads
    <2>3. KeyPart'
      BY <1>1, <2>1, <2>2, LoadKeys DEF ringVars
    <2>4. RingPart'
      BY <1>1, <1>2, <2>1, UnloadOne
    <2> QED
      BY <1>1, <2>1, <2>3, <2>4, CoinsKept DEF Inv
  <1> QED
    BY <1>3, <1>4, <1>5

LEMMA OnRingsInv == Inv /\ OnRings => Inv'
  <1> SUFFICES ASSUME Inv, OnRings PROVE Inv'
    OBVIOUS
  <1>1. now \in Nat /\ CoinPart /\ RingPart /\ KeyPart
    BY DEF Inv
  <1>2. ASSUME NEW keys \in Loads, load_recycler_with_external_asset(keys) PROVE Inv'
    <2>1. load(keys) /\ UNCHANGED <<coinVars, aliasVars, ringVars, redeemed, now>>
      BY <1>2 DEF load_recycler_with_external_asset
    <2>2. PICK K \in SUBSET Key : keys \in [K -> Value]
      BY DEF Loads
    <2>3. KeyPart'
      BY <1>1, <2>1, <2>2, LoadKeys DEF ringVars
    <2> QED
      BY <1>1, <2>1, <2>3, CoinsKept, RingsKept DEF Inv
  <1>3. ASSUME NEW v \in Value, NEW keys \in (SUBSET queue[v]) \ {{}}, onboard(v, keys) PROVE Inv'
    <2>1. UNCHANGED <<coinVars, now>>
      BY <1>3 DEF onboard
    <2> QED
      BY <1>1, <1>3, <2>1, CoinsKept, Onboard DEF Inv
  <1>4. ASSUME NEW R \in (SUBSET {r \in Recycler : rings[r].members # {}}) \ {{}},
               NEW keys \in [R -> SUBSET Key], unload_recyclers_into_external_asset(keys)
        PROVE  Inv'
    <2>1. unload(keys) /\ UNCHANGED <<coinVars, loadVars, ringVars, now>>
      BY <1>4 DEF unload_recyclers_into_external_asset
    <2>2. RingPart'
      BY <1>1, <2>1, UnloadKeys
    <2> QED
      BY <1>1, <2>1, <2>2, CoinsKept, KeysKept DEF Inv, ringVars
  <1>5. ASSUME NEW r \in Recycler, NEW k \in Key, output_unload_fails(r, k) PROVE Inv'
    <2>1. UNCHANGED <<coinVars, loadVars, ringVars, now>>
      BY <1>5 DEF output_unload_fails
    <2> QED
      BY <1>1, <1>5, <2>1, OutputUnloadFails, CoinsKept, KeysKept DEF Inv, ringVars
  <1>6. ASSUME NEW r \in Recycler, NEW k \in Key,
               unload_archived_recycler_into_external_asset(r, k)
        PROVE  Inv'
    <2>1. UNCHANGED <<coinVars, loadVars, rings, now>>
      BY <1>6 DEF unload_archived_recycler_into_external_asset
    <2> QED
      BY <1>1, <1>6, <2>1, UnloadArchived, CoinsKept, KeysKept DEF Inv
  <1>7. ASSUME NEW v \in Value, clean_recycler(v) PROVE Inv'
    <2>1. UNCHANGED <<coinVars, now>>
      BY <1>7 DEF clean_recycler
    <2> QED
      BY <1>1, <1>7, <2>1, CleanRecycler, CoinsKept DEF Inv
  <1>8. ASSUME NEW r \in RecyclersDusting, NEW keys \in SUBSET Key, clean_recycler_dust(r, keys)
        PROVE  Inv'
    <2>1. UNCHANGED <<coinVars, loadVars, rings, now>>
      BY <1>8 DEF clean_recycler_dust
    <2> QED
      BY <1>1, <1>8, <2>1, CleanDust, CoinsKept, KeysKept DEF Inv
  <1> QED
    BY <1>2, <1>3, <1>4, <1>5, <1>6, <1>7, <1>8, UnloadInv DEF OnRings

LEMMA RestInv ==
    ASSUME Inv, now' \in Nat, UNCHANGED <<coinVars, loadVars, aliasVars, ringVars, redeemed>>
    PROVE  Inv'
  BY CoinsKept, KeysKept, RingsKept DEF Inv, ringVars

LEMMA NextInv == Inv /\ [Next]_vars => Inv'
  <1> SUFFICES ASSUME Inv, [Next]_vars PROVE Inv'
    OBVIOUS
  <1>1. now \in Nat
    BY DEF Inv
  <1>2. CASE OnPot
    BY <1>1, <1>2, RestInv DEF OnPot
  <1>3. CASE Tick
    BY <1>1, <1>3, RestInv DEF Tick
  <1>4. CASE UNCHANGED vars
    BY <1>1, <1>4, RestInv DEF vars
  <1> QED
    BY <1>2, <1>3, <1>4, OnCoinsInv, OnRingsInv DEF Next

\* Every state of the recyclers satisfies the invariant.
THEOREM Invariant == Spec => []Inv
  BY InitInv, NextInv, PTL DEF Spec

-----------------------------------------------------------------------------
(* What the invariant says *)

LEMMA InvPaidOut == Inv => PaidOutOnce
  <1> SUFFICES ASSUME Inv PROVE PaidOutOnce
    OBVIOUS
  <1>1. RingPart /\ DOMAIN redeemed = Recycler
    BY DEF Inv, RingPart, RingTypes
  <1> SUFFICES ASSUME NEW r \in Recycler
               PROVE  /\ \A k \in joined[r] : redeemed[r][k] <= 1
                      /\ IF rings[r].members # {} \/ joined[r] = {}
                         THEN InRings(r) = Open(r)
                         ELSE /\ RecyclersArchives[r].remaining = Cardinality(Open(r))
                              /\ RecyclersArchives[r] # NoArchive =>
                                     RecyclersArchives[r].root \ RecyclersArchives[r].unloaded
                                         = Open(r)
    BY <1>1 DEF PaidOutOnce, Open
  <1>2. CASE Cleaned(r)
    <2>1. CleanedRing(r)
      BY <1>1, <1>2, RingFacts
    <2>2. joined[r] = {} => InRings(r) = Open(r)
      BY <2>1 DEF CleanedRing, InRings, Open
    <2> QED
      BY <2>1, <2>2 DEF CleanedRing
  <1>3. CASE ~ Cleaned(r)
    <2>1. LiveRing(r) /\ joined[r] \subseteq Key
          /\ UnloadedOf(r) = {k \in Key : RecyclerAliasStates[r][k] = Unloaded}
      BY <1>1, <1>3, RingFacts
    <2>2. \A k \in joined[r] : /\ redeemed[r][k] <= 1
                               /\ redeemed[r][k] = 0 <=> k \notin UnloadedOf(r)
      BY <2>1 DEF LiveRing
    <2>3. InRings(r) = Open(r) /\ rings[r].members = joined[r]
      BY <2>1, <2>2 DEF LiveRing, InRings, Open
    <2> QED
      BY <2>2, <2>3
  <1> QED
    BY <1>2, <1>3

LEMMA InvRecyclers == Inv => RecyclersExact
  <1> SUFFICES ASSUME Inv PROVE RecyclersExact
    OBVIOUS
  <1>1. RingPart /\ KeyPart /\ CoinPart
    BY DEF Inv
  <1>2. LocksOwned
    BY <1>1 DEF CoinPart
  <1>3. CountExact
    <2>1. DOMAIN rings = Recycler
      BY <1>1 DEF RingPart, RingTypes
    <2> QED
      BY <1>1, <2>1, RingFacts DEF CountExact, LiveRing
  <1>4. KeysExact
    <2>1. /\ DOMAIN rings = Recycler /\ DOMAIN RecyclersCoinToRecycler = Key
          /\ DOMAIN queue = Value
      BY <1>1 DEF RingPart, RingTypes, KeyPart, KeyTypes
    <2>2. \A r \in Recycler : \A k \in rings[r].members : RecyclersCoinToRecycler[k] = r[1]
      BY <1>1 DEF KeyPart, KeyInv
    <2> QED
      BY <1>1, <2>1, <2>2 DEF KeyPart, KeyInv, KeysExact
  <1> QED
    BY <1>2, <1>3, <1>4 DEF RecyclersExact

\* For every number of keys, values and rings: a key is paid out at most once for each ring it
\* was in, from the ring, after failed calls or from the archive, and until then it can be
\* (unload_recycler_*, clean_recycler, unload_archived_recycler_into_external_asset).
THEOREM PaidOutCorrect == Spec => []PaidOutOnce
  BY Invariant, InvPaidOut, PTL

\* The count of unloaded aliases that the extension keeps across failed calls is exact, the keys
\* that may not be loaded again are the ones that wait or are in a ring that is not cleaned, and
\* only coins are locked (RecyclersUnloadedCount, RecyclersCoinToRecycler, LockedCoins).
THEOREM RecyclersCorrect == Spec => []RecyclersExact
  BY Invariant, InvRecyclers, PTL
=============================================================================

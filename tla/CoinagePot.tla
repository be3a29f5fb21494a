----------------------------- MODULE CoinagePot -----------------------------
(***************************************************************************)
(* pallets/coinage/src/pot.rs: the pot of a coinage instance.  A sponsored *)
(* instance holds a deposit of its pot for every key in its recyclers, at  *)
(* the price in force when the key was loaded; the ledger has two tiers,   *)
(* the current price and one older.                                        *)
(*                                                                         *)
(* Charged and Settled are what the loads and the unloads of Coinage do to *)
(* the pot.  A call that fails is undone as a whole and is no step.        *)
(***************************************************************************)
EXTENDS Integers, FiniteSets, FiniteSetsExt

CONSTANTS
    DepositAsset, Funder,
    LoadDeposits,               \* values LoadDeposit takes: records [asset_id, price]
    MinimumBalance,
    Modes,                      \* modes the instance may be in
    MaxContribution             \* bound on what a funder has in the pot in an asset

VARIABLES
    pot,                        \* [mode, old, current, free, held]: the mode and the tiers of
                                \* the instance, the balances of its pot in each asset
    LoadDeposit,                \* price of a load, set by governance
    PotContributions            \* funder -> asset -> amount

potVars == <<pot, LoadDeposit, PotContributions>>

NoTier == [count |-> 0]
Tier(deposit, n) == [asset_id |-> deposit.asset_id, price |-> deposit.price, count |-> n]
IsPricedAt(tier, deposit) ==
    tier # NoTier /\ tier.asset_id = deposit.asset_id /\ tier.price = deposit.price
HeldBy(tier, a) == IF tier # NoTier /\ tier.asset_id = a THEN tier.price * tier.count ELSE 0
load_deposit_key_count(p) == p.old.count + p.current.count

Less(tier, n) == IF tier.count = n THEN NoTier ELSE [tier EXCEPT !.count = @ - n]

\* The pot with amounts moved from its held to its free balance.
Released(p, Amount(_)) ==
    [p EXCEPT !.free = [a \in DepositAsset |-> @[a] + Amount(a)],
              !.held = [a \in DepositAsset |-> @[a] - Amount(a)]]

\* hold of the deposits of n keys at the current price; it leaves the minimum balance.
CanHold(p, n) == p.free[LoadDeposit.asset_id] - LoadDeposit.price * n >= MinimumBalance
Held(p, n) ==
    Released(p, LAMBDA a : IF a = LoadDeposit.asset_id THEN - LoadDeposit.price * n ELSE 0)

-----------------------------------------------------------------------------
(* The deposits of keys *)

Charges(p, n) == p.mode = "sponsored" /\ n > 0
Rotates(p) == p.current # NoTier /\ ~ IsPricedAt(p.current, LoadDeposit)

CanCharge(p, n) == Charges(p, n) => CanHold(p, n) /\ (Rotates(p) => p.old = NoTier)

charge_load_deposit(p, n) ==
    IF ~ Charges(p, n) THEN p
    ELSE LET rotated == IF Rotates(p) THEN [p EXCEPT !.old = p.current, !.current = NoTier] ELSE p
         IN [Held(rotated, n) EXCEPT !.current = Tier(LoadDeposit, rotated.current.count + n)]

\* Oldest tier first; keys beyond the ledger carried no deposit.
settle_load_deposits(p, k) ==
    IF ~ Charges(p, k) THEN p
    ELSE LET ofOld == Min({p.old.count, k})
             ofCurrent == Min({p.current.count, k - ofOld})
             Taken(a) == HeldBy([p.old EXCEPT !.count = ofOld], a)
                         + HeldBy([p.current EXCEPT !.count = ofCurrent], a)
         IN [Released(p, Taken) EXCEPT !.old = Less(p.old, ofOld),
                                       !.current = Less(p.current, ofCurrent)]

\* Both tiers off the ledger, their holds released.
ReleasedAll(p) ==
    [Released(p, LAMBDA a : HeldBy(p.old, a) + HeldBy(p.current, a))
        EXCEPT !.old = NoTier, !.current = NoTier]

-----------------------------------------------------------------------------
(* Calls on the pot *)

fund_pot(f, a, amount) ==
    /\ pot.mode = "sponsored"
    /\ amount > 0 /\ amount >= MinimumBalance
    /\ PotContributions[f][a] + amount <= MaxContribution           \* bound
    /\ pot' = [pot EXCEPT !.free[a] = @ + amount]
    /\ PotContributions' = [PotContributions EXCEPT ![f][a] = @ + amount]
    /\ UNCHANGED LoadDeposit

withdraw_pot_funds(f, a, amount) ==
    /\ amount > 0
    /\ amount <= PotContributions[f][a]
    /\ pot.free[a] - amount >= MinimumBalance
    /\ pot' = [pot EXCEPT !.free[a] = @ - amount]
    /\ PotContributions' = [PotContributions EXCEPT ![f][a] = @ - amount]
    /\ UNCHANGED LoadDeposit

\* Every deposit at the current price.
collapse_load_deposits ==
    LET n == load_deposit_key_count(pot) IN
    /\ pot.mode = "sponsored"
    /\ pot.old # NoTier \/ Rotates(pot)
    /\ CanHold(ReleasedAll(pot), n)
    /\ pot' = [Held(ReleasedAll(pot), n) EXCEPT !.current = Tier(LoadDeposit, n)]
    /\ UNCHANGED <<LoadDeposit, PotContributions>>

make_instance_sufficient ==
    /\ pot.mode = "sponsored" /\ "sufficient" \in Modes
    /\ pot' = [ReleasedAll(pot) EXCEPT !.mode = "sufficient"]
    /\ UNCHANGED <<LoadDeposit, PotContributions>>

make_instance_sponsored ==
    /\ pot.mode = "sufficient" /\ "sponsored" \in Modes
    /\ pot' = [pot EXCEPT !.mode = "sponsored"]
    /\ UNCHANGED <<LoadDeposit, PotContributions>>

\* Governance sets the price; external.
set_load_deposit(d) ==
    /\ LoadDeposit' = d
    /\ UNCHANGED <<pot, PotContributions>>

PotInit ==
    /\ \E m \in Modes :
           pot = [mode |-> m, old |-> NoTier, current |-> NoTier,
                  free |-> [a \in DepositAsset |-> 0], held |-> [a \in DepositAsset |-> 0]]
    /\ LoadDeposit \in LoadDeposits
    /\ PotContributions = [f \in Funder |-> [a \in DepositAsset |-> 0]]

PotNext ==
    \/ \E f \in Funder, a \in DepositAsset, amount \in 1 .. MaxContribution :
           fund_pot(f, a, amount) \/ withdraw_pot_funds(f, a, amount)
    \/ collapse_load_deposits
    \/ make_instance_sufficient \/ make_instance_sponsored
    \/ \E d \in LoadDeposits : set_load_deposit(d)

-----------------------------------------------------------------------------
(* Properties *)

(* What the pot holds of an asset are the deposits of the keys on the ledger, each at the      *)
(* price it was taken at, and all the pot has of it was given by funders who have not taken it *)
(* back: release of release_load_deposit and of collapse is exact, and no path of load,        *)
(* settlement, re-pricing or change of mode pays one funder with another's money.              *)
PotExact ==
    \A a \in DepositAsset :
        /\ pot.held[a] = HeldBy(pot.old, a) + HeldBy(pot.current, a)
        /\ pot.free[a] + pot.held[a] =
               MapThenSumSet(LAMBDA f : PotContributions[f][a], Funder)
        /\ pot.free[a] >= 0
=============================================================================

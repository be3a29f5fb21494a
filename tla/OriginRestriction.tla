------------------------- MODULE OriginRestriction -------------------------
(* pallets/origin-restriction: the origins that pay no fees spend an allowance instead,      *)
(* which recovers by the block.  An extrinsic is validated, prepared, dispatched and settled   *)
(* in one block, without another extrinsic of the entity in between.                           *)
EXTENDS Integers, FiniteSets, FiniteSetsExt

CONSTANTS
    None,               \* no value
    Entity,             \* the restricted entities
    Fees,               \* the fees of extrinsics, before and after dispatch
    AllowanceMax, RecoveryPerBlock,
    MaxNow              \* bound: the block number

VARIABLES
    Usages,             \* entity -> what it used of its allowance, and when
    spent,              \* entity -> all the fees it was charged, refunds deducted
    now

vars == <<Usages, spent, now>>

Init ==
    /\ Usages = [e \in Entity |-> None]
    /\ spent = [e \in Entity |-> 0]
    /\ now = 0

Sub(m, n) == IF m < n THEN 0 ELSE m - n

\* What is left of the usage of `e` after the blocks that passed.
Recovered(e) ==
    IF Usages[e] = None THEN 0
    ELSE Sub(Usages[e].used, RecoveryPerBlock * Sub(now, Usages[e].at_block))

\* The fee fits in the allowance, or the call may exceed it and nothing of it is used.
Allowed(e, fee, excess) ==
    Recovered(e) + fee <= AllowanceMax \/ (excess /\ Recovered(e) = 0)

\* `validate`, `prepare` and `post_dispatch_details`: what was charged too much is given back,
\* all of it (`actual` is 0) if the call turned out to be free.  A usage of zero is removed.
extrinsic(e, fee, excess, actual) ==
    LET used == Sub(Recovered(e) + fee, Sub(fee, actual)) IN
    /\ Allowed(e, fee, excess)
    /\ Usages' = [Usages EXCEPT
            ![e] = IF used = 0 THEN None ELSE [used |-> used, at_block |-> now]]
    /\ spent' = [spent EXCEPT ![e] = @ + Min({fee, actual})]
    /\ UNCHANGED now

clean_usage(e) ==
    /\ Usages[e] # None
    /\ Recovered(e) = 0
    /\ Usages' = [Usages EXCEPT ![e] = None]
    /\ UNCHANGED <<spent, now>>

NextBlock ==
    /\ now < MaxNow
    /\ now' = now + 1
    /\ UNCHANGED <<Usages, spent>>

Next ==
    \/ \E e \in Entity : clean_usage(e)
    \/ \E e \in Entity, fee, actual \in Fees, excess \in BOOLEAN :
        extrinsic(e, fee, excess, actual)
    \/ NextBlock

Spec == Init /\ [][Next]_vars

-----------------------------------------------------------------------------
(* Properties *)

\* What an entity spent in all is within what its allowance recovered and one full allowance, or
\* one call that may exceed it: no order of calls, refunds and clean-ups spends a block's
\* recovery twice.
RateLimited ==
    \A e \in Entity :
        spent[e] <= RecoveryPerBlock * now + Max({AllowanceMax} \cup Fees)
=============================================================================

---------------------------- MODULE CreditLedger ----------------------------
(***************************************************************************)
(* What the two NFT pallets promise together: a credit is earned, then     *)
(* minted at most once.  Several credits may be earned by one report, and  *)
(* minted by one transaction, whose minter contract may claim again.       *)
(***************************************************************************)
EXTENDS Naturals

CONSTANT Credit

VARIABLES
    earned,                     \* credits awarded so far
    mints                       \* credit -> NFTs minted for it

Init == earned = {} /\ mints = [c \in Credit |-> 0]

Earn(new) ==
    /\ new # {} /\ new \intersect earned = {}
    /\ earned' = earned \union new
    /\ UNCHANGED mints

Mint(credits) ==
    /\ credits # {} /\ credits \subseteq earned
    /\ \A c \in credits : mints[c] = 0
    /\ mints' = [c \in Credit |-> IF c \in credits THEN 1 ELSE mints[c]]
    /\ UNCHANGED earned

Next == \E credits \in SUBSET Credit : Earn(credits) \/ Mint(credits)

Spec == Init /\ [][Next]_<<earned, mints>>
=============================================================================

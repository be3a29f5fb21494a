-------------------------------- MODULE MCNft --------------------------------
(* Three credits of two claimants: two of game 0, one of game 1.  Half of the behaviours are   *)
(* of the two chains, with two credits a tree; half of nft-credits alone, with one credit a    *)
(* tree, where awarding runs ahead of the trees as far as it may.                              *)
EXTENDS NftDelivery

CONSTANTS c1, c2, c3

VARIABLE alone

MCCredit == {c1, c2, c3}
MCGameOf == [c \in MCCredit |-> IF c = c3 THEN 1 ELSE 0]
MCClaimantOf == [c \in MCCredit |-> IF c = c2 THEN "b" ELSE "a"]

A == INSTANCE NftCredits WITH AWARDS_PER_TREE <- 1, MaxAwardBlock <- 1, MaxInFlight <- 0,
        ROOT_TTL_GRACE <- MaxBlock

MCInit == alone \in BOOLEAN /\ Init

MCNext ==
    /\ \/ ~ alone /\ Next
       \/ alone /\ A!CreditsNext /\ UNCHANGED claimsVars
    /\ UNCHANGED alone

MCSpec == MCInit /\ [][MCNext]_<<alone, vars>>

\* A credit that was awarded is on its way to its claimant: waiting for its tree, or in a tree
\* that the pallet serves a proof from and that the claimant's index names.
CreditsKept ==
    /\ IF alone THEN A!CreditsCommitted ELSE CreditsCommitted
    /\ ProofsServed
    /\ BlocksIndexed
=============================================================================

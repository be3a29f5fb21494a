----------------------------- MODULE NftDelivery -----------------------------
(***************************************************************************)
(* nft-credits and nft-claims joined by the two XCM channels.  Messages    *)
(* arrive in order; one whose Transact fails is lost.  The clocks of the   *)
(* chains differ by at most MaxSkew one way and MaxLead the other.         *)
(***************************************************************************)
EXTENDS NftCredits

CONSTANTS
    TreeTtl, MaxCreditsPerTree, MaxQueuedTreeDeletions, MaxTreeDeletionsPerMessage, MaxDepth,
    MaxDeletionMessages,
    MaxSkew,                    \* how far the clock of the claims chain is behind
    MaxLead                     \* or ahead

VARIABLES
    claims_now, CreditTrees, NextExpectedSequence, ClaimedLeaves, TreeExpiries,
    PendingTreeDeletions, to_game, mints, calls, accepted, missing

C == INSTANCE NftClaims WITH TreeBlock <- Block

claimsVars == <<claims_now, CreditTrees, NextExpectedSequence, ClaimedLeaves, TreeExpiries,
                PendingTreeDeletions, to_game, mints, calls, accepted, missing>>
vars == <<creditVars, claimsVars>>

\* The runtimes agree on the trees, and a root outlives its tree by more than the clocks differ.
ASSUME RuntimesAgree ==
    /\ TreeTtl = ClaimsChainTreeTtl
    /\ MaxSkew \in Nat /\ MaxQueuedTreeDeletions \in Nat /\ MaxTreeDeletionsPerMessage \in Nat
    /\ MaxCreditsPerTree >= AWARDS_PER_TREE
    /\ MaxSkew <= ROOT_TTL_GRACE
    /\ AwardRetentionTtl <= root_ttl

-----------------------------------------------------------------------------
\* An extrinsic of the claims chain is atomic: the game's chain moves between two of them.
Game == C!Idle /\ CreditsNext /\ UNCHANGED claimsVars /\ block' <= claims_now + MaxSkew

Claims == C!ClaimsNext /\ UNCHANGED creditVars

clock ==
    /\ C!Idle
    /\ claims_now < block + MaxLead
    /\ claims_now' = claims_now + 1
    /\ UNCHANGED <<creditVars, CreditTrees, NextExpectedSequence, ClaimedLeaves, TreeExpiries,
                   PendingTreeDeletions, to_game, mints, calls, accepted, missing>>

sweep_expired_trees ==
    \E retired \in SUBSET TreeExpiries :
        /\ drain_due_expiries(TreeExpiries, TreeTtl, claims_now, MaxTreeDeletionsPerMessage,
                              retired)
        /\ C!sweep_expired_trees(retired)
        /\ UNCHANGED creditVars

Dequeue ==
    /\ to_claims # <<>>
    /\ to_claims' = Tail(to_claims)
    /\ UNCHANGED <<block, awarding, roots, awards, CreditTreeDeliveryQueue,
                   NextCreditTreeSequence, LastReplayTime>>

trees_arrive == Dequeue /\ C!receive_credit_trees(Head(to_claims))

trees_lost == C!Idle /\ Dequeue /\ UNCHANGED claimsVars

deletions_arrive ==
    /\ C!Idle
    /\ to_game # <<>>
    /\ receive_tree_deletions(Head(to_game))
    /\ to_game' = Tail(to_game)
    /\ UNCHANGED <<claims_now, CreditTrees, NextExpectedSequence, ClaimedLeaves, TreeExpiries,
                   PendingTreeDeletions, mints, calls, accepted, missing>>

deletions_lost ==
    /\ C!Idle
    /\ to_game # <<>>
    /\ to_game' = Tail(to_game)
    /\ UNCHANGED <<creditVars, claims_now, CreditTrees, NextExpectedSequence, ClaimedLeaves,
                   TreeExpiries, PendingTreeDeletions, mints, calls, accepted, missing>>

Init == CreditsInit /\ C!ClaimsInit

Next ==
    \/ Game
    \/ Claims
    \/ clock
    \/ sweep_expired_trees
    \/ trees_arrive \/ trees_lost
    \/ deletions_arrive \/ deletions_lost

Spec == Init /\ [][Next]_vars

-----------------------------------------------------------------------------
(* Properties *)

Earned == {c \in Credit : dated[c] # Never}

ClaimsFiled == C!Idle => C!ClaimsFiled
GapsReported == C!GapsReported

\* A credit that was awarded, not minted, and whose tree the claims chain would still take is in
\* a buffer or under a root of the game's chain, so that a replay can bring it: no deletion,
\* sweep or reordering of the two removes the last copy of an open claim.
OpenClaimsKept ==
    C!Idle =>
        \A c \in Earned :
            \/ mints[c] > 0
            \/ \E b \in Block :
                \/ /\ CreditBuffers[b] # NoBuffer
                   /\ c \in Range(NftClaimCreditAwards[b])
                \/ c \in Range(NftClaimCreditRoots[b].root)
            \/ claims_now >= dated[c] + TreeTtl

\* The two pallets keep the promise of CreditLedger: a credit is minted at most once, and only
\* one that was earned, whatever is lost, replayed, expired, reentered or undone.  What a
\* transaction under way has minted counts when it ends.
Ledger == INSTANCE CreditLedger WITH
            earned <- Earned,
            mints <- IF calls = <<>> THEN mints ELSE calls[1].before[4]
LedgerKept == Ledger!Spec

\* A claim is open exactly where it may be made, and is not lost while it may be: the leaves of
\* nft-claims are those of its trees, and the game chain keeps its copy of what is unclaimed.
ClaimsKept == OpenClaimsKept /\ ClaimsFiled

=============================================================================

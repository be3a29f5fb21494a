------------------------------ MODULE NftClaims ------------------------------
(***************************************************************************)
(* pallets/nft-claims: the trees received from the game's chain, the       *)
(* claims that mint against them, expiry, and the deletions owed to the    *)
(* game's chain.                                                           *)
(*                                                                         *)
(* Proofs are sound: who claims leaf i of a tree is the claimant of the    *)
(* credit there.  A collection with a minter contract calls it while the   *)
(* claim is under way; the contract may claim again, and may fail, which   *)
(* undoes all that happened since its claim began.  How the item is chosen *)
(* and how collections register minters is left out; a claim they refuse   *)
(* is one that fails.                                                      *)
(***************************************************************************)
EXTENDS Integers, Sequences, SequencesExt, FiniteSetsExt

CONSTANTS
    Credit,
    TreeBlock,                  \* blocks of the game's chain
    TreeTtl,
    MaxCreditsPerTree,
    MaxQueuedTreeDeletions,
    MaxTreeDeletionsPerMessage,
    MaxDepth,                   \* bound on claims within claims
    MaxDeletionMessages         \* bound on the messages in the channel

VARIABLES
    claims_now,                 \* time of this chain
    CreditTrees,                \* block -> tree, NoTree if none
    NextExpectedSequence,
    ClaimedLeaves,              \* block -> leaf indices
    TreeExpiries,               \* <<timestamp, block>> pairs
    PendingTreeDeletions,
    to_game,                    \* deletions on their way to the game's chain
    mints,                      \* credit -> NFTs minted for it
    calls,                      \* claims whose minter contract is running, innermost last
    accepted, missing           \* history: sequences taken, and named by CreditTreesMissing

minting == <<CreditTrees, ClaimedLeaves, PendingTreeDeletions, mints>>
claimsVars == <<claims_now, minting, NextExpectedSequence, TreeExpiries, to_game, calls,
                accepted, missing>>

NoCreditTree == [root |-> <<>>]
Idle == calls = <<>>

-----------------------------------------------------------------------------
(* Receiving *)

tree_has_expired(tree) == claims_now >= tree.timestamp + TreeTtl

Accepted(update) ==
    /\ Len(update.tree.root) \in 1 .. MaxCreditsPerTree
    /\ ~ tree_has_expired(update.tree)
    /\ CreditTrees[update.block] \in {NoCreditTree, update.tree}

\* The expected sequence after the accepted ones, in order; the gaps before them are reported.
\* Mutant: a gap is skipped in silence.
note_sequences_silent(sequences) ==
    LET new == {s \in sequences : s >= NextExpectedSequence}
    IN  /\ accepted' = accepted \union new
        /\ NextExpectedSequence' = IF new = {} THEN NextExpectedSequence ELSE Max(new) + 1
        /\ UNCHANGED missing

note_sequences(sequences) ==
    LET new == {s \in sequences : s >= NextExpectedSequence}
        next == IF new = {} THEN NextExpectedSequence ELSE Max(new) + 1
    IN  /\ accepted' = accepted \union new
        /\ missing' = missing \union ((NextExpectedSequence .. next - 1) \ new)
        /\ NextExpectedSequence' = next

receive_credit_trees(batch) ==
    LET taken == {u \in batch : Accepted(u)}
        stored == {u \in taken : CreditTrees[u.block] = NoCreditTree}
    IN  /\ Idle
        /\ CreditTrees' = [b \in TreeBlock |->
                IF \E u \in stored : u.block = b
                THEN (CHOOSE u \in stored : u.block = b).tree ELSE CreditTrees[b]]
        /\ TreeExpiries' = TreeExpiries \union {<<u.tree.timestamp, u.block>> : u \in stored}
        /\ note_sequences({u.sequence : u \in taken} \ {-1})
        /\ UNCHANGED <<claims_now, ClaimedLeaves, PendingTreeDeletions, mints, to_game, calls>>

-----------------------------------------------------------------------------
(* Claiming *)

\* As many as the queue has room for; the rest are dropped.
queue_tree_deletions(queue, blocks) ==
    queue \o SubSeq(blocks, 1, Min({Len(blocks), MaxQueuedTreeDeletions - Len(queue)}))

\* Mutant: a tree goes with the first of its claims.
Minted_first(b, tree, i, claimed) ==
    /\ mints' = [mints EXCEPT ![tree.root[i]] = @ + 1]
    /\ CreditTrees' = [CreditTrees EXCEPT ![b] = NoCreditTree]
    /\ PendingTreeDeletions' = queue_tree_deletions(PendingTreeDeletions, <<b>>)

\* The claim of leaf i mints: its tree goes when no leaf is left, which is counted after the
\* contract ran; claimed and trees are the state then.
Minted(b, tree, i, claimed) ==
    /\ mints' = [mints EXCEPT ![tree.root[i]] = @ + 1]
    /\ IF Cardinality(claimed) < Len(tree.root)
       THEN UNCHANGED <<CreditTrees, PendingTreeDeletions>>
       ELSE /\ CreditTrees' = [CreditTrees EXCEPT ![b] = NoCreditTree]
            /\ PendingTreeDeletions' = queue_tree_deletions(PendingTreeDeletions, <<b>>)

CanClaim(b, i) ==
    /\ CreditTrees[b] # NoCreditTree
    /\ i \in DOMAIN CreditTrees[b].root
    /\ i \notin ClaimedLeaves[b]

\* A claim into a collection whose items are drawn without a contract.
claim(b, i) ==
    LET claimed == ClaimedLeaves[b] \union {i}
    IN  /\ CanClaim(b, i)
        /\ ClaimedLeaves' = [ClaimedLeaves EXCEPT ![b] = claimed]
        /\ Minted(b, CreditTrees[b], i, claimed)
        /\ UNCHANGED <<claims_now, NextExpectedSequence, TreeExpiries, to_game, calls, accepted,
                       missing>>

\* The leaf is spent before the contract is called.
\* Mutant: it is spent when the contract has answered.
claim_contract_unspent(b, i) ==
    /\ CanClaim(b, i) /\ Len(calls) < MaxDepth
    /\ calls' = Append(calls, [block |-> b, tree |-> CreditTrees[b], leaf |-> i,
                               before |-> minting])
    /\ UNCHANGED <<claims_now, minting, NextExpectedSequence, TreeExpiries, to_game, accepted,
                   missing>>

claim_contract(b, i) ==
    /\ CanClaim(b, i) /\ Len(calls) < MaxDepth
    /\ ClaimedLeaves' = [ClaimedLeaves EXCEPT ![b] = @ \union {i}]
    /\ calls' = Append(calls, [block |-> b, tree |-> CreditTrees[b], leaf |-> i,
                               before |-> minting])
    /\ UNCHANGED <<claims_now, CreditTrees, PendingTreeDeletions, mints, NextExpectedSequence,
                   TreeExpiries, to_game, accepted, missing>>

\* The innermost contract answers and its claim mints.
claim_minted ==
    LET call == Last(calls)
    IN  /\ ~ Idle
        /\ Minted(call.block, call.tree, call.leaf, ClaimedLeaves[call.block])
        /\ calls' = Front(calls)
        /\ UNCHANGED <<claims_now, ClaimedLeaves, NextExpectedSequence, TreeExpiries, to_game,
                       accepted, missing>>

\* The innermost contract, its item or the mint fails: all since its claim began is undone.
claim_failed ==
    /\ ~ Idle
    /\ LET before == Last(calls).before
       IN  /\ CreditTrees' = before[1]
           /\ ClaimedLeaves' = before[2]
           /\ PendingTreeDeletions' = before[3]
           /\ mints' = before[4]
    /\ calls' = Front(calls)
    /\ UNCHANGED <<claims_now, NextExpectedSequence, TreeExpiries, to_game, accepted, missing>>

-----------------------------------------------------------------------------
(* Removing *)

sweep_expired_trees(retired) ==
    LET blocks == {e[2] : e \in retired}
        expired == SetToSeq({b \in blocks : CreditTrees[b] # NoCreditTree})
    IN  /\ Idle
        /\ TreeExpiries' = TreeExpiries \ retired
        /\ ClaimedLeaves' = [b \in TreeBlock |-> IF b \in blocks THEN {} ELSE ClaimedLeaves[b]]
        /\ CreditTrees' = [b \in TreeBlock |-> IF b \in blocks THEN NoCreditTree
                                               ELSE CreditTrees[b]]
        /\ PendingTreeDeletions' = queue_tree_deletions(PendingTreeDeletions, expired)
        /\ UNCHANGED <<claims_now, mints, NextExpectedSequence, to_game, calls, accepted,
                       missing>>

\* The message is sent, or the queue stays as it is.
send_tree_deletions ==
    LET taken == Min({MaxTreeDeletionsPerMessage, Len(PendingTreeDeletions)})
    IN  /\ Idle
        /\ PendingTreeDeletions # <<>>
        /\ Len(to_game) < MaxDeletionMessages
        /\ to_game' = Append(to_game, Range(SubSeq(PendingTreeDeletions, 1, taken)))
        /\ PendingTreeDeletions' = SubSeq(PendingTreeDeletions, taken + 1,
                                          Len(PendingTreeDeletions))
        /\ UNCHANGED <<claims_now, CreditTrees, ClaimedLeaves, mints, NextExpectedSequence,
                       TreeExpiries, calls, accepted, missing>>

-----------------------------------------------------------------------------
ClaimsInit ==
    /\ claims_now = 0
    /\ CreditTrees = [b \in TreeBlock |-> NoCreditTree]
    /\ NextExpectedSequence = 0
    /\ ClaimedLeaves = [b \in TreeBlock |-> {}]
    /\ TreeExpiries = {}
    /\ PendingTreeDeletions = <<>>
    /\ to_game = <<>>
    /\ mints = [c \in Credit |-> 0]
    /\ calls = <<>>
    /\ accepted = {} /\ missing = {}

ClaimsNext ==
    \/ \E b \in TreeBlock, i \in 1 .. MaxCreditsPerTree : claim(b, i) \/ claim_contract(b, i)
    \/ claim_minted
    \/ claim_failed
    \/ send_tree_deletions

-----------------------------------------------------------------------------
(* Properties *)

\* do_try_state: spent leaves and held trees are filed for the sweep, under the time their tree
\* commits to; a fully claimed tree goes and leaves its entry to its leaves.
ClaimsFiled ==
    /\ \A b \in TreeBlock :
        /\ ClaimedLeaves[b] # {} => \E e \in TreeExpiries : e[2] = b
        /\ CreditTrees[b] # NoCreditTree => <<CreditTrees[b].timestamp, b>> \in TreeExpiries
        /\ CreditTrees[b] # NoCreditTree => ClaimedLeaves[b] \subseteq DOMAIN CreditTrees[b].root
    /\ \A e, f \in TreeExpiries : e[2] = f[2] => e = f

\* Every sequence number passed over was a tree taken or was named in a report of missing trees,
\* never both: no delivery is lost unnoticed, whatever was lost, refused or replayed.
GapsReported ==
    /\ accepted \union missing = 0 .. NextExpectedSequence - 1
    /\ accepted \intersect missing = {}
=============================================================================

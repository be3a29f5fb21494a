----------------------------- MODULE NftCredits -----------------------------
(***************************************************************************)
(* pallets/nft-credits on the game's chain: the credits a game awards, the *)
(* buffer of each block, the Merkle tree built over it when the next block *)
(* begins, the queue of trees owed to the claims chain, replays, and the   *)
(* removal of roots and awards by age or by the claims chain's word.       *)
(*                                                                         *)
(* A hash is its preimage: a root is the sequence of its leaves, a leaf    *)
(* the credit.  Chunks of a block's awards are one sequence.  A block      *)
(* takes one second.  A call that fails, or a send that finds no room in   *)
(* the channel, changes nothing and is no step.                            *)
(***************************************************************************)
EXTENDS Integers, Sequences, SequencesExt, FiniteSetsExt

CONSTANTS
    Credit,
    GameOf,                     \* credit -> index of its game
    ClaimantOf,                 \* credit -> who earned it
    AWARDS_PER_TREE,
    MAX_PENDING_CREDIT_TREES,
    MaxQueuedCreditTrees,
    MaxCreditTreesPerMessage,
    MaxCreditBlocksPerClaimant,
    ReplayCooldownSeconds,
    ClaimsChainTreeTtl,
    ROOT_TTL_GRACE,
    AwardRetentionTtl,
    MaxRootsPerSweep,           \* also MaxAwardBlocksPerSweep
    MaxReport,                  \* bound on the credits awarded by one transaction
    MaxGame,                    \* bound on the game's index
    MaxAwardBlock,              \* bound on the blocks with awards
    MaxBlock,                   \* bound on the blocks
    MaxInFlight                 \* bound on the messages in a channel

VARIABLES
    block,                      \* the current block, and its time
    GameIndex, playing,         \* the current game, and whether it may still award
    AwardedNftClaimCredits,     \* credits of the current game awarded so far
    NftClaimCreditBlocks,       \* claimant -> tree blocks
    NftClaimCreditAwards,       \* block -> awards
    CreditBuffers,              \* block -> [game, timestamp, awards], NoBuffer if none
    CreditBufferCursor,
    NftClaimCreditRoots,        \* block -> [game, root, timestamp], NoTree if none
    RootExpiries, NftClaimCreditAwardExpiries,          \* <<timestamp, block>> pairs
    CreditTreeDeliveryQueue, NextCreditTreeSequence,
    LastReplayTime,
    to_claims,                  \* batches on their way to the claims chain
    dated,                      \* history: credit -> timestamp of its tree, Never if not awarded
    dropped                     \* history: credits lost for want of a buffer

awarding == <<GameIndex, playing, AwardedNftClaimCredits, NftClaimCreditBlocks, CreditBuffers,
              CreditBufferCursor, dated, dropped>>
roots == <<NftClaimCreditRoots, RootExpiries>>
awards == <<NftClaimCreditAwards, NftClaimCreditAwardExpiries>>
delivery == <<CreditTreeDeliveryQueue, NextCreditTreeSequence, LastReplayTime, to_claims>>
creditVars == <<block, awarding, roots, awards, delivery>>

ASSUME CreditsAssumption ==
    /\ IsFiniteSet(Credit) /\ GameOf \in [Credit -> Int]
    /\ MaxBlock \in Nat /\ MAX_PENDING_CREDIT_TREES \in Nat
    /\ ClaimsChainTreeTtl \in Nat /\ ROOT_TTL_GRACE \in Nat

Block == 0 .. MaxBlock + MAX_PENDING_CREDIT_TREES
Claimant == {ClaimantOf[c] : c \in Credit}
NoBuffer == [awards |-> 0]
NoTree == [root |-> <<>>]
Never == -1
NoSequence == -1

-----------------------------------------------------------------------------
(* Awarding *)

\* The buffer of the current block or the one awarding has run ahead to; the next one where
\* that is full or of another game.
\* Mutant: a buffer is shared by two games.
credit_award_buffer_any_game(st, game) ==
    LET at == IF st.cursor > block THEN st.cursor ELSE block
        full == st.buffers[at] # NoBuffer /\ st.buffers[at].awards >= AWARDS_PER_TREE
    IN  IF full THEN at + 1 ELSE at

credit_award_buffer(st, game) ==
    LET at == IF st.cursor > block THEN st.cursor ELSE block
        taken == /\ st.buffers[at] # NoBuffer
                 /\ \/ st.buffers[at].awards >= AWARDS_PER_TREE
                    \/ st.buffers[at].game # game
    IN  IF taken THEN at + 1 ELSE at

HasBuffer(b) == b < block + MAX_PENDING_CREDIT_TREES

note_credit_block(blocks, b) ==
    IF Last(<<Never>> \o blocks) = b THEN blocks
    ELSE IF Len(blocks) < MaxCreditBlocksPerClaimant THEN Append(blocks, b)
    ELSE Append(Tail(blocks), b)

\* One award; st is the part of the state that awarding changes.
award_nft_claim_credit(st, c) ==
    LET b == credit_award_buffer(st, GameOf[c])
        old == st.buffers[b]
        timestamp == IF old = NoBuffer THEN block ELSE old.timestamp
    IN  IF c \in st.awarded THEN st
        ELSE IF ~ HasBuffer(b) THEN [st EXCEPT !.dropped = @ \union {c}]
        ELSE [st EXCEPT
                !.awards[b] = Append(@, c),
                !.buffers[b] = [game |-> GameOf[c], timestamp |-> timestamp,
                                awards |-> old.awards + 1],
                !.dated[c] = timestamp,
                !.cursor = b,
                !.awarded = @ \union {c},
                !.blocks[ClaimantOf[c]] = note_credit_block(@, b)]

Awarding ==
    [awards |-> NftClaimCreditAwards, buffers |-> CreditBuffers, cursor |-> CreditBufferCursor,
     awarded |-> AwardedNftClaimCredits, blocks |-> NftClaimCreditBlocks, dated |-> dated,
     dropped |-> dropped]

remaining_credit_capacity(game) ==
    LET b == credit_award_buffer(Awarding, game)
        opened == b - block + 1
    IN  IF ~ HasBuffer(b) THEN 0
        ELSE AWARDS_PER_TREE - CreditBuffers[b].awards
                + (MAX_PENDING_CREDIT_TREES - opened) * AWARDS_PER_TREE

\* The state before and after each of the awards, which are made in order.
AwardedInTurn(credits) ==
    LET run[n \in 0 .. Len(credits)] ==
            IF n = 0 THEN Awarding ELSE award_nft_claim_credit(run[n - 1], credits[n])
    IN  run

\* A report, or the backfill of an attendee, of the current game: all of its credits have room
\* or it waits (the backfill until its worst case has).  The two may name the same credit.
award_credits(credits) ==
    LET st == AwardedInTurn(credits)[Len(credits)]
    IN  /\ playing /\ block <= MaxAwardBlock
        /\ Len(credits) \in 1 .. MaxReport
        /\ \A n \in 1 .. Len(credits) : GameOf[credits[n]] = GameIndex
        /\ remaining_credit_capacity(GameIndex) >= Len(credits)
        /\ NftClaimCreditAwards' = st.awards
        /\ CreditBuffers' = st.buffers
        /\ CreditBufferCursor' = st.cursor
        /\ AwardedNftClaimCredits' = st.awarded
        /\ NftClaimCreditBlocks' = st.blocks
        /\ dropped' = st.dropped
        /\ dated' = st.dated
        /\ UNCHANGED <<block, GameIndex, playing, roots, NftClaimCreditAwardExpiries, delivery>>

\* The game is over or cancelled: no award names it again.
end_game ==
    /\ playing /\ GameIndex < MaxGame
    /\ playing' = FALSE
    /\ UNCHANGED <<block, GameIndex, AwardedNftClaimCredits, NftClaimCreditBlocks, CreditBuffers,
                   CreditBufferCursor, dated, dropped, roots, awards, delivery>>

\* clear_game_credits and forget_player_credits, a claimant's mask at a time, until none is
\* left and the next game begins.
clear_game_credits(claimant) ==
    LET left == {c \in AwardedNftClaimCredits : ClaimantOf[c] # claimant}
    IN  /\ ~ playing
        /\ AwardedNftClaimCredits # {} => left # AwardedNftClaimCredits
        /\ AwardedNftClaimCredits' = left
        /\ playing' = (left = {})
        /\ GameIndex' = GameIndex + (IF left = {} THEN 1 ELSE 0)
        /\ UNCHANGED <<block, NftClaimCreditBlocks, CreditBuffers, CreditBufferCursor, dated,
                       dropped, roots, awards, delivery>>

-----------------------------------------------------------------------------
(* Committing *)

queue_credit_tree_delivery(b) ==
    IF Len(CreditTreeDeliveryQueue) < MaxQueuedCreditTrees
    THEN /\ CreditTreeDeliveryQueue' =
                Append(CreditTreeDeliveryQueue, [sequence |-> NextCreditTreeSequence, block |-> b])
         /\ NextCreditTreeSequence' = NextCreditTreeSequence + 1
    ELSE UNCHANGED <<CreditTreeDeliveryQueue, NextCreditTreeSequence>>

\* The next block begins: the tree over the buffer of the block that ended.
build_credit_tree(b) ==
    LET buffer == CreditBuffers[b]
    IN  /\ CreditBuffers' = [CreditBuffers EXCEPT ![b] = NoBuffer]
        /\ NftClaimCreditRoots' = [NftClaimCreditRoots EXCEPT ![b] =
                [game |-> buffer.game, root |-> NftClaimCreditAwards[b],
                 timestamp |-> buffer.timestamp]]
        /\ RootExpiries' = RootExpiries \union {<<buffer.timestamp, b>>}
        /\ NftClaimCreditAwardExpiries' =
                NftClaimCreditAwardExpiries \union {<<buffer.timestamp, b>>}
        /\ queue_credit_tree_delivery(b)

on_initialize ==
    /\ block < MaxBlock
    /\ block' = block + 1
    /\ IF CreditBuffers[block] = NoBuffer
       THEN UNCHANGED <<CreditBuffers, roots, NftClaimCreditAwardExpiries,
                        CreditTreeDeliveryQueue, NextCreditTreeSequence>>
       ELSE build_credit_tree(block)
    /\ UNCHANGED <<GameIndex, playing, AwardedNftClaimCredits, NftClaimCreditBlocks,
                   CreditBufferCursor, dated, dropped, NftClaimCreditAwards, LastReplayTime,
                   to_claims>>

-----------------------------------------------------------------------------
(* Delivering *)

\* A batch is a set: its updates are of blocks whose trees never change, so that the claims
\* chain does not tell their order.
resolve_credit_trees(entries) ==
    {[sequence |-> e.sequence, block |-> e.block, tree |-> NftClaimCreditRoots[e.block]] :
        e \in {e \in entries : NftClaimCreditRoots[e.block] # NoTree}}

\* The channel takes capacity trees in a message.  An empty batch is not sent, and its entries
\* leave the queue all the same.
send_credit_trees(capacity) ==
    LET taken == Min({capacity, Len(CreditTreeDeliveryQueue)})
        updates == resolve_credit_trees({CreditTreeDeliveryQueue[i] : i \in 1 .. taken})
    IN  /\ CreditTreeDeliveryQueue # <<>>
        /\ Len(to_claims) < MaxInFlight
        /\ to_claims' = IF updates = {} THEN to_claims ELSE Append(to_claims, updates)
        /\ CreditTreeDeliveryQueue' = SubSeq(CreditTreeDeliveryQueue, taken + 1,
                                             Len(CreditTreeDeliveryQueue))
        /\ UNCHANGED <<block, awarding, roots, awards, NextCreditTreeSequence, LastReplayTime>>

replay_credit_trees(blocks) ==
    LET updates == resolve_credit_trees({[sequence |-> NoSequence, block |-> b] : b \in blocks})
    IN  /\ Len(to_claims) < MaxInFlight
        /\ blocks # {} /\ Cardinality(blocks) <= MaxCreditTreesPerMessage
        /\ updates # {}
        /\ LastReplayTime # Never => block - LastReplayTime >= ReplayCooldownSeconds
        /\ to_claims' = Append(to_claims, updates)
        /\ LastReplayTime' = block
        /\ UNCHANGED <<block, awarding, roots, awards, CreditTreeDeliveryQueue,
                       NextCreditTreeSequence>>

-----------------------------------------------------------------------------
(* Removing *)

\* Entries past their deadline, oldest first, as many as a sweep takes.
drain_due_expiries(expiries, ttl, now, limit, due) ==
    LET all == {e \in expiries : now >= e[1] + ttl}
    IN  /\ due # {} /\ due \subseteq all
        /\ Cardinality(due) = Min({limit, Cardinality(all)})
        /\ \A e \in due, f \in all \ due : e[1] <= f[1]

root_ttl == ClaimsChainTreeTtl + ROOT_TTL_GRACE

WithoutRoots(blocks) ==
    [b \in Block |-> IF b \in blocks THEN NoTree ELSE NftClaimCreditRoots[b]]

receive_tree_deletions(blocks) ==
    /\ NftClaimCreditRoots' = WithoutRoots(blocks)
    /\ RootExpiries' = {e \in RootExpiries : e[2] \notin blocks}
    /\ UNCHANGED <<block, awarding, awards, delivery>>

sweep_expired_roots(due) ==
    /\ drain_due_expiries(RootExpiries, root_ttl, block, MaxRootsPerSweep, due)
    /\ RootExpiries' = RootExpiries \ due
    /\ NftClaimCreditRoots' = WithoutRoots({e[2] : e \in due})
    /\ UNCHANGED <<block, awarding, awards, delivery>>

sweep_expired_awards(due) ==
    /\ drain_due_expiries(NftClaimCreditAwardExpiries, AwardRetentionTtl, block,
                          MaxRootsPerSweep, due)
    /\ NftClaimCreditAwardExpiries' = NftClaimCreditAwardExpiries \ due
    /\ NftClaimCreditAwards' = [b \in Block |-> IF \E e \in due : e[2] = b THEN <<>>
                                                ELSE NftClaimCreditAwards[b]]
    /\ UNCHANGED <<block, awarding, roots, delivery>>

-----------------------------------------------------------------------------
CreditsInit ==
    /\ block = 0
    /\ GameIndex = 0 /\ playing = TRUE
    /\ AwardedNftClaimCredits = {}
    /\ NftClaimCreditBlocks = [p \in Claimant |-> <<>>]
    /\ NftClaimCreditAwards = [b \in Block |-> <<>>]
    /\ CreditBuffers = [b \in Block |-> NoBuffer]
    /\ CreditBufferCursor = 0
    /\ NftClaimCreditRoots = [b \in Block |-> NoTree]
    /\ RootExpiries = {} /\ NftClaimCreditAwardExpiries = {}
    /\ CreditTreeDeliveryQueue = <<>> /\ NextCreditTreeSequence = 0
    /\ LastReplayTime = Never
    /\ to_claims = <<>>
    /\ dated = [c \in Credit |-> Never] /\ dropped = {}

CreditsNext ==
    \/ \E credits \in SetToAllKPermutations(Credit) : award_credits(credits)
    \/ end_game
    \/ \E p \in Claimant : clear_game_credits(p)
    \/ on_initialize
    \/ \E capacity \in 1 .. MaxCreditTreesPerMessage : send_credit_trees(capacity)
    \/ \E blocks \in SUBSET (0 .. MaxBlock) : replay_credit_trees(blocks)
    \/ \E due \in SUBSET RootExpiries : sweep_expired_roots(due)
    \/ \E due \in SUBSET NftClaimCreditAwardExpiries : sweep_expired_awards(due)

-----------------------------------------------------------------------------
(* Properties *)

\* Every credit a game awards is in one place of one block's awards, or was: the capacity asked
\* for beforehand is what awarding finds, so none is dropped, also when reports, the backfill
\* and a change of game share the buffers; and a tree holds credits of its own game.
CreditsCommitted ==
    /\ dropped = {}
    /\ \A b \in Block :
        LET buffer == CreditBuffers[b]
            tree == NftClaimCreditRoots[b]
        IN  /\ buffer # NoBuffer =>
                /\ b \in block .. block + MAX_PENDING_CREDIT_TREES - 1
                /\ Len(NftClaimCreditAwards[b]) = buffer.awards
                /\ buffer.awards \in 1 .. AWARDS_PER_TREE
                /\ \A i \in 1 .. buffer.awards : GameOf[NftClaimCreditAwards[b][i]] = buffer.game
            /\ tree # NoTree => \A i \in DOMAIN tree.root : GameOf[tree.root[i]] = tree.game
    /\ \A b, d \in Block : \A i \in DOMAIN NftClaimCreditAwards[b] :
        \A j \in DOMAIN NftClaimCreditAwards[d] :
            NftClaimCreditAwards[b][i] = NftClaimCreditAwards[d][j] => b = d /\ i = j

\* Until its retention runs out a root's proofs can be built from the awards in storage, and
\* every root is filed where the sweep finds it, once.
ProofsServed ==
    /\ RootExpiries = {<<NftClaimCreditRoots[b].timestamp, b>> :
                        b \in {b \in Block : NftClaimCreditRoots[b] # NoTree}}
    /\ \A b \in Block :
        /\ NftClaimCreditRoots[b] # NoTree
        /\ block < NftClaimCreditRoots[b].timestamp + AwardRetentionTtl
        => NftClaimCreditAwards[b] = NftClaimCreditRoots[b].root

\* A claimant's list names the newest tree blocks they have a credit in, in order: awarding never
\* goes back to an earlier block.
BlocksIndexed ==
    \A p \in Claimant :
        LET blocks == NftClaimCreditBlocks[p]
            held == {b \in Block : \E i \in DOMAIN NftClaimCreditAwards[b] :
                                        ClaimantOf[NftClaimCreditAwards[b][i]] = p}
        IN  /\ \A i, j \in DOMAIN blocks : i < j => blocks[i] < blocks[j]
            /\ \A b \in held \ Range(blocks) :
                    Len(blocks) = MaxCreditBlocksPerClaimant /\ b < blocks[1]
=============================================================================

----------------------------- MODULE NftProofs -----------------------------
(* What nft-credits and nft-claims keep right together, for every number of   *)
(* credits, games and blocks, every size of a tree, every retention and every *)
(* depth of claims within claims, and whatever the channels lose.             *)
EXTENDS NftDelivery, NaturalsInduction, WellFoundedInduction, FiniteSetTheorems, TLAPS

-----------------------------------------------------------------------------
(* The inductive invariant.  W is the work of all time: for each block the tree that was built *)
(* over its awards, or that will be over those in its buffer.  The state keeps copies of it    *)
(* and forgets them; the invariant says that there is a W they all agree with.                 *)

Tree == [game : Int, root : Seq(Credit), timestamp : Nat]
Buffer == [game : Int, timestamp : Nat, awards : Int]
Leaves(t) == DOMAIN t.root
Expired(t) == claims_now >= t.timestamp + TreeTtl

AwardingFields(st) ==
    st = [awards |-> st.awards, buffers |-> st.buffers, cursor |-> st.cursor,
          awarded |-> st.awarded, blocks |-> st.blocks, dated |-> st.dated,
          dropped |-> st.dropped]

AwardingTypes(st) ==
    /\ AwardingFields(st)
    /\ st.awards \in [Block -> Seq(Credit)]
    /\ st.buffers \in [Block -> Buffer \union {NoBuffer}]
    /\ st.cursor \in Int
    /\ st.dated \in [Credit -> Nat \union {Never}]

\* A buffer is the tree that will be built over it.
Buffered(W, st) ==
    \A b \in Block : b >= block =>
        IF st.buffers[b] = NoBuffer
        THEN st.awards[b] = <<>> /\ W[b] = NoTree
        ELSE W[b] = [game |-> st.buffers[b].game, root |-> st.awards[b],
                     timestamp |-> st.buffers[b].timestamp]

\* A credit that was awarded is one leaf of one tree, which has its time.
OneLeaf(W, d) ==
    /\ \A b \in Block : \A i \in Leaves(W[b]) : d[W[b].root[i]] = W[b].timestamp
    /\ \A c \in Credit : d[c] # Never => \E b \in Block : \E i \in Leaves(W[b]) : W[b].root[i] = c
    /\ \A b, e \in Block : \A i \in Leaves(W[b]), j \in Leaves(W[e]) :
            W[b].root[i] = W[e].root[j] => b = e /\ i = j

\* What was awarded is marked as long as its game can award it again.
Marked(st) ==
    /\ GameIndex \in Int
    /\ \A c \in Credit : st.dated[c] # Never =>
            GameOf[c] <= GameIndex /\ (GameOf[c] = GameIndex /\ playing => c \in st.awarded)

Awarded(W, st) ==
    W \in [Block -> Tree \union {NoTree}] /\ AwardingTypes(st) /\ Buffered(W, st)
    /\ OneLeaf(W, st.dated) /\ Marked(st)

\* The mints that no failure of a claim under way takes back.
Committed == IF calls = <<>> THEN mints ELSE calls[1].before[4]

\* The root of a tree is forgotten when no claim on it is open.
Closed(t) == Expired(t) \/ \A i \in Leaves(t) : Committed[t.root[i]] = 1

RootsAgree(W) ==
    /\ NftClaimCreditRoots \in [Block -> Tree \union {NoTree}]
    /\ \A b \in Block :
        /\ NftClaimCreditRoots[b] # NoTree => b < block /\ NftClaimCreditRoots[b] = W[b]
        /\ b < block => NftClaimCreditRoots[b] = W[b] \/ Closed(W[b])
    /\ \A e \in RootExpiries : e[2] \in Block /\ e[2] < block /\ e[1] = W[e[2]].timestamp
    /\ \A e \in NftClaimCreditAwardExpiries : e[2] \in Block /\ e[2] < block

Entry == [sequence : Nat, block : Block]
Update == [sequence : Int, block : Block, tree : Tree]

SentAgree(W) ==
    /\ NextCreditTreeSequence \in Nat
    /\ CreditTreeDeliveryQueue \in Seq(Entry)
    /\ \A n \in DOMAIN CreditTreeDeliveryQueue :
            CreditTreeDeliveryQueue[n].sequence < NextCreditTreeSequence
    /\ to_claims \in Seq(SUBSET Update)
    /\ \A n \in DOMAIN to_claims : \A u \in to_claims[n] :
            /\ u.block < block /\ u.tree = W[u.block]
            /\ u.sequence \in -1 .. NextCreditTreeSequence - 1

GapsInv == NextExpectedSequence \in Nat /\ GapsReported

-----------------------------------------------------------------------------
(* The claims chain: the state now, and those a claim under way returns to if it fails *)

\* Leaf i of block b is claimed by one of the first n calls.
Calling(n, b, i) == \E k \in 1 .. n : calls[k].block = b /\ calls[k].leaf = i

StateTypes(trees, claimed, deletions, minted) ==
    /\ trees \in [Block -> Tree \union {NoTree}]
    /\ claimed \in [Block -> SUBSET Int]
    /\ deletions \in Seq(Block)
    /\ minted \in [Credit -> 0 .. 1]

\* Trees and spent leaves are those of W, and are filed for the sweep.
Copies(W, trees, claimed) ==
    \A b \in Block :
        /\ trees[b] # NoTree => trees[b] = W[b]
        /\ trees[b] # NoTree \/ claimed[b] # {} =>
                b < block /\ W[b] # NoTree /\ <<W[b].timestamp, b>> \in TreeExpiries
        /\ claimed[b] \subseteq Leaves(W[b])

\* What was minted is spent as long as its tree is here or can come back.
Spent(W, trees, claimed, minted) ==
    \A b \in Block : \A i \in Leaves(W[b]) :
        minted[W[b].root[i]] = 1 =>
            b < block /\ (i \in claimed[b] \/ (Expired(W[b]) /\ trees[b] = NoTree))

\* Only the leaf of an earned credit is minted.
EarnedOnly(minted) ==
    \A c \in Credit : minted[c] = 1 => dated[c] # Never

\* What is spent is minted, or its claim is under way.
Answered(W, n, claimed, minted) ==
    /\ \A b \in Block : \A i \in claimed[b] : minted[W[b].root[i]] = 1 \/ Calling(n, b, i)
    /\ \A k \in 1 .. n :
        /\ calls[k].leaf \in claimed[calls[k].block]
        /\ minted[calls[k].tree.root[calls[k].leaf]] = 0

\* A tree is reported when all of its leaves are claimed, or when it has expired.
Reported(W, n, deletions, minted) ==
    \A k \in DOMAIN deletions :
        LET t == W[deletions[k]]
        IN  /\ deletions[k] < block
            /\ \/ Expired(t)
               \/ \A i \in Leaves(t) : minted[t.root[i]] = 1 \/ Calling(n, deletions[k], i)

State(W, n, trees, claimed, deletions, minted) ==
    /\ StateTypes(trees, claimed, deletions, minted)
    /\ Copies(W, trees, claimed)
    /\ Spent(W, trees, claimed, minted)
    /\ EarnedOnly(minted)
    /\ Answered(W, n, claimed, minted)
    /\ Reported(W, n, deletions, minted)

Before(W, k) ==
    LET before == calls[k].before
    IN  State(W, k - 1, before[1], before[2], before[3], before[4])

CallsInv(W) ==
    /\ \E X : calls \in Seq(X)
    /\ \A k \in DOMAIN calls :
        /\ calls[k].block \in Block
        /\ calls[k].tree = W[calls[k].block]
        /\ calls[k].leaf \in Leaves(calls[k].tree)
        /\ Before(W, k)
        /\ \A c \in Credit : calls[1].before[4][c] <= calls[k].before[4][c]
        /\ \A c \in Credit : calls[1].before[4][c] <= mints[c]
    /\ \A j, k \in DOMAIN calls :
            calls[j].block = calls[k].block /\ calls[j].leaf = calls[k].leaf => j = k

ClaimsAgree(W) ==
    /\ CallsInv(W)
    /\ State(W, Len(calls), CreditTrees, ClaimedLeaves, PendingTreeDeletions, mints)

Filed(W) ==
    \A e \in TreeExpiries :
        /\ e[2] \in Block /\ e[2] < block /\ W[e[2]] # NoTree
        /\ e = <<W[e[2]].timestamp, e[2]>>

DeletionsAgree(W) ==
    /\ \E X : to_game \in Seq(X)
    /\ \A n \in DOMAIN to_game : \A b \in to_game[n] \intersect Block :
            b < block /\ Closed(W[b])

Clocks == block \in 0 .. MaxBlock /\ claims_now \in Nat /\ block <= claims_now + MaxSkew

WInv(W) ==
    /\ Awarded(W, Awarding)
    /\ RootsAgree(W) /\ SentAgree(W) /\ ClaimsAgree(W) /\ Filed(W) /\ DeletionsAgree(W)

Inv == Clocks /\ GapsInv /\ \E W : WInv(W)
-----------------------------------------------------------------------------
(* General facts *)

\* Induction up to n, of a set.
LEMMA Counting ==
    ASSUME NEW n \in Nat, NEW S, 0 \in S, \A i \in Nat : i < n /\ i \in S => i + 1 \in S
    PROVE  \A i \in 0 .. n : i \in S
  <1> DEFINE R == {i \in 0 .. n : i \notin S}
  <1> SUFFICES ASSUME R # {} PROVE FALSE
    OBVIOUS
  <1>1. R \subseteq Nat
    OBVIOUS
  <1>2. PICK x \in R : \A y \in R : ~ (<<y, x>> \in OpToRel(<, Nat))
    <2> HIDE DEF R
    <2> QED
      BY <1>1, NatLessThanWellFounded, WFMin
  <1>3. \A y \in R : ~ (y < x)
    BY <1>1, <1>2 DEF OpToRel
  <1>4. x # 0 /\ x - 1 \in Nat
    OBVIOUS
  <1>5. x - 1 \in S
    BY <1>3, <1>4
  <1> QED
    BY <1>4, <1>5

\* A set of numbers below a bound that is not empty has a last one.
LEMMA LastOne ==
    ASSUME NEW n \in Nat, NEW S \in SUBSET (0 .. n), S # {}
    PROVE  Max(S) \in S /\ \A s \in S : s <= Max(S)
  <1> DEFINE T == {k \in Nat : \E s \in S : k = n - s}
  <1>1. T \subseteq Nat
    OBVIOUS
  <1>2. \A y \in S : n - y \in T
    OBVIOUS
  <1>3. T # {}
    BY <1>2
  <1>4. PICK x \in T : \A y \in T : ~ (<<y, x>> \in OpToRel(<, Nat))
    <2> HIDE DEF T
    <2> QED
      BY <1>1, <1>3, NatLessThanWellFounded, WFMin
  <1>5. \A y \in T : ~ (y < x)
    BY <1>1, <1>4 DEF OpToRel
  <1>6. PICK s \in S : x = n - s
    OBVIOUS
  <1>7. \A y \in S : s >= y
    BY <1>2, <1>5, <1>6
  <1>8. \E z \in S : \A y \in S : z >= y
    BY <1>7
  <1>9. Max(S) \in S /\ \A y \in S : Max(S) >= y
    BY <1>8, Zenon DEF Max
  <1> QED
    BY <1>9

\* The library takes the least of two numbers.
LEMMA LeastOfTwo ==
    ASSUME NEW i \in Int, NEW j \in Int
    PROVE  Min({i, j}) = IF i <= j THEN i ELSE j
  <1> DEFINE S == {i, j}
             m == IF i <= j THEN i ELSE j
  <1>1. m \in S /\ \A y \in S : m <= y
    OBVIOUS
  <1>2. \A x \in S : (\A y \in S : x <= y) => x = m
    BY <1>1
  <1>3. Min(S) = CHOOSE x \in S : \A y \in S : x <= y
    BY DEF Min
  <1> QED
    BY <1>1, <1>2, <1>3

\* The library's operators are the same to both pallets.
LEMMA SameOperators ==
    /\ \A S : C!Cardinality(S) = Cardinality(S)
    /\ \A S : C!SetToSeq(S) = SetToSeq(S)
    /\ \A S : C!Max(S) = Max(S) /\ C!Min(S) = Min(S)
    /\ \A f : C!Range(f) = Range(f)
    /\ \A s : C!Last(s) = Last(s) /\ C!Front(s) = Front(s)
  <1>1. \A S : C!Cardinality(S) = Cardinality(S)
    BY Zenon DEF C!Cardinality, Cardinality
  <1>2. \A S : C!SetToSeq(S) = SetToSeq(S)
    BY Zenon DEF C!SetToSeq, SetToSeq, C!IsInjective, IsInjective, C!Cardinality, Cardinality
  <1>3. \A S : C!Max(S) = Max(S) /\ C!Min(S) = Min(S)
    BY Zenon DEF C!Max, Max, C!Min, Min
  <1>4. \A f : C!Range(f) = Range(f)
    BY Zenon DEF C!Range, Range
  <1>5. \A s : C!Last(s) = Last(s) /\ C!Front(s) = Front(s)
    BY Zenon DEF C!Last, Last, C!Front, Front
  <1> QED
    BY <1>1, <1>2, <1>3, <1>4, <1>5

\* Trees and buffers are told from the values that stand for none.
LEMMA TreeFacts ==
    /\ NoTree \notin Tree /\ Leaves(NoTree) = {} /\ C!NoCreditTree = NoTree
    /\ NoBuffer \notin Buffer /\ NoBuffer.awards = 0
    /\ \A t \in Tree : Leaves(t) = 1 .. Len(t.root) /\ Len(t.root) \in Nat
    /\ \A t \in Tree : \A i \in Leaves(t) : t.root[i] \in Credit
  <1>1. NoTree.root = <<>> /\ NoBuffer.awards = 0 /\ C!NoCreditTree = NoTree
    BY DEF NoTree, NoBuffer, C!NoCreditTree
  <1>2. NoTree \notin Tree
    BY DEF NoTree, Tree
  <1>3. NoBuffer \notin Buffer
    BY DEF NoBuffer, Buffer
  <1>4. \A t \in Tree : t.root \in Seq(Credit)
    BY DEF Tree
  <1> QED
    BY <1>1, <1>2, <1>3, <1>4 DEF Leaves

\* Blocks are numbers, and those ahead of the current one have buffers.
LEMMA BlockFacts ==
    /\ Block \subseteq Nat
    /\ \A b \in Int : b >= 0 /\ b <= MaxBlock + MAX_PENDING_CREDIT_TREES => b \in Block
  BY CreditsAssumption DEF Block

-----------------------------------------------------------------------------
(* Awarding *)

\* What one award does, field by field.
LEMMA AwardFields ==
    ASSUME Clocks, NEW st, AwardingTypes(st), NEW c \in Credit, c \notin st.awarded,
           NEW b, b = credit_award_buffer(st, GameOf[c]), HasBuffer(b),
           NEW new, new = award_nft_claim_credit(st, c),
           NEW ts, ts = IF st.buffers[b] = NoBuffer THEN block ELSE st.buffers[b].timestamp
    PROVE  /\ b \in Block /\ b >= block
           /\ AwardingFields(new)
           /\ new.awards = [st.awards EXCEPT ![b] = Append(@, c)]
           /\ new.buffers = [st.buffers EXCEPT ![b] =
                    [game |-> GameOf[c], timestamp |-> ts, awards |-> st.buffers[b].awards + 1]]
           /\ new.dated = [st.dated EXCEPT ![c] = ts]
           /\ new.cursor = b
           /\ new.awarded = st.awarded \union {c}
  <1> DEFINE at == IF st.cursor > block THEN st.cursor ELSE block
  <1>1. b \in {at, at + 1}
    BY DEF credit_award_buffer
  <1>2. at \in Int /\ at >= block /\ block \in 0 .. MaxBlock
    BY DEF AwardingTypes, Clocks
  <1>3. b \in Int /\ b >= block /\ b < block + MAX_PENDING_CREDIT_TREES
    BY <1>1, <1>2 DEF HasBuffer
  <1>4. b \in Block /\ b >= block
    BY <1>2, <1>3, BlockFacts, CreditsAssumption
  <1>5. new = [st EXCEPT
                !.awards[b] = Append(@, c),
                !.buffers[b] = [game |-> GameOf[c], timestamp |-> ts,
                                awards |-> st.buffers[b].awards + 1],
                !.dated[c] = ts,
                !.cursor = b,
                !.awarded = @ \union {c},
                !.blocks[ClaimantOf[c]] = note_credit_block(@, b)]
    BY Zenon DEF award_nft_claim_credit
  <1>6. AwardingFields(st)
    BY DEF AwardingTypes
  <1>7. DOMAIN st = {"awards", "buffers", "cursor", "awarded", "blocks", "dated", "dropped"}
    BY <1>6 DEF AwardingFields
  <1>8. /\ new.awards = [st.awards EXCEPT ![b] = Append(@, c)]
        /\ new.buffers = [st.buffers EXCEPT ![b] =
                [game |-> GameOf[c], timestamp |-> ts, awards |-> st.buffers[b].awards + 1]]
    BY <1>5, <1>7
  <1>9. new.dated = [st.dated EXCEPT ![c] = ts] /\ new.cursor = b
    BY <1>5, <1>7
  <1>10. new.awarded = st.awarded \union {c}
    BY <1>5, <1>7
  <1>11. AwardingFields(new)
    BY <1>5, <1>7 DEF AwardingFields
  <1> QED
    BY <1>4, <1>8, <1>9, <1>10, <1>11

\* Of the trees only that of the block awarded in changes, which gets one more leaf.
LEMMA AwardOne ==
    ASSUME Clocks, playing, NEW W, NEW st, Awarded(W, st),
           NEW c \in Credit, GameOf[c] = GameIndex
    PROVE  \E V : /\ Awarded(V, award_nft_claim_credit(st, c))
                  /\ \A b \in Block : b < block => V[b] = W[b]
                  /\ \A d \in Credit : st.dated[d] # Never =>
                        award_nft_claim_credit(st, c).dated[d] # Never
  <1> DEFINE new == award_nft_claim_credit(st, c)
             b == credit_award_buffer(st, GameOf[c])
             old == st.buffers[b]
             ts == IF old = NoBuffer THEN block ELSE old.timestamp
  <1>0. AwardingTypes(st) /\ Buffered(W, st) /\ OneLeaf(W, st.dated) /\ Marked(st)
        /\ W \in [Block -> Tree \union {NoTree}]
    BY DEF Awarded
  <1>a. AwardingFields(st)
    BY <1>0 DEF AwardingTypes
  <1>1. CASE c \in st.awarded
    <2>1. new = st
      BY <1>1, Zenon DEF award_nft_claim_credit
    <2> QED
      BY <2>1, Zenon
  <1>2. CASE c \notin st.awarded /\ ~ HasBuffer(b)
    <2>1. new = [st EXCEPT !.dropped = @ \union {c}]
      BY <1>2, Zenon DEF award_nft_claim_credit
    <2>2. /\ new.awards = st.awards /\ new.buffers = st.buffers /\ new.cursor = st.cursor
          /\ new.awarded = st.awarded /\ new.dated = st.dated /\ AwardingFields(new)
      BY <2>1, <1>a DEF AwardingFields
    <2> HIDE DEF new
    <2>3. AwardingTypes(new) /\ Buffered(W, new) /\ Marked(new)
      BY <1>0, <2>2 DEF AwardingTypes, Buffered, Marked
    <2>4. Awarded(W, new)
      BY <1>0, <2>2, <2>3 DEF Awarded
    <2> QED
      BY <2>2, <2>4 DEF new
  <1>3. CASE c \notin st.awarded /\ HasBuffer(b)
    <2>1. /\ b \in Block /\ b >= block
          /\ AwardingFields(new)
          /\ new.awards = [st.awards EXCEPT ![b] = Append(@, c)]
          /\ new.buffers = [st.buffers EXCEPT ![b] =
                [game |-> GameOf[c], timestamp |-> ts, awards |-> old.awards + 1]]
          /\ new.dated = [st.dated EXCEPT ![c] = ts]
          /\ new.cursor = b
          /\ new.awarded = st.awarded \union {c}
      BY <1>0, <1>3, AwardFields
    <2>2. /\ old \in Buffer \union {NoBuffer} /\ st.awards[b] \in Seq(Credit)
          /\ st.dated \in [Credit -> Nat \union {Never}]
      BY <1>0, <2>1 DEF AwardingTypes
    <2>3. ts \in Nat /\ old.awards + 1 \in Int /\ GameOf[c] \in Int
      BY <2>2, TreeFacts, CreditsAssumption DEF Buffer, Clocks
    <2> DEFINE t == [game |-> GameOf[c], root |-> Append(st.awards[b], c), timestamp |-> ts]
               V == [W EXCEPT ![b] = t]
    <2>4. st.dated[c] = Never
      BY <1>0, <1>3 DEF Marked
    <2>5. t \in Tree
      BY <2>2, <2>3 DEF Tree
    <2>6. W[b].root = st.awards[b] /\ (Leaves(W[b]) # {} => W[b].timestamp = ts)
      <3>1. CASE old = NoBuffer
        BY <1>0, <2>1, <3>1, TreeFacts DEF Buffered, NoTree
      <3>2. CASE old # NoBuffer
        BY <1>0, <2>1, <3>2 DEF Buffered
      <3> QED
        BY <3>1, <3>2
    <2>7. \A d \in Block : d # b => V[d] = W[d]
      BY <1>0
    <2>8. V[b] = t /\ V \in [Block -> Tree \union {NoTree}]
      BY <1>0, <2>1, <2>5
    <2>9. AwardingTypes(new)
      <3>1. new.awards \in [Block -> Seq(Credit)]
        BY <1>0, <2>1, <2>2 DEF AwardingTypes
      <3>2. [game |-> GameOf[c], timestamp |-> ts, awards |-> old.awards + 1] \in Buffer
        BY <2>3 DEF Buffer
      <3>3. new.buffers \in [Block -> Buffer \union {NoBuffer}]
        BY <1>0, <2>1, <3>2 DEF AwardingTypes
      <3>4. new.dated \in [Credit -> Nat \union {Never}] /\ new.cursor \in Int
        <4> HIDE DEF ts, new, old, b
        <4> QED
          BY <2>1, <2>2, <2>3, BlockFacts
      <3> QED
        BY <2>1, <3>1, <3>3, <3>4 DEF AwardingTypes
    <2>10. Buffered(V, new)
      <3> SUFFICES ASSUME NEW d \in Block, d >= block
                   PROVE  IF new.buffers[d] = NoBuffer
                          THEN new.awards[d] = <<>> /\ V[d] = NoTree
                          ELSE V[d] = [game |-> new.buffers[d].game, root |-> new.awards[d],
                                       timestamp |-> new.buffers[d].timestamp]
        BY DEF Buffered
      <3>1. CASE d # b
        <4>1. new.buffers[d] = st.buffers[d] /\ new.awards[d] = st.awards[d] /\ V[d] = W[d]
          BY <1>0, <2>1, <2>7, <3>1 DEF AwardingTypes
        <4> QED
          BY <1>0, <4>1 DEF Buffered
      <3>2. CASE d = b
        <4>1. new.buffers[b] = [game |-> GameOf[c], timestamp |-> ts, awards |-> old.awards + 1]
          BY <1>0, <2>1 DEF AwardingTypes
        <4>2. new.awards[b] = Append(st.awards[b], c)
          BY <1>0, <2>1 DEF AwardingTypes
        <4>3. new.buffers[b] # NoBuffer
          BY <4>1, <2>3, TreeFacts DEF Buffer
        <4> QED
          BY <2>8, <3>2, <4>1, <4>2, <4>3
      <3> QED
        BY <3>1, <3>2
    <2>11. \A d \in Credit : new.dated[d] = IF d = c THEN ts ELSE st.dated[d]
      BY <2>1, <2>2
    <2>12. Marked(new)
      BY <1>0, <2>1, <2>11, CreditsAssumption DEF Marked
    <2>13. OneLeaf(V, new.dated)
      <3>1. /\ Leaves(t) = 1 .. Len(st.awards[b]) + 1
            /\ Leaves(W[b]) = 1 .. Len(st.awards[b]) /\ Len(st.awards[b]) \in Nat
        BY <2>2, <2>6 DEF Leaves
      <3>2. \A i \in Leaves(W[b]) : t.root[i] = W[b].root[i]
        BY <2>2, <2>6, <3>1
      <3>3. t.root[Len(st.awards[b]) + 1] = c
        BY <2>2
      <3>4. \A d \in Block : \A i \in Leaves(W[d]) :
                W[d].root[i] \in Credit /\ W[d].root[i] # c /\ W[d].timestamp \in Nat
        <4> SUFFICES ASSUME NEW d \in Block, NEW i \in Leaves(W[d])
                     PROVE  W[d].root[i] \in Credit /\ W[d].root[i] # c /\ W[d].timestamp \in Nat
          OBVIOUS
        <4>1. W[d] \in Tree
          BY <1>0, TreeFacts
        <4>2. W[d].root[i] \in Credit /\ W[d].timestamp \in Nat
          BY <4>1, TreeFacts DEF Tree
        <4>3. st.dated[W[d].root[i]] = W[d].timestamp
          BY <1>0 DEF OneLeaf
        <4> QED
          BY <2>4, <4>2, <4>3 DEF Never
      <3> HIDE DEF t
      \* A leaf of V is one of W, or the new one.
      <3>5. \A d \in Block : \A i \in Leaves(V[d]) :
                \/ i \in Leaves(W[d]) /\ V[d].root[i] = W[d].root[i]
                   /\ V[d].timestamp = W[d].timestamp
                \/ d = b /\ i = Len(st.awards[b]) + 1 /\ V[d].root[i] = c /\ V[d].timestamp = ts
        <4> SUFFICES ASSUME NEW d \in Block, NEW i \in Leaves(V[d])
                     PROVE  \/ i \in Leaves(W[d]) /\ V[d].root[i] = W[d].root[i]
                               /\ V[d].timestamp = W[d].timestamp
                            \/ d = b /\ i = Len(st.awards[b]) + 1 /\ V[d].root[i] = c
                               /\ V[d].timestamp = ts
          OBVIOUS
        <4>1. CASE d # b
          BY <2>7, <4>1
        <4>2. CASE d = b /\ i \in Leaves(W[b])
          <5>1. W[b].timestamp = ts /\ t.timestamp = ts
            BY <2>6, <4>2 DEF t
          <5> QED
            BY <2>8, <3>2, <4>2, <5>1
        <4>3. CASE d = b /\ i \notin Leaves(W[b])
          <5>1. i = Len(st.awards[b]) + 1 /\ t.timestamp = ts
            BY <2>8, <3>1, <4>3 DEF t
          <5> QED
            BY <2>8, <3>3, <4>3, <5>1
        <4> QED
          BY <4>1, <4>2, <4>3
      <3>6. \A d \in Block : \A i \in Leaves(W[d]) :
                i \in Leaves(V[d]) /\ V[d].root[i] = W[d].root[i]
        BY <2>7, <2>8, <3>1, <3>2
      <3>7. \A d \in Block : \A i \in Leaves(V[d]) : new.dated[V[d].root[i]] = V[d].timestamp
        <4> HIDE DEF new, V, b, ts
        <4> QED
          BY <1>0, <2>11, <3>4, <3>5 DEF OneLeaf
      <3>8. \A e \in Credit : new.dated[e] # Never =>
                \E d \in Block : \E i \in Leaves(V[d]) : V[d].root[i] = e
        <4> SUFFICES ASSUME NEW e \in Credit, new.dated[e] # Never
                     PROVE  \E d \in Block : \E i \in Leaves(V[d]) : V[d].root[i] = e
          OBVIOUS
        <4>1. CASE e = c
          BY <2>1, <2>8, <3>1, <3>3, <4>1
        <4>2. CASE e # c
          <5>1. PICK d \in Block : \E i \in Leaves(W[d]) : W[d].root[i] = e
            BY <1>0, <2>11, <4>2 DEF OneLeaf
          <5> QED
            BY <3>6, <5>1
        <4> QED
          BY <4>1, <4>2
      <3>9. \A d, e \in Block : \A i \in Leaves(V[d]), j \in Leaves(V[e]) :
                V[d].root[i] = V[e].root[j] => d = e /\ i = j
        <4> HIDE DEF new, V, b, ts
        <4> QED
          BY <1>0, <3>4, <3>5 DEF OneLeaf
      <3> QED
        BY <3>7, <3>8, <3>9 DEF OneLeaf
    <2>14. Awarded(V, new)
      BY <2>8, <2>9, <2>10, <2>12, <2>13 DEF Awarded
    <2>15. \A d \in Block : d < block => V[d] = W[d]
      BY <2>1, <2>7, BlockFacts DEF Clocks
    <2>16. \A d \in Credit : st.dated[d] # Never => new.dated[d] # Never
      BY <2>3, <2>11 DEF Never
    <2> QED
      BY <2>14, <2>15, <2>16
  <1> QED
    BY <1>1, <1>2, <1>3

\* A report awards one credit after the other.
LEMMA InTurn ==
    ASSUME NEW credits, Len(credits) \in Nat, NEW f, f = AwardedInTurn(credits)
    PROVE  /\ f[0] = Awarding
           /\ \A n \in 1 .. Len(credits) : f[n] = award_nft_claim_credit(f[n - 1], credits[n])
  <1> DEFINE N == Len(credits)
             Run(g, m) == g = [n \in 0 .. m |-> IF n = 0 THEN Awarding
                                     ELSE award_nft_claim_credit(g[n - 1], credits[n])]
             S == {m \in Nat : \E g : Run(g, m)}
  <1>1. 0 \in S
    <2>1. Run([n \in {0} |-> Awarding], 0)
      OBVIOUS
    <2> QED
      BY <2>1
  <1>2. \A m \in Nat : m < N /\ m \in S => m + 1 \in S
    <2> SUFFICES ASSUME NEW m \in Nat, NEW g, Run(g, m)
                 PROVE  \E h : Run(h, m + 1)
      OBVIOUS
    <2> DEFINE h == [n \in 0 .. m + 1 |-> IF n = m + 1
                        THEN award_nft_claim_credit(g[m], credits[m + 1]) ELSE g[n]]
    <2>1. \A n \in 0 .. m : h[n] = g[n]
      OBVIOUS
    <2>2. \A n \in 0 .. m + 1 : h[n] = IF n = 0 THEN Awarding
                                       ELSE award_nft_claim_credit(h[n - 1], credits[n])
      <3> SUFFICES ASSUME NEW n \in 0 .. m + 1
                   PROVE  h[n] = IF n = 0 THEN Awarding
                                 ELSE award_nft_claim_credit(h[n - 1], credits[n])
        OBVIOUS
      <3>1. CASE n = m + 1
        <4>1. h[n] = award_nft_claim_credit(g[m], credits[n]) /\ h[n - 1] = g[m] /\ n # 0
          BY <3>1
        <4> QED
          BY <4>1
      <3>2. CASE n # m + 1
        <4>1. n \in 0 .. m /\ (n # 0 => n - 1 \in 0 .. m)
          BY <3>2
        <4>2. h[n] = g[n] /\ (n # 0 => h[n - 1] = g[n - 1])
          BY <2>1, <4>1
        <4>3. g[n] = IF n = 0 THEN Awarding ELSE award_nft_claim_credit(g[n - 1], credits[n])
          BY <4>1
        <4> QED
          BY <4>2, <4>3
      <3> QED
        BY <3>1, <3>2
    <2>3. Run(h, m + 1)
      <3>1. h = [n \in 0 .. m + 1 |-> h[n]]
        OBVIOUS
      <3> HIDE DEF h
      <3> QED
        BY <2>2, <3>1
    <2> QED
      BY <2>3
  <1>3. \E g : Run(g, N)
    <2>a. N \in Nat
      OBVIOUS
    <2> HIDE DEF S, N
    <2>b. \A i \in 0 .. N : i \in S
      BY <1>1, <1>2, <2>a, Counting
    <2>1. N \in S
      BY <2>a, <2>b
    <2> QED
      BY <2>1 DEF S
  <1>4. f = CHOOSE g : Run(g, N)
    BY Zenon DEF AwardedInTurn
  <1>5. Run(f, N)
    BY <1>3, <1>4, Zenon
  <1> QED
    BY <1>5

\* The credits of a report.
LEMMA ReportFacts ==
    ASSUME NEW credits \in SetToAllKPermutations(Credit)
    PROVE  Len(credits) \in Nat /\ \A n \in 1 .. Len(credits) : credits[n] \in Credit
  <1>1. PICK S \in SUBSET Credit : credits \in SetToSeqs(S)
    BY DEF SetToAllKPermutations
  <1>2. Cardinality(S) \in Nat
    BY <1>1, CreditsAssumption, FS_Subset, FS_CardinalityType
  <1>3. credits \in [1 .. Cardinality(S) -> S]
    BY <1>1 DEF SetToSeqs
  <1>4. credits \in Seq(Credit)
    BY <1>2, <1>3
  <1> QED
    BY <1>4

\* A whole report awards as each of its credits does.
LEMMA AwardAll ==
    ASSUME Clocks, playing, NEW W, Awarded(W, Awarding),
           NEW credits \in SetToAllKPermutations(Credit),
           \A n \in 1 .. Len(credits) : GameOf[credits[n]] = GameIndex,
           NEW st, st = AwardedInTurn(credits)[Len(credits)]
    PROVE  \E V : /\ Awarded(V, st)
                  /\ \A b \in Block : b < block => V[b] = W[b]
                  /\ \A d \in Credit : dated[d] # Never => st.dated[d] # Never
  <1> DEFINE f == AwardedInTurn(credits)
             N == Len(credits)
             Good(s) == \E V : /\ Awarded(V, s)
                               /\ \A b \in Block : b < block => V[b] = W[b]
                               /\ \A d \in Credit : dated[d] # Never => s.dated[d] # Never
             S == {n \in 0 .. N : Good(f[n])}
  <1>0. N \in Nat /\ \A n \in 1 .. N : credits[n] \in Credit
    BY ReportFacts
  <1>1. f[0] = Awarding /\ \A n \in 1 .. N : f[n] = award_nft_claim_credit(f[n - 1], credits[n])
    BY <1>0, InTurn
  <1> HIDE DEF f, N
  <1>2. 0 \in S
    <2>1. Good(Awarding)
      BY DEF Awarding
    <2> QED
      BY <1>0, <1>1, <2>1
  <1>3. \A n \in Nat : n < N /\ n \in S => n + 1 \in S
    <2> SUFFICES ASSUME NEW n \in Nat, n < N, Good(f[n])
                 PROVE  Good(f[n + 1])
      BY <1>0
    <2>1. PICK U : /\ Awarded(U, f[n])
                   /\ \A b \in Block : b < block => U[b] = W[b]
                   /\ \A d \in Credit : dated[d] # Never => f[n].dated[d] # Never
      OBVIOUS
    <2>2. n + 1 \in 1 .. N /\ credits[n + 1] \in Credit /\ GameOf[credits[n + 1]] = GameIndex
      BY <1>0 DEF N
    <2>3. f[n + 1] = award_nft_claim_credit(f[n], credits[n + 1])
      <3>1. f[n + 1] = award_nft_claim_credit(f[(n + 1) - 1], credits[n + 1])
        BY <1>1, <2>2
      <3>2. (n + 1) - 1 = n
        OBVIOUS
      <3> QED
        BY <3>1, <3>2
    <2>4. PICK V : /\ Awarded(V, f[n + 1])
                   /\ \A b \in Block : b < block => V[b] = U[b]
                   /\ \A d \in Credit : f[n].dated[d] # Never => f[n + 1].dated[d] # Never
      <3> DEFINE c == credits[n + 1]
                 s == f[n]
      <3>1. c \in Credit /\ GameOf[c] = GameIndex /\ Awarded(U, s)
        BY <2>1, <2>2
      <3> HIDE DEF c, s
      <3>2. \E V : /\ Awarded(V, award_nft_claim_credit(s, c))
                   /\ \A b \in Block : b < block => V[b] = U[b]
                   /\ \A d \in Credit : s.dated[d] # Never =>
                        award_nft_claim_credit(s, c).dated[d] # Never
        BY <3>1, AwardOne
      <3> QED
        BY <2>3, <3>2 DEF c, s
    <2>5. /\ \A b \in Block : b < block => V[b] = W[b]
          /\ \A d \in Credit : dated[d] # Never => f[n + 1].dated[d] # Never
      BY <2>1, <2>4
    <2> QED
      BY <2>4, <2>5
  <1>4. N \in S
    <2> HIDE DEF S
    <2>1. \A i \in 0 .. N : i \in S
      BY <1>0, <1>2, <1>3, Counting
    <2> QED
      BY <1>0, <2>1
  <1>5. Good(f[N])
    BY <1>4
  <1> QED
    BY <1>5 DEF f, N

-----------------------------------------------------------------------------
(* The game's chain *)

\* The fields of the state that awarding changes.
LEMMA AwardingFacts ==
    /\ Awarding.awards = NftClaimCreditAwards /\ Awarding.buffers = CreditBuffers
    /\ Awarding.cursor = CreditBufferCursor /\ Awarding.awarded = AwardedNftClaimCredits
    /\ Awarding.dated = dated /\ AwardingFields(Awarding)
  BY DEF Awarding, AwardingFields

\* A step of the game's chain finds no claim under way and changes nothing of the claims chain;
\* the trees of the blocks that ended stay as they are.
LEMMA ClaimsUntouched ==
    ASSUME Clocks, NEW W, NEW V, OneLeaf(W, dated), OneLeaf(V, dated'),
           \A b \in Block : b < block => V[b] = W[b],
           block' \in Nat, block <= block',
           \A c \in Credit : dated[c] # Never => dated'[c] # Never,
           \A b \in Block : \A i \in Leaves(V[b]) : V[b].root[i] \in Credit,
           C!Idle, claimsVars' = claimsVars,
           ClaimsAgree(W), Filed(W), DeletionsAgree(W), GapsInv
    PROVE  (ClaimsAgree(V) /\ Filed(V) /\ DeletionsAgree(V) /\ GapsInv)'
  <1>0. /\ claims_now' = claims_now /\ CreditTrees' = CreditTrees
        /\ NextExpectedSequence' = NextExpectedSequence /\ ClaimedLeaves' = ClaimedLeaves
        /\ TreeExpiries' = TreeExpiries /\ PendingTreeDeletions' = PendingTreeDeletions
        /\ to_game' = to_game /\ mints' = mints /\ calls' = calls /\ accepted' = accepted
        /\ missing' = missing
    BY DEF claimsVars
  <1>1. calls = <<>> /\ Len(calls) = 0 /\ DOMAIN calls = {}
    BY DEF C!Idle
  <1>2. State(W, 0, CreditTrees, ClaimedLeaves, PendingTreeDeletions, mints)
    BY <1>1 DEF ClaimsAgree
  <1>3. StateTypes(CreditTrees, ClaimedLeaves, PendingTreeDeletions, mints)
    BY <1>2 DEF State
  <1>4. Copies(W, CreditTrees, ClaimedLeaves)
    BY <1>2 DEF State
  <1>5. block \in Int /\ Block \subseteq Int
    <2>1. Block \subseteq Nat
      BY BlockFacts
    <2>2. block \in 0 .. MaxBlock
      BY DEF Clocks
    <2> QED
      BY <2>1, <2>2
  <1>a. \A b \in Block : b < block => b < block' /\ V[b] = W[b]
    <2> SUFFICES ASSUME NEW b \in Block, b < block
                 PROVE  b < block' /\ V[b] = W[b]
      OBVIOUS
    <2>1. b \in Int /\ block \in Int /\ block' \in Int /\ block <= block'
      BY <1>5
    <2> QED
      BY <2>1
  <1>6. Copies(V, CreditTrees, ClaimedLeaves)'
    <2> SUFFICES ASSUME NEW b \in Block
                 PROVE  /\ CreditTrees[b] # NoTree => CreditTrees[b] = V[b]
                        /\ CreditTrees[b] # NoTree \/ ClaimedLeaves[b] # {} =>
                            b < block' /\ V[b] # NoTree /\ <<V[b].timestamp, b>> \in TreeExpiries
                        /\ ClaimedLeaves[b] \subseteq Leaves(V[b])
      BY <1>0 DEF Copies
    <2>1. CASE b < block
      BY <1>4, <1>a, <2>1 DEF Copies
    <2>2. CASE ~ (b < block)
      BY <1>4, <2>2 DEF Copies
    <2> QED
      BY <2>1, <2>2
  <1>7. Spent(V, CreditTrees, ClaimedLeaves, mints)'
    <2> SUFFICES ASSUME NEW b \in Block, NEW i \in Leaves(V[b]), mints[V[b].root[i]] = 1
                 PROVE  /\ b < block'
                        /\ i \in ClaimedLeaves[b] \/ (Expired(V[b]) /\ CreditTrees[b] = NoTree)
      BY <1>0 DEF Spent, Expired
    <2>a. PICK d \in Block : \E j \in Leaves(W[d]) : W[d].root[j] = V[b].root[i]
      BY <1>2 DEF State, EarnedOnly, OneLeaf
    <2>1. PICK j \in Leaves(W[d]) : W[d].root[j] = V[b].root[i]
      BY <2>a
    <2>2. d < block /\ (j \in ClaimedLeaves[d] \/ (Expired(W[d]) /\ CreditTrees[d] = NoTree))
      BY <1>2, <2>1 DEF State, Spent
    <2>3. V[d] = W[d]
      BY <2>2
    <2>4. d = b /\ i = j
      BY <2>1, <2>3 DEF OneLeaf
    <2> QED
      BY <1>5, <2>2, <2>3, <2>4
  <1>8. EarnedOnly(mints)'
    BY <1>0, <1>2 DEF State, EarnedOnly
  <1>9. Answered(V, 0, ClaimedLeaves, mints)'
    <2> SUFFICES ASSUME NEW b \in Block, NEW i \in ClaimedLeaves[b]
                 PROVE  mints[V[b].root[i]] = 1
      BY <1>0 DEF Answered
    <2>1. mints[W[b].root[i]] = 1
      BY <1>2 DEF State, Answered, Calling
    <2>2. V[b] = W[b]
      BY <1>4 DEF Copies
    <2> QED
      BY <2>1, <2>2
  <1>10. Reported(V, 0, PendingTreeDeletions, mints)'
    <2> SUFFICES ASSUME NEW k \in DOMAIN PendingTreeDeletions
                 PROVE  LET t == V[PendingTreeDeletions[k]]
                        IN  /\ PendingTreeDeletions[k] < block'
                            /\ \/ Expired(t)
                               \/ \A i \in Leaves(t) : mints[t.root[i]] = 1
      BY <1>0 DEF Reported, Expired
    <2>1. PendingTreeDeletions[k] \in Block
      BY <1>3 DEF StateTypes
    <2>2. LET t == W[PendingTreeDeletions[k]]
          IN  /\ PendingTreeDeletions[k] < block
              /\ \/ Expired(t)
                 \/ \A i \in Leaves(t) : mints[t.root[i]] = 1
      BY <1>2 DEF State, Reported, Calling
    <2> QED
      BY <1>a, <2>1, <2>2
  <1>11. State(V, 0, CreditTrees, ClaimedLeaves, PendingTreeDeletions, mints)'
    <2>1. StateTypes(CreditTrees, ClaimedLeaves, PendingTreeDeletions, mints)'
      BY <1>0, <1>3 DEF StateTypes
    <2> QED
      BY <2>1, <1>6, <1>7, <1>8, <1>9, <1>10 DEF State
  <1>12. CallsInv(V)'
    <2>1. calls' \in Seq({})
      BY <1>0, <1>1
    <2> QED
      BY <2>1, <1>0, <1>1 DEF CallsInv
  <1>13. ClaimsAgree(V)'
    BY <1>0, <1>1, <1>11, <1>12 DEF ClaimsAgree
  <1>14. Filed(V)'
    BY <1>0, <1>a, Zenon DEF Filed
  <1>15. DeletionsAgree(V)'
    <2>1. \A n \in DOMAIN to_game' : \A b \in to_game'[n] \intersect Block :
                b < block' /\ V[b] = W[b] /\ Closed(W[b])
      BY <1>0, <1>a, Zenon DEF DeletionsAgree
    <2>2. Committed' = Committed
      BY <1>0 DEF Committed
    <2>3. \A n \in DOMAIN to_game' : \A b \in to_game'[n] \intersect Block :
                b < block' /\ Closed(V[b])'
      BY <1>0, <2>1, <2>2 DEF Closed, Expired
    <2>4. \E X : to_game' \in Seq(X)
      BY <1>0 DEF DeletionsAgree
    <2> QED
      BY <2>3, <2>4 DEF DeletionsAgree
  <1>16. GapsInv'
    BY <1>0 DEF GapsInv, GapsReported, C!GapsReported
  <1> QED
    BY <1>13, <1>14, <1>15, <1>16

\* Roots of past blocks agree with a W that changes later blocks only.
LEMMA RootsKept ==
    ASSUME NEW W, NEW V, RootsAgree(W), \A b \in Block : b < block => V[b] = W[b],
           \A b \in Block : b >= block => V[b] \in Tree \union {NoTree},
           UNCHANGED <<block, NftClaimCreditRoots, RootExpiries, NftClaimCreditAwardExpiries>>,
           claims_now' = claims_now, Committed' = Committed
    PROVE  RootsAgree(V)'
  <1>1. \A t : Closed(t)' = Closed(t)
    BY DEF Closed, Expired
  <1> QED
    BY <1>1 DEF RootsAgree

\* What was sent stays that of past blocks.
LEMMA SentKept ==
    ASSUME Clocks, NEW W, NEW V, SentAgree(W), \A b \in Block : b < block => V[b] = W[b],
           block' \in Nat, block <= block', UNCHANGED delivery
    PROVE  SentAgree(V)'
  <1>1. UNCHANGED <<CreditTreeDeliveryQueue, NextCreditTreeSequence, to_claims>>
    BY DEF delivery
  <1>2. block \in Int /\ Block \subseteq Int
    BY BlockFacts DEF Clocks
  <1>3. \A n \in DOMAIN to_claims : \A u \in to_claims[n] : u.block \in Block
    BY DEF SentAgree, Update
  <1>4. \A b \in Block : b < block => b < block' /\ V[b] = W[b]
    BY <1>2
  <1> QED
    BY <1>1, <1>3, <1>4 DEF SentAgree

GamePart(W) == Awarded(W, Awarding) /\ RootsAgree(W) /\ SentAgree(W)

\* A step of the game's chain: trees of blocks that ended stay, and credits stay earned.
GameStep(W) ==
    \E V : /\ GamePart(V)'
           /\ \A b \in Block : b < block => V[b] = W[b]
           /\ \A c \in Credit : dated[c] # Never => dated'[c] # Never
           /\ block' \in 0 .. MaxBlock /\ block <= block'

\* award_credits: what is closed and sent stays so, as only later trees grow.
LEMMA AwardStep ==
    ASSUME Clocks, NEW W, GamePart(W), claims_now' = claims_now, Committed' = Committed,
           NEW credits \in SetToAllKPermutations(Credit), award_credits(credits)
    PROVE  GameStep(W)
  <1> DEFINE st == AwardedInTurn(credits)[Len(credits)]
  <1>1. /\ playing /\ \A n \in 1 .. Len(credits) : GameOf[credits[n]] = GameIndex
        /\ NftClaimCreditAwards' = st.awards
        /\ CreditBuffers' = st.buffers
        /\ CreditBufferCursor' = st.cursor
        /\ AwardedNftClaimCredits' = st.awarded
        /\ dated' = st.dated
        /\ UNCHANGED <<block, GameIndex, playing, roots, NftClaimCreditAwardExpiries, delivery>>
    BY DEF award_credits
  <1>2. Awarded(W, Awarding) /\ RootsAgree(W) /\ SentAgree(W)
    BY DEF GamePart
  <1>3. PICK V : /\ Awarded(V, st)
                 /\ \A b \in Block : b < block => V[b] = W[b]
                 /\ \A d \in Credit : dated[d] # Never => st.dated[d] # Never
    BY <1>1, <1>2, AwardAll
  <1> HIDE DEF st
  <1>4. Awarded(V, Awarding)'
    <2>1. V \in [Block -> Tree \union {NoTree}] /\ AwardingTypes(st) /\ Buffered(V, st)
          /\ OneLeaf(V, st.dated) /\ Marked(st)
      BY <1>3 DEF Awarded
    <2>2. /\ Awarding'.awards = st.awards /\ Awarding'.buffers = st.buffers
          /\ Awarding'.cursor = st.cursor /\ Awarding'.awarded = st.awarded
          /\ Awarding'.dated = st.dated /\ AwardingFields(Awarding')
      BY <1>1 DEF Awarding, AwardingFields
    <2>3. AwardingTypes(Awarding')
      BY <2>1, <2>2 DEF AwardingTypes
    <2>4. Buffered(V, Awarding)' /\ Marked(Awarding)'
      BY <1>1, <2>1, <2>2 DEF Buffered, Marked
    <2> QED
      BY <2>1, <2>2, <2>3, <2>4 DEF Awarded, AwardingTypes, AwardingFields
  <1>5. RootsAgree(V)'
    <2>1. \A b \in Block : b >= block => V[b] \in Tree \union {NoTree}
      BY <1>3 DEF Awarded
    <2> QED
      BY <1>1, <1>2, <1>3, <2>1, RootsKept DEF roots
  <1>6. block' \in Nat /\ block <= block' /\ block' \in 0 .. MaxBlock
    BY <1>1 DEF Clocks
  <1>7. SentAgree(V)'
    BY <1>1, <1>2, <1>3, <1>6, SentKept
  <1> QED
    BY <1>1, <1>3, <1>4, <1>5, <1>6, <1>7 DEF GameStep, GamePart

\* A game ends, and its marks are cleared before the next one may award.
LEMMA GamesStep ==
    ASSUME Clocks, NEW W, GamePart(W), claims_now' = claims_now, Committed' = Committed,
           end_game \/ \E p \in Claimant : clear_game_credits(p)
    PROVE  GameStep(W)
  <1>0. Awarded(W, Awarding) /\ RootsAgree(W) /\ SentAgree(W)
    BY DEF GamePart
  <1>1. /\ UNCHANGED <<block, NftClaimCreditAwards, CreditBuffers, CreditBufferCursor, dated>>
        /\ UNCHANGED <<roots, awards, delivery>>
    BY DEF end_game, clear_game_credits, awards
  <1>2. \/ playing' = FALSE /\ GameIndex' = GameIndex
        \/ playing' = FALSE /\ GameIndex' = GameIndex + 0
        \/ GameIndex' = GameIndex + 1
    BY DEF end_game, clear_game_credits
  <1>3. /\ W \in [Block -> Tree \union {NoTree}] /\ AwardingTypes(Awarding)
        /\ Buffered(W, Awarding) /\ OneLeaf(W, dated) /\ Marked(Awarding)
    BY <1>0, AwardingFacts DEF Awarded
  <1>4. /\ Awarding'.awards = Awarding.awards /\ Awarding'.buffers = Awarding.buffers
        /\ Awarding'.cursor = Awarding.cursor /\ Awarding'.dated = Awarding.dated
        /\ AwardingFields(Awarding')
    BY <1>1 DEF Awarding, AwardingFields
  <1>5. AwardingTypes(Awarding')
    BY <1>3, <1>4 DEF AwardingTypes
  <1>6. Buffered(W, Awarding)'
    BY <1>1, <1>3, <1>4 DEF Buffered
  <1>7. Marked(Awarding)'
    BY <1>2, <1>3, <1>4, CreditsAssumption DEF Marked
  <1>8. OneLeaf(W, Awarding.dated)'
    BY <1>1, <1>3 DEF OneLeaf, Awarding
  <1>9. Awarded(W, Awarding)'
    BY <1>3, <1>5, <1>6, <1>7, <1>8 DEF Awarded, AwardingTypes, AwardingFields
  <1>10. \A b \in Block : b >= block => W[b] \in Tree \union {NoTree}
    BY <1>3
  <1>11. RootsAgree(W)'
    BY <1>0, <1>1, <1>10, RootsKept DEF roots, awards
  <1>12. block' \in Nat /\ block <= block' /\ block' \in 0 .. MaxBlock
    BY <1>1 DEF Clocks
  <1>13. SentAgree(W)'
    BY <1>0, <1>1, <1>12, SentKept
  <1> QED
    BY <1>1, <1>9, <1>11, <1>12, <1>13 DEF GameStep, GamePart

\* The buffer of the block that ends becomes its tree.
LEMMA BlockStep ==
    ASSUME Clocks, NEW W, GamePart(W), claims_now' = claims_now, Committed' = Committed,
           on_initialize
    PROVE  GameStep(W)
  <1>0. Awarded(W, Awarding) /\ RootsAgree(W) /\ SentAgree(W)
    BY DEF GamePart
  <1>1. /\ block' = block + 1 /\ block < MaxBlock
        /\ UNCHANGED <<GameIndex, playing, AwardedNftClaimCredits, CreditBufferCursor, dated,
                       NftClaimCreditAwards, to_claims>>
    BY DEF on_initialize
  <1>2. /\ W \in [Block -> Tree \union {NoTree}] /\ AwardingTypes(Awarding)
        /\ Buffered(W, Awarding) /\ OneLeaf(W, dated) /\ Marked(Awarding)
    BY <1>0, AwardingFacts DEF Awarded
  <1>3. block \in Block /\ block \in 0 .. MaxBlock /\ Block \subseteq Int /\ MaxBlock \in Int
    BY BlockFacts, CreditsAssumption DEF Clocks
  <1>4. /\ CreditBuffers \in [Block -> Buffer \union {NoBuffer}]
        /\ NftClaimCreditAwards \in [Block -> Seq(Credit)]
    BY <1>2, AwardingFacts DEF AwardingTypes
  <1>5. /\ CreditBuffers' \in [Block -> Buffer \union {NoBuffer}]
        /\ \A b \in Block : b # block => CreditBuffers'[b] = CreditBuffers[b]
    BY <1>3, <1>4 DEF on_initialize, build_credit_tree
  <1>6. Awarded(W, Awarding)'
    <2>1. /\ Awarding'.awards = Awarding.awards /\ Awarding'.buffers = CreditBuffers'
          /\ Awarding'.cursor = Awarding.cursor /\ Awarding'.dated = Awarding.dated
          /\ Awarding'.awarded = Awarding.awarded
          /\ AwardingFields(Awarding')
      BY <1>1 DEF Awarding, AwardingFields
    <2>2. AwardingTypes(Awarding')
      BY <1>2, <1>5, <2>1 DEF AwardingTypes
    <2>3. Buffered(W, Awarding)'
      <3> SUFFICES ASSUME NEW b \in Block, b >= block'
                   PROVE  IF CreditBuffers'[b] = NoBuffer
                          THEN NftClaimCreditAwards'[b] = <<>> /\ W[b] = NoTree
                          ELSE W[b] = [game |-> CreditBuffers'[b].game,
                                       root |-> NftClaimCreditAwards'[b],
                                       timestamp |-> CreditBuffers'[b].timestamp]
        BY <1>1, <2>1, AwardingFacts DEF Buffered
      <3>1. b # block /\ b >= block
        BY <1>1, <1>3
      <3>2. CreditBuffers'[b] = CreditBuffers[b]
        BY <1>5, <3>1
      <3> QED
        BY <1>1, <1>2, <3>1, <3>2, AwardingFacts DEF Buffered
    <2>4. Marked(Awarding)'
      BY <1>1, <1>2, <2>1 DEF Marked
    <2>5. OneLeaf(W, Awarding.dated)'
      BY <1>1, <1>2 DEF OneLeaf, Awarding
    <2> QED
      BY <1>2, <2>2, <2>3, <2>4, <2>5 DEF Awarded, AwardingTypes, AwardingFields
  <1>7. \A t : Closed(t)' = Closed(t)
    BY DEF Closed, Expired
  <1>8. \A b \in Block : b < block' => b < block \/ b = block
    BY <1>1, <1>3
  <1>9. \A b \in Block : b < block => b < block' /\ b # block
    BY <1>1, <1>3
  <1>10. NftClaimCreditRoots[block] = NoTree
    BY <1>0, <1>3 DEF RootsAgree
  <1>11. CASE CreditBuffers[block] = NoBuffer
    <2>1. UNCHANGED <<NftClaimCreditRoots, RootExpiries, NftClaimCreditAwardExpiries,
                      CreditTreeDeliveryQueue, NextCreditTreeSequence>>
      BY <1>11 DEF on_initialize, roots
    <2>2. W[block] = NoTree
      BY <1>2, <1>3, <1>11, AwardingFacts DEF Buffered
    <2>3. RootsAgree(W)'
      <3>1. \A b \in Block :
                /\ NftClaimCreditRoots'[b] # NoTree =>
                        b < block' /\ NftClaimCreditRoots'[b] = W[b]
                /\ b < block' => NftClaimCreditRoots'[b] = W[b] \/ Closed(W[b])'
        BY <1>0, <1>7, <1>8, <1>9, <1>10, <2>1, <2>2 DEF RootsAgree
      <3>2. \A e \in RootExpiries' : e[2] \in Block /\ e[2] < block' /\ e[1] = W[e[2]].timestamp
        BY <1>0, <1>9, <2>1 DEF RootsAgree
      <3>3. \A e \in NftClaimCreditAwardExpiries' : e[2] \in Block /\ e[2] < block'
        BY <1>0, <1>9, <2>1 DEF RootsAgree
      <3> QED
        BY <1>0, <2>1, <3>1, <3>2, <3>3 DEF RootsAgree
    <2>4. SentAgree(W)'
      <3>1. \A n \in DOMAIN to_claims : \A u \in to_claims[n] : u.block \in Block
        BY <1>0 DEF SentAgree, Update
      <3> QED
        BY <1>0, <1>1, <1>9, <2>1, <3>1 DEF SentAgree
    <2> QED
      BY <1>1, <1>3, <1>6, <2>3, <2>4 DEF GameStep, GamePart
  <1>12. CASE CreditBuffers[block] # NoBuffer
    <2> DEFINE buffer == CreditBuffers[block]
               t == [game |-> buffer.game, root |-> NftClaimCreditAwards[block],
                     timestamp |-> buffer.timestamp]
    <2>1. /\ NftClaimCreditRoots' = [NftClaimCreditRoots EXCEPT ![block] = t]
          /\ RootExpiries' = RootExpiries \union {<<buffer.timestamp, block>>}
          /\ NftClaimCreditAwardExpiries' =
                NftClaimCreditAwardExpiries \union {<<buffer.timestamp, block>>}
          /\ queue_credit_tree_delivery(block)
      BY <1>12 DEF on_initialize, build_credit_tree
    <2>2. W[block] = t /\ W[block].timestamp = buffer.timestamp /\ t \in Tree
      <3>1. W[block] = t
        BY <1>2, <1>3, <1>12, AwardingFacts DEF Buffered
      <3>2. t \in Tree
        BY <1>3, <1>4, <1>12 DEF Tree, Buffer
      <3> QED
        BY <3>1, <3>2
    <2> HIDE DEF t, buffer
    <2>3. RootsAgree(W)'
      <3>a. /\ NftClaimCreditRoots' \in [Block -> Tree \union {NoTree}]
            /\ NftClaimCreditRoots'[block] = W[block]
            /\ \A b \in Block : b # block => NftClaimCreditRoots'[b] = NftClaimCreditRoots[b]
        BY <1>0, <1>3, <2>1, <2>2 DEF RootsAgree
      <3>b. block < block'
        BY <1>1, <1>3
      <3>1. \A b \in Block :
                /\ NftClaimCreditRoots'[b] # NoTree =>
                        b < block' /\ NftClaimCreditRoots'[b] = W[b]
                /\ b < block' => NftClaimCreditRoots'[b] = W[b] \/ Closed(W[b])'
        BY <1>0, <1>7, <1>8, <1>9, <3>a, <3>b DEF RootsAgree
      <3>2. \A e \in RootExpiries' : e[2] \in Block /\ e[2] < block' /\ e[1] = W[e[2]].timestamp
        <4> SUFFICES ASSUME NEW e \in RootExpiries'
                     PROVE  e[2] \in Block /\ e[2] < block' /\ e[1] = W[e[2]].timestamp
          OBVIOUS
        <4>1. CASE e \in RootExpiries
          BY <1>0, <1>9, <4>1 DEF RootsAgree
        <4>2. CASE e = <<buffer.timestamp, block>>
          BY <1>3, <2>2, <3>b, <4>2
        <4> QED
          BY <2>1, <4>1, <4>2
      <3>3. \A e \in NftClaimCreditAwardExpiries' : e[2] \in Block /\ e[2] < block'
        <4> SUFFICES ASSUME NEW e \in NftClaimCreditAwardExpiries'
                     PROVE  e[2] \in Block /\ e[2] < block'
          OBVIOUS
        <4>1. CASE e \in NftClaimCreditAwardExpiries
          BY <1>0, <1>9, <4>1 DEF RootsAgree
        <4>2. CASE e = <<buffer.timestamp, block>>
          BY <1>3, <3>b, <4>2
        <4> QED
          BY <2>1, <4>1, <4>2
      <3> QED
        BY <3>a, <3>1, <3>2, <3>3 DEF RootsAgree
    <2>4. SentAgree(W)'
      <3>1. \A n \in DOMAIN to_claims : \A u \in to_claims[n] : u.block \in Block
        BY <1>0 DEF SentAgree, Update
      <3>2. NextCreditTreeSequence \in Nat /\ CreditTreeDeliveryQueue \in Seq(Entry)
            /\ to_claims \in Seq(SUBSET Update)
        BY <1>0 DEF SentAgree
      <3>3. /\ NextCreditTreeSequence' \in Nat /\ NextCreditTreeSequence' >= NextCreditTreeSequence
            /\ CreditTreeDeliveryQueue' \in Seq(Entry)
            /\ \A n \in DOMAIN CreditTreeDeliveryQueue' :
                    CreditTreeDeliveryQueue'[n].sequence < NextCreditTreeSequence'
        <4>1. CASE UNCHANGED <<CreditTreeDeliveryQueue, NextCreditTreeSequence>>
          BY <1>0, <4>1 DEF SentAgree
        <4>2. CASE /\ NextCreditTreeSequence' = NextCreditTreeSequence + 1
                   /\ CreditTreeDeliveryQueue' = Append(CreditTreeDeliveryQueue,
                            [sequence |-> NextCreditTreeSequence, block |-> block])
          <5> DEFINE e == [sequence |-> NextCreditTreeSequence, block |-> block]
          <5>1. e \in Entry /\ e.sequence = NextCreditTreeSequence
            BY <1>3, <3>2 DEF Entry
          <5> HIDE DEF e
          <5>2. \A n \in DOMAIN CreditTreeDeliveryQueue :
                    /\ CreditTreeDeliveryQueue[n].sequence \in Nat
                    /\ CreditTreeDeliveryQueue[n].sequence < NextCreditTreeSequence
            <6>1. \A n \in DOMAIN CreditTreeDeliveryQueue : CreditTreeDeliveryQueue[n] \in Entry
              BY <3>2
            <6>2. \A x \in Entry : x.sequence \in Nat
              BY DEF Entry
            <6> QED
              BY <1>0, <6>1, <6>2 DEF SentAgree
          <5>3. CreditTreeDeliveryQueue' = Append(CreditTreeDeliveryQueue, e)
            BY <4>2 DEF e
          <5> QED
            BY <3>2, <4>2, <5>1, <5>2, <5>3
        <4> QED
          BY <2>1, <4>1, <4>2 DEF queue_credit_tree_delivery
      <3>4. \A n \in DOMAIN to_claims : \A u \in to_claims[n] :
                /\ u.block < block' /\ u.tree = W[u.block]
                /\ u.sequence \in -1 .. NextCreditTreeSequence' - 1
        BY <1>0, <1>9, <3>1, <3>2, <3>3 DEF SentAgree
      <3> QED
        BY <1>1, <3>2, <3>3, <3>4 DEF SentAgree
    <2> QED
      BY <1>1, <1>3, <1>6, <2>3, <2>4 DEF GameStep, GamePart
  <1> QED
    BY <1>11, <1>12

\* A step that leaves the awards alone.
LEMMA AwardingKept ==
    ASSUME NEW W, Awarded(W, Awarding), UNCHANGED <<block, awarding, NftClaimCreditAwards>>
    PROVE  Awarded(W, Awarding)'
  <1>1. Awarding' = Awarding /\ block' = block /\ GameIndex' = GameIndex /\ playing' = playing
    BY DEF Awarding, awarding
  <1> QED
    BY <1>1 DEF Awarded, AwardingTypes, AwardingFields, Buffered, OneLeaf, Marked

\* The trees of a batch are those of blocks that ended.
LEMMA BatchFacts ==
    ASSUME Clocks, NEW W, RootsAgree(W), NEW n \in Nat,
           NEW entries, \A e \in entries : e.block \in Block /\ e.sequence \in -1 .. n - 1,
           NEW u \in resolve_credit_trees(entries)
    PROVE  /\ u \in Update /\ u.block < block /\ u.tree = W[u.block]
           /\ u.sequence \in -1 .. n - 1
  <1>1. PICK e \in entries : /\ NftClaimCreditRoots[e.block] # NoTree
                             /\ u = [sequence |-> e.sequence, block |-> e.block,
                                     tree |-> NftClaimCreditRoots[e.block]]
    BY DEF resolve_credit_trees
  <1>2. e.block \in Block /\ e.sequence \in -1 .. n - 1 /\ e.sequence \in Int
    OBVIOUS
  <1>3. /\ NftClaimCreditRoots[e.block] \in Tree /\ e.block < block
        /\ NftClaimCreditRoots[e.block] = W[e.block]
    BY <1>1, <1>2 DEF RootsAgree
  <1> QED
    BY <1>1, <1>2, <1>3 DEF Update

\* Batches are resolved from the roots, which are those of W.
LEMMA SendStep ==
    ASSUME Clocks, NEW W, GamePart(W), claims_now' = claims_now, Committed' = Committed,
           \/ \E capacity \in 1 .. MaxCreditTreesPerMessage : send_credit_trees(capacity)
           \/ \E blocks \in SUBSET (0 .. MaxBlock) : replay_credit_trees(blocks)
    PROVE  GameStep(W)
  <1>0. Awarded(W, Awarding) /\ RootsAgree(W) /\ SentAgree(W)
    BY DEF GamePart
  <1>1. UNCHANGED <<block, awarding, roots, awards, NextCreditTreeSequence>>
    BY DEF send_credit_trees, replay_credit_trees
  <1>2. Awarded(W, Awarding)'
    BY <1>0, <1>1, AwardingKept DEF awards
  <1>3. RootsAgree(W)'
    <2>1. \A b \in Block : b >= block => W[b] \in Tree \union {NoTree}
      BY <1>0 DEF Awarded
    <2> QED
      BY <1>0, <1>1, <2>1, RootsKept DEF roots, awards
  <1>4. /\ NextCreditTreeSequence \in Nat /\ CreditTreeDeliveryQueue \in Seq(Entry)
        /\ to_claims \in Seq(SUBSET Update)
        /\ \A n \in DOMAIN CreditTreeDeliveryQueue :
                CreditTreeDeliveryQueue[n].sequence < NextCreditTreeSequence
    BY <1>0 DEF SentAgree
  <1>5. \A n \in DOMAIN CreditTreeDeliveryQueue :
            /\ CreditTreeDeliveryQueue[n].block \in Block
            /\ CreditTreeDeliveryQueue[n].sequence \in -1 .. NextCreditTreeSequence - 1
    <2>1. \A n \in DOMAIN CreditTreeDeliveryQueue : CreditTreeDeliveryQueue[n] \in Entry
      BY <1>4
    <2>2. \A x \in Entry : x.sequence \in Nat /\ x.block \in Block
      BY DEF Entry
    <2> QED
      BY <1>4, <2>1, <2>2
  \* What is appended to the channel is a batch of trees as they are.
  <1>6. ASSUME NEW entries,
               \A e \in entries : e.block \in Block
                                  /\ e.sequence \in -1 .. NextCreditTreeSequence - 1,
               \/ to_claims' = to_claims
               \/ to_claims' = Append(to_claims, resolve_credit_trees(entries)),
               CreditTreeDeliveryQueue' \in Seq(Entry),
               \A n \in DOMAIN CreditTreeDeliveryQueue' :
                    CreditTreeDeliveryQueue'[n].sequence < NextCreditTreeSequence
        PROVE  SentAgree(W)'
    <2> DEFINE batch == resolve_credit_trees(entries)
               OfW(u) == /\ u.block < block /\ u.tree = W[u.block]
                         /\ u.sequence \in -1 .. NextCreditTreeSequence - 1
    <2>1. \A u \in batch : u \in Update /\ OfW(u)
      BY <1>0, <1>4, <1>6, BatchFacts
    <2>2. batch \in SUBSET Update
      BY <2>1
    <2>3. \A n \in DOMAIN to_claims : \A u \in to_claims[n] : OfW(u)
      BY <1>0 DEF SentAgree
    <2> HIDE DEF batch, OfW
    <2>4. CASE to_claims' = Append(to_claims, batch)
      <3>1. to_claims' \in Seq(SUBSET Update)
        BY <1>4, <2>2, <2>4
      <3>2. \A n \in DOMAIN to_claims' : to_claims'[n] = batch \/
                (n \in DOMAIN to_claims /\ to_claims'[n] = to_claims[n])
        BY <1>4, <2>4
      <3>3. \A n \in DOMAIN to_claims' : \A u \in to_claims'[n] : OfW(u)
        BY <2>1, <2>3, <3>2
      <3> QED
        BY <1>1, <1>4, <1>6, <3>1, <3>3 DEF SentAgree, OfW
    <2>5. CASE to_claims' = to_claims
      BY <1>1, <1>4, <1>6, <2>3, <2>5 DEF SentAgree, OfW
    <2> QED
      BY <1>6, <2>4, <2>5 DEF batch
  <1>7. SentAgree(W)'
    <2>1. ASSUME NEW capacity \in 1 .. MaxCreditTreesPerMessage, send_credit_trees(capacity)
          PROVE  SentAgree(W)'
      <3> DEFINE q == CreditTreeDeliveryQueue
                 taken == Min({capacity, Len(q)})
                 entries == {q[i] : i \in 1 .. taken}
      <3>1. taken \in 0 .. Len(q) /\ Len(q) \in Nat
        <4>1. capacity \in Int /\ capacity >= 1 /\ Len(q) \in Nat
          BY <1>4
        <4> QED
          BY <4>1, LeastOfTwo
      <3>2. /\ \/ to_claims' = to_claims
               \/ to_claims' = Append(to_claims, resolve_credit_trees(entries))
            /\ q' = SubSeq(q, taken + 1, Len(q))
        BY <2>1 DEF send_credit_trees
      <3> HIDE DEF taken
      <3>3. \A e \in entries : e.block \in Block /\ e.sequence \in -1 .. NextCreditTreeSequence - 1
        BY <1>4, <1>5, <3>1
      <3>4. /\ q' \in Seq(Entry)
            /\ \A n \in DOMAIN q' : n + taken \in DOMAIN q /\ q'[n] = q[n + taken]
        BY <1>4, <3>1, <3>2
      <3>5. \A n \in DOMAIN q' : q'[n].sequence < NextCreditTreeSequence
        BY <1>4, <3>4
      <3> QED
        BY <1>6, <3>2, <3>3, <3>4, <3>5
    <2>2. ASSUME NEW blocks \in SUBSET (0 .. MaxBlock), replay_credit_trees(blocks)
          PROVE  SentAgree(W)'
      <3> DEFINE entries == {[sequence |-> NoSequence, block |-> b] : b \in blocks}
      <3>1. /\ to_claims' = Append(to_claims, resolve_credit_trees(entries))
            /\ CreditTreeDeliveryQueue' = CreditTreeDeliveryQueue
        BY <2>2 DEF replay_credit_trees
      <3>2. blocks \subseteq Block
        BY BlockFacts, CreditsAssumption
      <3>3. \A e \in entries : e.block \in Block /\ e.sequence \in -1 .. NextCreditTreeSequence - 1
        BY <1>4, <3>2 DEF NoSequence
      <3> HIDE DEF entries
      <3> QED
        BY <1>4, <1>6, <3>1, <3>3
    <2> QED
      BY <2>1, <2>2
  <1>8. block <= block' /\ block' \in 0 .. MaxBlock
    BY <1>1 DEF Clocks
  <1>9. dated' = dated
    BY <1>1 DEF awarding
  <1> QED
    BY <1>2, <1>3, <1>7, <1>8, <1>9 DEF GameStep, GamePart

\* Roots may go whose trees are closed.
LEMMA RootsRemoved ==
    ASSUME NEW W, RootsAgree(W), NEW blocks,
           \A b \in blocks \intersect Block : W[b] = NoTree \/ Closed(W[b]),
           NftClaimCreditRoots' = WithoutRoots(blocks), RootExpiries' \subseteq RootExpiries,
           UNCHANGED <<block, NftClaimCreditAwardExpiries>>,
           claims_now' = claims_now, Committed' = Committed
    PROVE  RootsAgree(W)'
  <1>1. \A t : Closed(t)' = Closed(t)
    BY DEF Closed, Expired
  <1>2. \A b \in Block : NftClaimCreditRoots'[b] = IF b \in blocks THEN NoTree
                                                   ELSE NftClaimCreditRoots[b]
    BY DEF WithoutRoots
  <1>3. NftClaimCreditRoots' \in [Block -> Tree \union {NoTree}]
    BY DEF WithoutRoots, RootsAgree
  <1>4. \A b \in Block :
            /\ NftClaimCreditRoots'[b] # NoTree => b < block' /\ NftClaimCreditRoots'[b] = W[b]
            /\ b < block' => NftClaimCreditRoots'[b] = W[b] \/ Closed(W[b])'
    BY <1>1, <1>2 DEF RootsAgree
  <1> QED
    BY <1>3, <1>4 DEF RootsAgree

\* A root outlives its tree by more than the clocks differ.
LEMMA SweepStep ==
    ASSUME Clocks, NEW W, GamePart(W), claims_now' = claims_now, Committed' = Committed,
           \/ \E due \in SUBSET RootExpiries : sweep_expired_roots(due)
           \/ \E due \in SUBSET NftClaimCreditAwardExpiries : sweep_expired_awards(due)
    PROVE  GameStep(W)
  <1>0. Awarded(W, Awarding) /\ RootsAgree(W) /\ SentAgree(W)
        /\ W \in [Block -> Tree \union {NoTree}]
    BY DEF GamePart, Awarded
  <1>1. UNCHANGED <<block, awarding, delivery>>
    BY DEF sweep_expired_roots, sweep_expired_awards
  <1>2. block <= block' /\ block' \in 0 .. MaxBlock /\ block' \in Nat
    BY <1>1 DEF Clocks
  <1>3. SentAgree(W)'
    BY <1>0, <1>1, <1>2, SentKept
  <1>4. dated' = dated
    BY <1>1 DEF awarding
  <1>5. ASSUME NEW due \in SUBSET RootExpiries, sweep_expired_roots(due)
        PROVE  GameStep(W)
    <2>1. /\ RootExpiries' = RootExpiries \ due
          /\ NftClaimCreditRoots' = WithoutRoots({e[2] : e \in due})
          /\ UNCHANGED awards
          /\ \A e \in due : block >= e[1] + root_ttl
      BY <1>5 DEF sweep_expired_roots, drain_due_expiries
    <2>2. ASSUME NEW b \in {e[2] : e \in due} \intersect Block
          PROVE  W[b] = NoTree \/ Closed(W[b])
      <3>1. PICK e \in due : b = e[2]
        OBVIOUS
      <3>2. e[1] = W[b].timestamp /\ block >= e[1] + root_ttl
        BY <1>0, <2>1, <3>1 DEF RootsAgree
      <3>3. CASE W[b] \in Tree
        <4>1. W[b].timestamp \in Nat
          BY <3>3 DEF Tree
        <4>2. /\ root_ttl = TreeTtl + ROOT_TTL_GRACE /\ MaxSkew <= ROOT_TTL_GRACE
              /\ TreeTtl \in Nat /\ ROOT_TTL_GRACE \in Nat /\ MaxSkew \in Nat
          BY RuntimesAgree, CreditsAssumption DEF root_ttl
        <4>3. block <= claims_now + MaxSkew /\ block \in Nat /\ claims_now \in Nat
          BY DEF Clocks
        <4>4. claims_now >= W[b].timestamp + TreeTtl
          BY <3>2, <4>1, <4>2, <4>3
        <4> QED
          BY <4>4 DEF Closed, Expired
      <3> QED
        BY <1>0, <2>2, <3>3
    <2>3. RootsAgree(W)'
      <3> DEFINE blocks == {e[2] : e \in due}
      <3>1. \A b \in blocks \intersect Block : W[b] = NoTree \/ Closed(W[b])
        BY <2>2
      <3> HIDE DEF blocks
      <3>2. NftClaimCreditRoots' = WithoutRoots(blocks)
        BY <2>1 DEF blocks
      <3> QED
        BY <1>0, <1>1, <2>1, <3>1, <3>2, RootsRemoved DEF awards
    <2>4. Awarded(W, Awarding)'
      BY <1>0, <1>1, <2>1, AwardingKept DEF awards
    <2> QED
      BY <1>2, <1>3, <1>4, <2>3, <2>4 DEF GameStep, GamePart
  <1>6. ASSUME NEW due \in SUBSET NftClaimCreditAwardExpiries, sweep_expired_awards(due)
        PROVE  GameStep(W)
    <2>1. /\ NftClaimCreditAwardExpiries' = NftClaimCreditAwardExpiries \ due
          /\ NftClaimCreditAwards' = [b \in Block |-> IF \E e \in due : e[2] = b THEN <<>>
                                                      ELSE NftClaimCreditAwards[b]]
          /\ UNCHANGED roots
      BY <1>6 DEF sweep_expired_awards
    <2>2. RootsAgree(W)'
      <3>1. \A t : Closed(t)' = Closed(t)
        BY DEF Closed, Expired
      <3> QED
        BY <1>0, <1>1, <2>1, <3>1 DEF RootsAgree, roots
    <2>3. /\ AwardingTypes(Awarding) /\ Buffered(W, Awarding) /\ OneLeaf(W, dated)
          /\ Marked(Awarding)
      BY <1>0, AwardingFacts DEF Awarded
    <2>4. NftClaimCreditAwards \in [Block -> Seq(Credit)]
      BY <2>3, AwardingFacts DEF AwardingTypes
    <2>5. NftClaimCreditAwards' \in [Block -> Seq(Credit)]
      BY <2>1, <2>4
    <2>6. \A b \in Block : b >= block => NftClaimCreditAwards'[b] = NftClaimCreditAwards[b]
      <3>1. \A e \in due : e[2] \in Block /\ e[2] < block
        BY <1>0 DEF RootsAgree
      <3>2. \A b \in Block : b >= block => ~ (b < block)
        BY BlockFacts DEF Clocks
      <3> QED
        BY <2>1, <3>1, <3>2
    <2>7. /\ Awarding'.awards = NftClaimCreditAwards' /\ Awarding'.buffers = Awarding.buffers
          /\ Awarding'.cursor = Awarding.cursor /\ Awarding'.dated = Awarding.dated
          /\ Awarding'.awarded = Awarding.awarded /\ AwardingFields(Awarding')
      BY <1>1 DEF Awarding, AwardingFields, awarding
    <2>8. AwardingTypes(Awarding')
      BY <2>3, <2>5, <2>7 DEF AwardingTypes
    <2>9. Buffered(W, Awarding)'
      BY <1>1, <2>3, <2>6, <2>7, AwardingFacts DEF Buffered
    <2>10. Marked(Awarding)'
      BY <1>1, <2>3, <2>7 DEF Marked, awarding
    <2>11. OneLeaf(W, Awarding.dated)'
      BY <1>4, <2>3 DEF OneLeaf, Awarding
    <2>12. Awarded(W, Awarding)'
      BY <1>0, <2>8, <2>9, <2>10, <2>11 DEF Awarded, AwardingTypes, AwardingFields
    <2> QED
      BY <1>2, <1>3, <1>4, <2>2, <2>12 DEF GameStep, GamePart
  <1> QED
    BY <1>5, <1>6

\* A leaf is a credit, of a tree.
LEMMA LeafCredits ==
    ASSUME NEW W, W \in [Block -> Tree \union {NoTree}], NEW b \in Block, NEW i \in Leaves(W[b])
    PROVE  /\ W[b] \in Tree /\ W[b].root[i] \in Credit /\ W[b].timestamp \in Nat
           /\ Leaves(W[b]) = 1 .. Len(W[b].root) /\ Len(W[b].root) \in Nat
  <1>1. W[b] \in Tree
    BY TreeFacts
  <1> QED
    BY <1>1, TreeFacts DEF Tree

\* A step of the game's chain keeps the invariant and mints nothing.
LEMMA GameKeeps ==
    ASSUME Clocks, GapsInv, NEW W, WInv(W), Game
    PROVE  /\ Inv'
           /\ \A c \in Credit : dated[c] # Never => dated'[c] # Never
           /\ Committed' = Committed
  <1>1. /\ Awarded(W, Awarding) /\ RootsAgree(W) /\ SentAgree(W)
        /\ ClaimsAgree(W) /\ Filed(W) /\ DeletionsAgree(W)
    BY DEF WInv
  <1>2. C!Idle /\ CreditsNext /\ claimsVars' = claimsVars /\ block' <= claims_now + MaxSkew
    BY DEF Game
  <1>3. claims_now' = claims_now /\ Committed' = Committed
    BY <1>2 DEF claimsVars, Committed
  <1>4. GamePart(W)
    BY <1>1 DEF GamePart
  <1>5. GameStep(W)
    BY <1>2, <1>3, <1>4, AwardStep, GamesStep, BlockStep, SendStep, SweepStep DEF CreditsNext
  <1>6. PICK V : /\ GamePart(V)'
                 /\ \A b \in Block : b < block => V[b] = W[b]
                 /\ \A c \in Credit : dated[c] # Never => dated'[c] # Never
                 /\ block' \in 0 .. MaxBlock /\ block <= block'
    BY <1>5 DEF GameStep
  <1>7. V \in [Block -> Tree \union {NoTree}] /\ OneLeaf(V, dated')
    BY <1>6, AwardingFacts DEF GamePart, Awarded, Awarding
  <1>8. OneLeaf(W, dated)
    BY <1>1, AwardingFacts DEF Awarded
  <1>9. \A b \in Block : \A i \in Leaves(V[b]) : V[b].root[i] \in Credit
    BY <1>7, LeafCredits
  <1>10. block' \in Nat
    BY <1>6
  <1>11. (ClaimsAgree(V) /\ Filed(V) /\ DeletionsAgree(V) /\ GapsInv)'
    BY <1>1, <1>2, <1>6, <1>7, <1>8, <1>9, <1>10, ClaimsUntouched
  <1>12. WInv(V)'
    BY <1>6, <1>11 DEF WInv, GamePart
  <1>13. Clocks'
    BY <1>2, <1>3, <1>6 DEF Clocks
  <1> QED
    BY <1>3, <1>6, <1>11, <1>12, <1>13 DEF Inv

-----------------------------------------------------------------------------
(* The claims chain *)

\* What is closed stays so: time goes on, and what is minted for good stays minted.
LEMMA ClosedStays ==
    ASSUME claims_now \in Nat, claims_now' \in Nat, claims_now <= claims_now',
           \A c \in Credit : Committed[c] = 1 => Committed'[c] = 1,
           NEW t \in Tree \union {NoTree}, Closed(t)
    PROVE  Closed(t)'
  <1>1. CASE t = NoTree
    BY <1>1, TreeFacts DEF Closed
  <1>2. CASE t \in Tree /\ Expired(t)
    <2>1. t.timestamp \in Nat /\ TreeTtl \in Nat
      BY <1>2, RuntimesAgree, CreditsAssumption DEF Tree
    <2>2. claims_now' >= t.timestamp + TreeTtl
      BY <1>2, <2>1 DEF Expired
    <2> QED
      BY <2>2 DEF Closed, Expired
  <1>3. CASE t \in Tree /\ ~ Expired(t)
    <2>1. \A i \in Leaves(t) : Committed'[t.root[i]] = 1
      BY <1>3, TreeFacts DEF Closed
    <2> QED
      BY <2>1 DEF Closed
  <1> QED
    BY <1>1, <1>2, <1>3

\* Roots stay as they are while trees close.
LEMMA RootsStay ==
    ASSUME NEW W, W \in [Block -> Tree \union {NoTree}], RootsAgree(W),
           UNCHANGED <<block, roots, awards>>,
           \A t \in Tree \union {NoTree} : Closed(t) => Closed(t)'
    PROVE  RootsAgree(W)'
  <1>1. UNCHANGED <<block, NftClaimCreditRoots, RootExpiries, NftClaimCreditAwardExpiries>>
    BY DEF roots, awards
  <1>2. \A b \in Block :
            /\ NftClaimCreditRoots'[b] # NoTree => b < block' /\ NftClaimCreditRoots'[b] = W[b]
            /\ b < block' => NftClaimCreditRoots'[b] = W[b] \/ Closed(W[b])'
    BY <1>1 DEF RootsAgree
  <1> QED
    BY <1>1, <1>2 DEF RootsAgree

\* A step of the claims chain leaves the game's part as it is.
LEMMA GameUntouched ==
    ASSUME Clocks, NEW W, GamePart(W), UNCHANGED creditVars,
           \A t \in Tree \union {NoTree} : Closed(t) => Closed(t)'
    PROVE  GamePart(W)' /\ dated' = dated
  <1>1. UNCHANGED <<block, awarding, roots, awards, delivery>>
    BY DEF creditVars
  <1>2. W \in [Block -> Tree \union {NoTree}] /\ Awarded(W, Awarding) /\ RootsAgree(W)
        /\ SentAgree(W)
    BY DEF GamePart, Awarded
  <1>3. Awarded(W, Awarding)'
    BY <1>1, <1>2, AwardingKept DEF awards
  <1>4. RootsAgree(W)'
    BY <1>1, <1>2, RootsStay
  <1>5. block' \in Nat /\ block <= block'
    BY <1>1 DEF Clocks
  <1>6. SentAgree(W)'
    BY <1>1, <1>2, <1>5, SentKept
  <1> QED
    BY <1>1, <1>3, <1>4, <1>6 DEF GamePart, awarding

\* Deletions on their way stay those of closed trees.
LEMMA DeletionsStay ==
    ASSUME NEW W, W \in [Block -> Tree \union {NoTree}], DeletionsAgree(W),
           UNCHANGED <<block, to_game>>,
           \A t \in Tree \union {NoTree} : Closed(t) => Closed(t)'
    PROVE  DeletionsAgree(W)'
  BY DEF DeletionsAgree

\* The state and what a claim returns to, once more, of the state after a step within a claim.
LEMMA NowMoves ==
    ASSUME UNCHANGED <<block, claims_now, dated, TreeExpiries>>,
           NEW W, NEW n \in Nat, \A k \in 1 .. n : calls'[k] = calls[k],
           State(W, n, CreditTrees', ClaimedLeaves', PendingTreeDeletions', mints')
    PROVE  State(W, n, CreditTrees, ClaimedLeaves, PendingTreeDeletions, mints)'
  <1> DEFINE a == CreditTrees'
             s == ClaimedLeaves'
             d == PendingTreeDeletions'
             m == mints'
  <1>0. State(W, n, a, s, d, m)
    OBVIOUS
  <1> HIDE DEF a, s, d, m
  <1>1. Copies(W, a, s) /\ Spent(W, a, s, m) /\ StateTypes(a, s, d, m) /\ EarnedOnly(m)
    BY <1>0 DEF State
  <1>2. \A b, i : Calling(n, b, i)' = Calling(n, b, i)
    BY DEF Calling
  <1>3. Answered(W, n, s, m) /\ Reported(W, n, d, m)
    BY <1>0 DEF State
  <1>4. StateTypes(CreditTrees, ClaimedLeaves, PendingTreeDeletions, mints)'
    BY <1>1 DEF StateTypes, a, s, d, m
  <1>5. Copies(W, CreditTrees, ClaimedLeaves)'
    BY <1>1 DEF Copies, a, s
  <1>6. Spent(W, CreditTrees, ClaimedLeaves, mints)' /\ EarnedOnly(mints)'
    BY <1>1 DEF Spent, EarnedOnly, Expired, a, s, m
  <1>7. Answered(W, n, ClaimedLeaves, mints)'
    BY <1>2, <1>3 DEF Answered, s, m
  <1>8. Reported(W, n, PendingTreeDeletions, mints)'
    BY <1>2, <1>3 DEF Reported, Expired, d, m
  <1> QED
    BY <1>4, <1>5, <1>6, <1>7, <1>8 DEF State

\* What an earlier claim returns to is not touched by a later one.
LEMMA BeforeMoves ==
    ASSUME UNCHANGED <<block, claims_now, dated, TreeExpiries>>,
           NEW W, NEW k \in Nat, k >= 1, \A j \in 1 .. k - 1 : calls'[j] = calls[j],
           NEW a, NEW s, NEW d, NEW m, State(W, k - 1, a, s, d, m),
           calls'[k].before[1] = a, calls'[k].before[2] = s, calls'[k].before[3] = d,
           calls'[k].before[4] = m
    PROVE  Before(W, k)'
  <1> DEFINE n == k - 1
  <1>0. State(W, n, a, s, d, m) /\ n \in Nat /\ \A j \in 1 .. n : calls'[j] = calls[j]
    OBVIOUS
  <1> HIDE DEF n
  <1>1. Copies(W, a, s) /\ Spent(W, a, s, m) /\ StateTypes(a, s, d, m) /\ EarnedOnly(m)
    BY <1>0 DEF State
  <1>2. \A b, i : Calling(n, b, i)' = Calling(n, b, i)
    BY <1>0 DEF Calling
  <1>3. Answered(W, n, s, m) /\ Reported(W, n, d, m)
    BY <1>0 DEF State
  <1>5. Copies(W, a, s)'
    BY <1>1 DEF Copies
  <1>6. Spent(W, a, s, m)' /\ EarnedOnly(m)'
    BY <1>1 DEF Spent, EarnedOnly, Expired
  <1>7. Answered(W, n, s, m)'
    BY <1>0, <1>2, <1>3 DEF Answered
  <1>8. Reported(W, n, d, m)'
    BY <1>2, <1>3 DEF Reported, Expired
  <1>9. State(W, n, a, s, d, m)'
    BY <1>1, <1>5, <1>6, <1>7, <1>8 DEF State, StateTypes
  <1> QED
    BY <1>9 DEF Before, n

\* What is reported was reported before, or is new.
LEMMA QueueFacts ==
    ASSUME NEW queue \in Seq(Block), NEW S \in SUBSET Block, NEW blocks \in Seq(S),
           NEW q, q = C!queue_tree_deletions(queue, blocks)
    PROVE  /\ q \in Seq(Block)
           /\ \A k \in DOMAIN q : (k \in DOMAIN queue /\ q[k] = queue[k]) \/ q[k] \in S
  <1> DEFINE l == MaxQueuedTreeDeletions - Len(queue)
             m == Min({Len(blocks), l})
             new == SubSeq(blocks, 1, m)
  <1>1. Len(blocks) \in Nat /\ l \in Int
    BY RuntimesAgree
  <1>2. m \in Int /\ m <= Len(blocks)
    <2> HIDE DEF l
    <2> QED
      BY <1>1, LeastOfTwo
  <1> HIDE DEF m
  <1>3. new \in Seq(S)
    <2>1. CASE m >= 0
      BY <1>1, <1>2, <2>1
    <2>2. CASE m < 0
      <3>1. new = <<>>
        BY <1>1, <1>2, <2>2
      <3> HIDE DEF new
      <3> QED
        BY <3>1
    <2> QED
      BY <1>2, <2>1, <2>2
  <1> HIDE DEF new
  <1>4. q = queue \o new
    BY Zenon DEF C!queue_tree_deletions, C!Min, Min, new, m
  <1>5. new \in Seq(Block)
    BY <1>3
  <1>6. q \in Seq(Block) /\ Len(q) = Len(queue) + Len(new)
    BY <1>4, <1>5
  <1>7. \A k \in DOMAIN q : (k \in DOMAIN queue /\ q[k] = queue[k]) \/ q[k] \in S
    <2> SUFFICES ASSUME NEW k \in DOMAIN q
                 PROVE  (k \in DOMAIN queue /\ q[k] = queue[k]) \/ q[k] \in S
      OBVIOUS
    <2>1. CASE k <= Len(queue)
      BY <1>4, <1>5, <1>6, <2>1
    <2>2. CASE k > Len(queue)
      <3>1. k - Len(queue) \in DOMAIN new /\ q[k] = new[k - Len(queue)]
        BY <1>4, <1>5, <1>6, <2>2
      <3> QED
        BY <1>3, <3>1
    <2> QED
      BY <1>6, <2>1, <2>2
  <1> QED
    BY <1>6, <1>7

\* Leaf i of block b is spent and not minted; the other spent leaves are minted or claimed by
\* the first n calls.
Minting(W, n, trees, claimed, deletions, minted, b, i) ==
    /\ StateTypes(trees, claimed, deletions, minted)
    /\ Copies(W, trees, claimed) /\ Spent(W, trees, claimed, minted) /\ EarnedOnly(minted)
    /\ i \in Leaves(W[b]) /\ i \in claimed[b] /\ minted[W[b].root[i]] = 0
    /\ \A d \in Block : \A j \in claimed[d] :
            minted[W[d].root[j]] = 1 \/ Calling(n, d, j) \/ (d = b /\ j = i)
    /\ \A k \in 1 .. n :
            /\ calls[k].block \in Block /\ calls[k].tree = W[calls[k].block]
            /\ calls[k].leaf \in Leaves(calls[k].tree)
            /\ calls[k].leaf \in claimed[calls[k].block]
            /\ minted[calls[k].tree.root[calls[k].leaf]] = 0
            /\ ~ (calls[k].block = b /\ calls[k].leaf = i)
    /\ \A k \in DOMAIN deletions :
            /\ deletions[k] < block
            /\ \/ Expired(W[deletions[k]])
               \/ \A j \in Leaves(W[deletions[k]]) :
                    minted[W[deletions[k]].root[j]] = 1 \/ Calling(n, deletions[k], j)
                    \/ (deletions[k] = b /\ j = i)

\* A claim mints leaf i of block b.
LEMMA MintedState ==
    ASSUME Clocks, NEW W, W \in [Block -> Tree \union {NoTree}], OneLeaf(W, dated), NEW n \in Nat,
           NEW b \in Block, NEW i,
           Minting(W, n, CreditTrees, ClaimedLeaves', PendingTreeDeletions, mints, b, i),
           C!Minted(b, W[b], i, ClaimedLeaves'[b])
    PROVE  /\ State(W, n, CreditTrees', ClaimedLeaves', PendingTreeDeletions', mints')
           /\ \A c \in Credit : mints[c] <= mints'[c] /\ mints[c] \in 0 .. 1 /\ mints'[c] \in 0 .. 1
  <1>a. PICK trees, claimed, deletions, minted, trees2, deletions2, minted2 :
            /\ trees = CreditTrees /\ claimed = ClaimedLeaves' /\ deletions = PendingTreeDeletions
            /\ minted = mints /\ trees2 = CreditTrees' /\ deletions2 = PendingTreeDeletions'
            /\ minted2 = mints'
    OBVIOUS
  <1>b. Minting(W, n, trees, claimed, deletions, minted, b, i)
    BY <1>a
  <1>c. /\ minted2 = [minted EXCEPT ![W[b].root[i]] = @ + 1]
        /\ \/ trees2 = trees /\ deletions2 = deletions
           \/ /\ ~ (Cardinality(claimed[b]) < Len(W[b].root))
              /\ trees2 = [trees EXCEPT ![b] = NoTree]
              /\ deletions2 = C!queue_tree_deletions(deletions, <<b>>)
    <2>1. C!NoCreditTree = NoTree /\ C!Cardinality(claimed[b]) = Cardinality(claimed[b])
      BY TreeFacts, SameOperators
    <2> QED
      BY <1>a, <2>1 DEF C!Minted
  <1>d. /\ StateTypes(trees, claimed, deletions, minted) /\ Copies(W, trees, claimed)
        /\ Spent(W, trees, claimed, minted) /\ EarnedOnly(minted)
        /\ i \in Leaves(W[b]) /\ i \in claimed[b] /\ minted[W[b].root[i]] = 0
    BY <1>b DEF Minting
  <1> DEFINE c == W[b].root[i]
  <1>1. /\ W[b] \in Tree /\ c \in Credit /\ W[b].timestamp \in Nat
        /\ Leaves(W[b]) = 1 .. Len(W[b].root) /\ Len(W[b].root) \in Nat
    BY <1>d, LeafCredits
  <1>2. /\ trees \in [Block -> Tree \union {NoTree}] /\ claimed \in [Block -> SUBSET Int]
        /\ deletions \in Seq(Block) /\ minted \in [Credit -> 0 .. 1]
    BY <1>d DEF StateTypes
  <1>3. b < block
    BY <1>d DEF Copies
  <1>4. minted2 \in [Credit -> 0 .. 1] /\ minted2[c] = 1
        /\ \A e \in Credit : e # c => minted2[e] = minted[e]
    BY <1>1, <1>2, <1>c, <1>d
  <1>5. \A d \in Block : \A j \in Leaves(W[d]) :
            W[d].root[j] \in Credit /\ (W[d].root[j] = c => d = b /\ j = i)
    BY <1>d, LeafCredits DEF OneLeaf
  <1> HIDE DEF c
  <1>6. \A d \in Block : \A j \in Leaves(W[d]) :
            /\ minted[W[d].root[j]] = 1 => minted2[W[d].root[j]] = 1
            /\ minted2[W[d].root[j]] = 1 => minted[W[d].root[j]] = 1 \/ (d = b /\ j = i)
            /\ ~ (d = b /\ j = i) => minted2[W[d].root[j]] = minted[W[d].root[j]]
    BY <1>4, <1>5
  <1>7. \A d \in Block : claimed[d] \subseteq Leaves(W[d])
    BY <1>d DEF Copies
  <1>8. minted2[W[b].root[i]] = 1
    BY <1>4 DEF c
  <1>9. /\ trees2 \in [Block -> Tree \union {NoTree}]
        /\ \A d \in Block : trees2[d] = trees[d] \/ trees2[d] = NoTree
    BY <1>2, <1>c
  <1>10. Copies(W, trees2, claimed)
    BY <1>9, <1>d DEF Copies
  <1>11. Spent(W, trees2, claimed, minted2)
    <2> SUFFICES ASSUME NEW d \in Block, NEW j \in Leaves(W[d]), minted2[W[d].root[j]] = 1
                 PROVE  /\ d < block
                        /\ j \in claimed[d] \/ (Expired(W[d]) /\ trees2[d] = NoTree)
      BY DEF Spent
    <2>1. CASE d = b /\ j = i
      BY <1>3, <1>d, <2>1
    <2>2. CASE ~ (d = b /\ j = i)
      BY <1>6, <1>9, <1>d, <2>2 DEF Spent
    <2> QED
      BY <2>1, <2>2
  <1>12. EarnedOnly(minted2)
    <2>1. dated[c] # Never
      BY <1>1, <1>d DEF OneLeaf, Never, c
    <2> QED
      BY <1>4, <1>d, <2>1 DEF EarnedOnly
  <1>13. Answered(W, n, claimed, minted2)
    <2>1. \A d \in Block : \A j \in claimed[d] : minted2[W[d].root[j]] = 1 \/ Calling(n, d, j)
      BY <1>6, <1>7, <1>8, <1>b DEF Minting
    <2>2. \A k \in 1 .. n : /\ calls[k].leaf \in claimed[calls[k].block]
                            /\ minted2[calls[k].tree.root[calls[k].leaf]] = 0
      BY <1>6, <1>b DEF Minting
    <2> QED
      BY <2>1, <2>2 DEF Answered
  \* When the tree goes all of its leaves are spent.
  <1>14. (trees2 = trees /\ deletions2 = deletions) \/ claimed[b] = Leaves(W[b])
    <2> SUFFICES ASSUME ~ (Cardinality(claimed[b]) < Len(W[b].root))
                 PROVE  claimed[b] = Leaves(W[b])
      BY <1>c
    <2>1. IsFiniteSet(Leaves(W[b])) /\ Cardinality(Leaves(W[b])) = Len(W[b].root)
      <3> DEFINE l == Len(W[b].root)
      <3>1. l \in Nat /\ Leaves(W[b]) = 1 .. l
        BY <1>1
      <3> HIDE DEF l
      <3>2. IsFiniteSet(1 .. l) /\ Cardinality(1 .. l) = IF 1 > l THEN 0 ELSE l - 1 + 1
        BY <3>1, FS_Interval
      <3>3. (IF 1 > l THEN 0 ELSE l - 1 + 1) = l
        BY <3>1
      <3> QED
        BY <3>1, <3>2, <3>3 DEF l
    <2>2. /\ Cardinality(claimed[b]) \in Nat
          /\ Cardinality(claimed[b]) = Cardinality(Leaves(W[b])) => claimed[b] = Leaves(W[b])
          /\ Cardinality(claimed[b]) <= Cardinality(Leaves(W[b]))
      BY <1>7, <2>1, FS_Subset, FS_CardinalityType
    <2> QED
      BY <1>1, <2>1, <2>2
  <1>15. /\ deletions2 \in Seq(Block)
         /\ \A k \in DOMAIN deletions2 :
                \/ k \in DOMAIN deletions /\ deletions2[k] = deletions[k]
                \/ deletions2[k] = b /\ claimed[b] = Leaves(W[b])
    <2>1. CASE deletions2 = deletions
      BY <1>2, <2>1
    <2>2. CASE deletions2 = C!queue_tree_deletions(deletions, <<b>>) /\ claimed[b] = Leaves(W[b])
      <3>1. <<b>> \in Seq({b}) /\ {b} \in SUBSET Block
        OBVIOUS
      <3>2. /\ deletions2 \in Seq(Block)
            /\ \A k \in DOMAIN deletions2 :
                (k \in DOMAIN deletions /\ deletions2[k] = deletions[k]) \/ deletions2[k] \in {b}
        BY <1>2, <2>2, <3>1, QueueFacts
      <3> QED
        BY <2>2, <3>2
    <2> QED
      BY <1>14, <1>c, <2>1, <2>2
  <1>16. Reported(W, n, deletions2, minted2)
    <2> SUFFICES ASSUME NEW k \in DOMAIN deletions2
                 PROVE  /\ deletions2[k] < block
                        /\ \/ Expired(W[deletions2[k]])
                           \/ \A j \in Leaves(W[deletions2[k]]) :
                                \/ minted2[W[deletions2[k]].root[j]] = 1
                                \/ Calling(n, deletions2[k], j)
      BY DEF Reported
    <2>1. deletions2[k] \in Block
      BY <1>15
    <2>2. CASE k \in DOMAIN deletions /\ deletions2[k] = deletions[k]
      BY <1>6, <1>8, <1>b, <2>1, <2>2 DEF Minting
    <2>3. CASE deletions2[k] = b /\ claimed[b] = Leaves(W[b])
      <3>1. \A j \in Leaves(W[b]) : minted2[W[b].root[j]] = 1 \/ Calling(n, b, j)
        BY <1>6, <1>8, <1>b, <2>3 DEF Minting
      <3> QED
        BY <1>3, <2>3, <3>1
    <2> QED
      BY <1>15, <2>2, <2>3
  <1>17. StateTypes(trees2, claimed, deletions2, minted2)
    BY <1>2, <1>4, <1>9, <1>15 DEF StateTypes
  <1>18. State(W, n, trees2, claimed, deletions2, minted2)
    BY <1>10, <1>11, <1>12, <1>13, <1>16, <1>17 DEF State
  <1>19. \A e \in Credit : minted[e] <= minted2[e] /\ minted[e] \in 0 .. 1 /\ minted2[e] \in 0 .. 1
    BY <1>1, <1>2, <1>4, <1>d DEF c
  <1> QED
    BY <1>18, <1>19, <1>a

\* A leaf that may be claimed is of the tree of its block, and neither minted nor claimed by a
\* call; it is spent before anything else happens.
LEMMA ClaimSpends ==
    ASSUME Clocks, NEW W, W \in [Block -> Tree \union {NoTree}], NEW n \in Nat,
           State(W, n, CreditTrees, ClaimedLeaves, PendingTreeDeletions, mints),
           NEW b \in Block, NEW i, C!CanClaim(b, i),
           ClaimedLeaves' = [ClaimedLeaves EXCEPT ![b] = @ \union {i}],
           \A k \in 1 .. n :
                /\ calls[k].block \in Block /\ calls[k].tree = W[calls[k].block]
                /\ calls[k].leaf \in Leaves(calls[k].tree)
    PROVE  /\ CreditTrees[b] = W[b]
           /\ ClaimedLeaves'[b] = ClaimedLeaves[b] \union {i}
           /\ Minting(W, n, CreditTrees, ClaimedLeaves', PendingTreeDeletions, mints, b, i)
  <1>a. PICK claimed : claimed = ClaimedLeaves'
    OBVIOUS
  <1>1. /\ StateTypes(CreditTrees, ClaimedLeaves, PendingTreeDeletions, mints)
        /\ Copies(W, CreditTrees, ClaimedLeaves)
        /\ Spent(W, CreditTrees, ClaimedLeaves, mints)
        /\ Answered(W, n, ClaimedLeaves, mints)
    BY DEF State
  <1>2. /\ ClaimedLeaves \in [Block -> SUBSET Int] /\ mints \in [Credit -> 0 .. 1]
        /\ CreditTrees \in [Block -> Tree \union {NoTree}]
    BY <1>1 DEF StateTypes
  <1>3. /\ CreditTrees[b] # NoTree /\ i \in Leaves(CreditTrees[b]) /\ i \notin ClaimedLeaves[b]
    BY TreeFacts DEF C!CanClaim, Leaves
  <1>4. CreditTrees[b] = W[b] /\ i \in Leaves(W[b])
    BY <1>1, <1>3 DEF Copies
  <1>5. W[b].root[i] \in Credit /\ i \in Int
    <2>1. W[b].root[i] \in Credit /\ Leaves(W[b]) = 1 .. Len(W[b].root)
      BY <1>4, LeafCredits
    <2> QED
      BY <1>4, <2>1
  <1>6. mints[W[b].root[i]] = 0
    BY <1>1, <1>2, <1>3, <1>4, <1>5 DEF Spent
  <1>7. /\ claimed \in [Block -> SUBSET Int]
        /\ \A d \in Block : claimed[d] = IF d = b THEN ClaimedLeaves[b] \union {i}
                                         ELSE ClaimedLeaves[d]
    BY <1>2, <1>5, <1>a
  <1>8. StateTypes(CreditTrees, claimed, PendingTreeDeletions, mints)
    BY <1>1, <1>7 DEF StateTypes
  <1>9. Copies(W, CreditTrees, claimed)
    <2> SUFFICES ASSUME NEW d \in Block
                 PROVE  /\ CreditTrees[d] # NoTree => CreditTrees[d] = W[d]
                        /\ CreditTrees[d] # NoTree \/ claimed[d] # {} =>
                            /\ d < block /\ W[d] # NoTree
                            /\ <<W[d].timestamp, d>> \in TreeExpiries
                        /\ claimed[d] \subseteq Leaves(W[d])
      BY DEF Copies
    <2>1. CASE d = b
      BY <1>1, <1>3, <1>4, <1>7, <2>1 DEF Copies
    <2>2. CASE d # b
      BY <1>1, <1>7, <2>2 DEF Copies
    <2> QED
      BY <2>1, <2>2
  <1>10. Spent(W, CreditTrees, claimed, mints)
    BY <1>1, <1>7 DEF Spent
  <1>11. \A k \in 1 .. n : ~ (calls[k].block = b /\ calls[k].leaf = i)
    BY <1>1, <1>3 DEF Answered
  <1>12. EarnedOnly(mints) /\ Reported(W, n, PendingTreeDeletions, mints)
    BY DEF State
  <1>13. \A d \in Block : \A j \in claimed[d] :
            mints[W[d].root[j]] = 1 \/ Calling(n, d, j) \/ (d = b /\ j = i)
    BY <1>1, <1>7 DEF Answered
  <1>14. \A k \in 1 .. n : /\ calls[k].leaf \in claimed[calls[k].block]
                           /\ mints[calls[k].tree.root[calls[k].leaf]] = 0
    BY <1>1, <1>7 DEF Answered
  <1>15. \A k \in DOMAIN PendingTreeDeletions :
            /\ PendingTreeDeletions[k] < block
            /\ \/ Expired(W[PendingTreeDeletions[k]])
               \/ \A j \in Leaves(W[PendingTreeDeletions[k]]) :
                    \/ mints[W[PendingTreeDeletions[k]].root[j]] = 1
                    \/ Calling(n, PendingTreeDeletions[k], j)
    BY <1>12 DEF Reported
  <1>16. Minting(W, n, CreditTrees, claimed, PendingTreeDeletions, mints, b, i)
    BY <1>4, <1>6, <1>7, <1>8, <1>9, <1>10, <1>11, <1>12, <1>13, <1>14, <1>15 DEF Minting
  <1> QED
    BY <1>a, <1>4, <1>7, <1>16

\* The claims under way, innermost last.
LEMMA CallFacts ==
    ASSUME NEW W, CallsInv(W)
    PROVE  /\ Len(calls) \in Nat /\ DOMAIN calls = 1 .. Len(calls)
           /\ \A k \in 1 .. Len(calls) :
                /\ calls[k].block \in Block /\ calls[k].tree = W[calls[k].block]
                /\ calls[k].leaf \in Leaves(calls[k].tree) /\ Before(W, k)
                /\ \A c \in Credit : /\ calls[1].before[4][c] <= calls[k].before[4][c]
                                     /\ calls[1].before[4][c] <= mints[c]
           /\ \A j, k \in 1 .. Len(calls) :
                calls[j].block = calls[k].block /\ calls[j].leaf = calls[k].leaf => j = k
           /\ calls = <<>> <=> Len(calls) = 0
  <1>1. PICK X : calls \in Seq(X)
    BY DEF CallsInv
  <1>2. Len(calls) \in Nat /\ DOMAIN calls = 1 .. Len(calls) /\ (calls = <<>> <=> Len(calls) = 0)
    BY <1>1
  <1> QED
    BY <1>2 DEF CallsInv

\* What is minted for good was earned.
LEMMA CommittedFacts ==
    ASSUME NEW W, ClaimsAgree(W)
    PROVE  /\ Committed \in [Credit -> 0 .. 1]
           /\ \A c \in Credit : Committed[c] = 1 => dated[c] # Never
           /\ \A c \in Credit : Committed[c] = 1 => mints[c] = 1
           /\ mints \in [Credit -> 0 .. 1]
  <1>1. /\ mints \in [Credit -> 0 .. 1] /\ EarnedOnly(mints) /\ CallsInv(W)
    BY DEF ClaimsAgree, State, StateTypes
  <1>2. CASE calls = <<>>
    BY <1>1, <1>2 DEF Committed, EarnedOnly
  <1>3. CASE calls # <<>>
    <2>1. 1 \in 1 .. Len(calls)
      BY <1>1, <1>3, CallFacts
    <2>2. Before(W, 1) /\ \A c \in Credit : calls[1].before[4][c] <= mints[c]
      BY <1>1, <2>1, CallFacts
    <2>3. calls[1].before[4] \in [Credit -> 0 .. 1] /\ EarnedOnly(calls[1].before[4])
      BY <2>2 DEF Before, State, StateTypes
    <2>4. Committed = calls[1].before[4]
      BY <1>3 DEF Committed
    <2> QED
      BY <1>1, <2>2, <2>3, <2>4 DEF EarnedOnly
  <1> QED
    BY <1>2, <1>3

\* A step of a claim.
Within ==
    UNCHANGED <<claims_now, NextExpectedSequence, TreeExpiries, to_game, accepted, missing,
                creditVars>>

\* A step of a claim keeps the invariant when the state it leaves agrees with W.
LEMMA WithinKeeps ==
    ASSUME Clocks, GapsInv, NEW W, WInv(W), Within, ClaimsAgree(W)',
           \A c \in Credit : Committed[c] = 1 => Committed'[c] = 1
    PROVE  Inv' /\ dated' = dated
  <1>1. UNCHANGED <<claims_now, NextExpectedSequence, TreeExpiries, to_game, accepted, missing>>
        /\ UNCHANGED creditVars /\ block' = block
    BY DEF Within, creditVars
  <1>2. claims_now \in Nat
    BY DEF Clocks
  <1>3. \A t \in Tree \union {NoTree} : Closed(t) => Closed(t)'
    BY <1>1, <1>2, ClosedStays
  <1>4. GamePart(W) /\ Filed(W) /\ DeletionsAgree(W) /\ W \in [Block -> Tree \union {NoTree}]
    BY DEF WInv, GamePart, Awarded
  <1>5. GamePart(W)' /\ dated' = dated
    BY <1>1, <1>3, <1>4, GameUntouched
  <1>6. DeletionsAgree(W)'
    BY <1>1, <1>3, <1>4, DeletionsStay
  <1>7. Filed(W)'
    BY <1>1, <1>4 DEF Filed
  <1>8. Clocks' /\ GapsInv'
    BY <1>1 DEF Clocks, GapsInv, GapsReported, C!GapsReported
  <1> QED
    BY <1>5, <1>6, <1>7, <1>8 DEF Inv, WInv, GamePart

\* A claim without a contract mints at once.
LEMMA ClaimKeeps ==
    ASSUME Clocks, NEW W, WInv(W), UNCHANGED creditVars,
           NEW b \in Block, NEW i, C!claim(b, i)
    PROVE  /\ ClaimsAgree(W)' /\ Within
           /\ \A c \in Credit : Committed[c] = 1 => Committed'[c] = 1
  <1>a. PICK n : n = Len(calls)
    OBVIOUS
  <1>1. /\ C!CanClaim(b, i)
        /\ ClaimedLeaves' = [ClaimedLeaves EXCEPT ![b] = ClaimedLeaves[b] \union {i}]
        /\ C!Minted(b, CreditTrees[b], i, ClaimedLeaves[b] \union {i})
        /\ UNCHANGED <<claims_now, NextExpectedSequence, TreeExpiries, to_game, calls, accepted,
                       missing>>
    BY DEF C!claim
  <1>2. Within
    BY <1>1 DEF Within
  <1>3. /\ W \in [Block -> Tree \union {NoTree}] /\ OneLeaf(W, dated)
        /\ CallsInv(W) /\ ClaimsAgree(W)
        /\ State(W, n, CreditTrees, ClaimedLeaves, PendingTreeDeletions, mints)
    BY <1>a, AwardingFacts DEF WInv, Awarded, ClaimsAgree
  <1>4. /\ n \in Nat /\ DOMAIN calls = 1 .. n
        /\ \A k \in 1 .. n :
            /\ calls[k].block \in Block /\ calls[k].tree = W[calls[k].block]
            /\ calls[k].leaf \in Leaves(calls[k].tree) /\ Before(W, k)
            /\ \A c \in Credit : /\ calls[1].before[4][c] <= calls[k].before[4][c]
                                 /\ calls[1].before[4][c] <= mints[c]
        /\ \A j, k \in 1 .. n :
            calls[j].block = calls[k].block /\ calls[j].leaf = calls[k].leaf => j = k
    BY <1>a, <1>3, CallFacts
  <1>6. /\ CreditTrees[b] = W[b]
        /\ ClaimedLeaves'[b] = ClaimedLeaves[b] \union {i}
        /\ Minting(W, n, CreditTrees, ClaimedLeaves', PendingTreeDeletions, mints, b, i)
    BY <1>1, <1>3, <1>4, ClaimSpends
  <1>12. /\ State(W, n, CreditTrees', ClaimedLeaves', PendingTreeDeletions', mints')
         /\ \A c \in Credit : mints[c] <= mints'[c] /\ mints[c] \in 0 .. 1 /\ mints'[c] \in 0 .. 1
    <2>1. C!Minted(b, W[b], i, ClaimedLeaves'[b])
      BY <1>1, <1>6
    <2> QED
      BY <1>3, <1>4, <1>6, <2>1, MintedState
  <1>13. UNCHANGED <<block, claims_now, dated, TreeExpiries>> /\ calls' = calls
    BY <1>1 DEF creditVars, awarding
  <1>14. State(W, n, CreditTrees, ClaimedLeaves, PendingTreeDeletions, mints)'
    <2>2. n \in Nat /\ \A k \in 1 .. n : calls'[k] = calls[k]
      BY <1>4, <1>13
    <2> QED
      BY <1>12, <1>13, <2>2, NowMoves
  <1>16. CallsInv(W)'
    <2>1. ASSUME NEW k \in 1 .. n
          PROVE  Before(W, k)'
      <3>1. State(W, k - 1, calls[k].before[1], calls[k].before[2], calls[k].before[3],
                  calls[k].before[4])
        BY <1>4 DEF Before
      <3>2. k \in Nat /\ k >= 1 /\ \A j \in 1 .. k - 1 : calls'[j] = calls[j]
        BY <1>4, <1>13
      <3> QED
        BY <1>13, <3>1, <3>2, BeforeMoves
    <2>2. \A k \in 1 .. n : \A c \in Credit : calls[1].before[4][c] <= mints'[c]
      <3> SUFFICES ASSUME NEW k \in 1 .. n, NEW c \in Credit
                   PROVE  calls[1].before[4][c] <= mints'[c]
        OBVIOUS
      <3>1. 1 \in 1 .. n
        BY <1>4
      <3>2. calls[1].before[4][c] \in 0 .. 1
        BY <1>4, <3>1 DEF Before, State, StateTypes
      <3> QED
        BY <1>4, <1>12, <3>1, <3>2
    <2>3. \E X : calls' \in Seq(X)
      BY <1>3, <1>13 DEF CallsInv
    <2> QED
      BY <1>4, <1>13, <2>1, <2>2, <2>3 DEF CallsInv
  <1>17. ClaimsAgree(W)'
    BY <1>a, <1>13, <1>14, <1>16 DEF ClaimsAgree
  <1>18. \A c \in Credit : Committed[c] = 1 => Committed'[c] = 1
    BY <1>13, <1>12 DEF Committed
  <1> QED
    BY <1>2, <1>17, <1>18

\* A claim whose contract is called: what it returns to if it fails is the state before it.
LEMMA ContractKeeps ==
    ASSUME Clocks, NEW W, WInv(W), UNCHANGED creditVars,
           NEW b \in Block, NEW i, C!claim_contract(b, i)
    PROVE  /\ ClaimsAgree(W)' /\ Within
           /\ \A c \in Credit : Committed[c] = 1 => Committed'[c] = 1
  <1>a. PICK n : n = Len(calls)
    OBVIOUS
  <1>b. PICK call : call = [block |-> b, tree |-> CreditTrees[b], leaf |-> i, before |-> C!minting]
    OBVIOUS
  <1>1. /\ C!CanClaim(b, i)
        /\ ClaimedLeaves' = [ClaimedLeaves EXCEPT ![b] = ClaimedLeaves[b] \union {i}]
        /\ calls' = Append(calls, call)
        /\ UNCHANGED <<claims_now, CreditTrees, PendingTreeDeletions, mints, NextExpectedSequence,
                       TreeExpiries, to_game, accepted, missing>>
    BY <1>b DEF C!claim_contract
  <1>2. Within
    BY <1>1 DEF Within
  <1>3. /\ W \in [Block -> Tree \union {NoTree}] /\ OneLeaf(W, dated)
        /\ CallsInv(W) /\ ClaimsAgree(W)
        /\ State(W, n, CreditTrees, ClaimedLeaves, PendingTreeDeletions, mints)
    BY <1>a, AwardingFacts DEF WInv, Awarded, ClaimsAgree
  <1>4. /\ n \in Nat /\ DOMAIN calls = 1 .. n
        /\ \A k \in 1 .. n :
            /\ calls[k].block \in Block /\ calls[k].tree = W[calls[k].block]
            /\ calls[k].leaf \in Leaves(calls[k].tree) /\ Before(W, k)
            /\ \A c \in Credit : /\ calls[1].before[4][c] <= calls[k].before[4][c]
                                 /\ calls[1].before[4][c] <= mints[c]
        /\ \A j, k \in 1 .. n :
            calls[j].block = calls[k].block /\ calls[j].leaf = calls[k].leaf => j = k
        /\ (calls = <<>> <=> n = 0)
    BY <1>a, <1>3, CallFacts
  <1>5. /\ CreditTrees[b] = W[b]
        /\ ClaimedLeaves'[b] = ClaimedLeaves[b] \union {i}
        /\ Minting(W, n, CreditTrees, ClaimedLeaves', PendingTreeDeletions, mints, b, i)
    BY <1>1, <1>3, <1>4, ClaimSpends
  <1>6. PICK X : calls \in Seq(X)
    BY <1>3 DEF CallsInv
  <1>7. /\ calls' \in Seq(X \union {call}) /\ Len(calls') = n + 1
        /\ \A k \in 1 .. n : calls'[k] = calls[k]
        /\ calls'[n + 1] = call
        /\ DOMAIN calls' = 1 .. n + 1
    BY <1>a, <1>1, <1>6
  <1>8. /\ call.block = b /\ call.tree = W[b] /\ call.leaf = i
        /\ call.before[1] = CreditTrees /\ call.before[2] = ClaimedLeaves
        /\ call.before[3] = PendingTreeDeletions /\ call.before[4] = mints
    BY <1>b, <1>5 DEF C!minting
  <1>9. UNCHANGED <<block, claims_now, dated, TreeExpiries>>
    BY <1>1 DEF creditVars, awarding
  \* The state, with the new call.
  <1>10. State(W, n + 1, CreditTrees, ClaimedLeaves, PendingTreeDeletions, mints)'
    <2>1. PICK claimed : claimed = ClaimedLeaves'
      OBVIOUS
    <2>2. Minting(W, n, CreditTrees, claimed, PendingTreeDeletions, mints, b, i)
      BY <1>5, <2>1
    <2>3. \A d, j : Calling(n + 1, d, j)' <=> Calling(n, d, j) \/ (d = b /\ j = i)
      <3> SUFFICES ASSUME NEW d, NEW j
                   PROVE  Calling(n + 1, d, j)' <=> Calling(n, d, j) \/ (d = b /\ j = i)
        OBVIOUS
      <3>1. 1 .. n + 1 = (1 .. n) \union {n + 1}
        BY <1>4
      <3> QED
        BY <1>7, <1>8, <3>1 DEF Calling
    <2>4. /\ StateTypes(CreditTrees, claimed, PendingTreeDeletions, mints)
          /\ Copies(W, CreditTrees, claimed) /\ Spent(W, CreditTrees, claimed, mints)
          /\ EarnedOnly(mints)
      BY <2>2 DEF Minting
    <2>5. StateTypes(CreditTrees, ClaimedLeaves, PendingTreeDeletions, mints)'
      BY <1>1, <2>1, <2>4 DEF StateTypes
    <2>6. Copies(W, CreditTrees, ClaimedLeaves)'
      BY <1>1, <1>9, <2>1, <2>4 DEF Copies
    <2>7. Spent(W, CreditTrees, ClaimedLeaves, mints)' /\ EarnedOnly(mints)'
      BY <1>1, <1>9, <2>1, <2>4 DEF Spent, Expired, EarnedOnly
    <2>8. Answered(W, n + 1, ClaimedLeaves, mints)'
      <3>1. \A d \in Block : \A j \in claimed[d] :
                mints[W[d].root[j]] = 1 \/ Calling(n + 1, d, j)'
        BY <2>2, <2>3 DEF Minting
      <3>2. ASSUME NEW k \in 1 .. n + 1
            PROVE  /\ calls'[k].leaf \in claimed[calls'[k].block]
                   /\ mints[calls'[k].tree.root[calls'[k].leaf]] = 0
        <4>1. CASE k \in 1 .. n
          BY <1>7, <2>2, <4>1 DEF Minting
        <4>2. CASE k = n + 1
          BY <1>7, <1>8, <2>2, <4>2 DEF Minting
        <4> QED
          BY <1>4, <4>1, <4>2
      <3> QED
        BY <1>1, <2>1, <3>1, <3>2 DEF Answered
    <2>9. Reported(W, n + 1, PendingTreeDeletions, mints)'
      <3>1. \A k \in DOMAIN PendingTreeDeletions :
                /\ PendingTreeDeletions[k] < block
                /\ \/ Expired(W[PendingTreeDeletions[k]])
                   \/ \A j \in Leaves(W[PendingTreeDeletions[k]]) :
                        \/ mints[W[PendingTreeDeletions[k]].root[j]] = 1
                        \/ Calling(n + 1, PendingTreeDeletions[k], j)'
        <4> SUFFICES ASSUME NEW k \in DOMAIN PendingTreeDeletions
                     PROVE  /\ PendingTreeDeletions[k] < block
                            /\ \/ Expired(W[PendingTreeDeletions[k]])
                               \/ \A j \in Leaves(W[PendingTreeDeletions[k]]) :
                                    \/ mints[W[PendingTreeDeletions[k]].root[j]] = 1
                                    \/ Calling(n + 1, PendingTreeDeletions[k], j)'
          OBVIOUS
        <4>1. PICK d : d = PendingTreeDeletions[k]
          OBVIOUS
        <4>2. /\ d < block
              /\ \/ Expired(W[d])
                 \/ \A j \in Leaves(W[d]) :
                        mints[W[d].root[j]] = 1 \/ Calling(n, d, j) \/ (d = b /\ j = i)
          BY <2>2, <4>1 DEF Minting
        <4>3. \A j : Calling(n, d, j) \/ (d = b /\ j = i) => Calling(n + 1, d, j)'
          BY <2>3
        <4> QED
          BY <1>1, <4>1, <4>2, <4>3
      <3> QED
        BY <1>1, <1>9, <3>1 DEF Reported, Expired
    <2> QED
      BY <2>5, <2>6, <2>7, <2>8, <2>9 DEF State
  <1>11. ASSUME NEW k \in 1 .. n + 1
         PROVE  Before(W, k)'
    <2>1. CASE k \in 1 .. n
      <3>1. State(W, k - 1, calls[k].before[1], calls[k].before[2], calls[k].before[3],
                  calls[k].before[4])
        BY <1>4, <2>1 DEF Before
      <3>2. /\ k \in Nat /\ k >= 1 /\ calls'[k] = calls[k]
            /\ \A j \in 1 .. k - 1 : calls'[j] = calls[j]
        BY <1>4, <1>7, <2>1
      <3> QED
        BY <1>9, <3>1, <3>2, BeforeMoves
    <2>2. CASE k = n + 1
      <3>1. State(W, k - 1, CreditTrees, ClaimedLeaves, PendingTreeDeletions, mints)
        <4>1. k - 1 = n
          BY <1>4, <2>2
        <4> QED
          BY <1>3, <4>1
      <3>2. k \in Nat /\ k >= 1 /\ calls'[k] = call /\ \A j \in 1 .. k - 1 : calls'[j] = calls[j]
        BY <1>4, <1>7, <2>2
      <3> QED
        BY <1>8, <1>9, <3>1, <3>2, BeforeMoves
    <2> QED
      BY <1>4, <2>1, <2>2
  <1>12. mints \in [Credit -> 0 .. 1]
    BY <1>3 DEF State, StateTypes
  <1>13. \A k \in 1 .. n + 1 : \A c \in Credit :
            /\ calls'[1].before[4][c] <= calls'[k].before[4][c]
            /\ calls'[1].before[4][c] <= mints'[c]
    <2>1. CASE n = 0
      <3>1. calls'[1] = call /\ \A k \in 1 .. n + 1 : calls'[k] = call
        BY <1>7, <2>1
      <3>2. \A c \in Credit : mints[c] <= mints[c] /\ mints' = mints
        BY <1>1, <1>12
      <3> QED
        BY <1>8, <3>1, <3>2
    <2>2. CASE n # 0
      <3>1. calls'[1] = calls[1] /\ 1 \in 1 .. n
        BY <1>4, <1>7, <2>2
      <3>2. \A k \in 1 .. n + 1 : (k \in 1 .. n /\ calls'[k] = calls[k]) \/ calls'[k] = call
        BY <1>4, <1>7
      <3> QED
        BY <1>1, <1>4, <1>8, <3>1, <3>2
    <2> QED
      BY <2>1, <2>2
  <1>14. \A j, k \in 1 .. n + 1 :
            calls'[j].block = calls'[k].block /\ calls'[j].leaf = calls'[k].leaf => j = k
    <2>1. \A k \in 1 .. n : ~ (calls[k].block = b /\ calls[k].leaf = i)
      BY <1>5 DEF Minting
    <2>2. \A k \in 1 .. n + 1 : k \in 1 .. n \/ k = n + 1
      BY <1>4
    <2>3. \A k \in 1 .. n + 1 :
            (k \in 1 .. n /\ calls'[k] = calls[k]) \/ (k = n + 1 /\ calls'[k] = call)
      BY <1>7, <2>2
    <2> QED
      BY <1>4, <1>8, <2>1, <2>3
  <1>15. \A k \in 1 .. n + 1 : /\ calls'[k].block \in Block /\ calls'[k].tree = W[calls'[k].block]
                               /\ calls'[k].leaf \in Leaves(calls'[k].tree)
    <2>1. \A k \in 1 .. n + 1 : (k \in 1 .. n /\ calls'[k] = calls[k]) \/ calls'[k] = call
      BY <1>4, <1>7
    <2>2. i \in Leaves(W[b])
      BY <1>5 DEF Minting
    <2> QED
      BY <1>4, <1>8, <2>1, <2>2
  <1>16. CallsInv(W)'
    BY <1>7, <1>11, <1>13, <1>14, <1>15 DEF CallsInv
  <1>17. ClaimsAgree(W)'
    BY <1>7, <1>10, <1>16 DEF ClaimsAgree
  <1>18. \A c \in Credit : Committed[c] = 1 => Committed'[c] = 1
    <2>1. calls' # <<>>
      BY <1>4, <1>7
    <2>2. CASE n = 0
      BY <1>4, <1>7, <1>8, <2>1, <2>2 DEF Committed
    <2>3. CASE n # 0
      <3>1. calls'[1] = calls[1] /\ calls # <<>>
        BY <1>4, <1>7, <2>3
      <3> QED
        BY <2>1, <3>1 DEF Committed
    <2> QED
      BY <2>2, <2>3
  <1> QED
    BY <1>2, <1>17, <1>18

\* The innermost claim ends, with the state given: what is left are the calls before it.
LEMMA CallEnds ==
    ASSUME Clocks, NEW W, CallsInv(W), calls # <<>>, calls' = C!Front(calls),
           UNCHANGED <<block, claims_now, dated, TreeExpiries>>,
           NEW n \in Nat, n = Len(calls) - 1,
           State(W, n, CreditTrees', ClaimedLeaves', PendingTreeDeletions', mints'),
           \A c \in Credit : calls[1].before[4][c] <= mints'[c]
    PROVE  /\ ClaimsAgree(W)'
           /\ \A c \in Credit : Committed[c] = 1 => Committed'[c] = 1
  <1>1. /\ Len(calls) \in Nat /\ DOMAIN calls = 1 .. Len(calls)
        /\ \A k \in 1 .. Len(calls) :
            /\ calls[k].block \in Block /\ calls[k].tree = W[calls[k].block]
            /\ calls[k].leaf \in Leaves(calls[k].tree) /\ Before(W, k)
            /\ \A c \in Credit : /\ calls[1].before[4][c] <= calls[k].before[4][c]
                                 /\ calls[1].before[4][c] <= mints[c]
        /\ \A j, k \in 1 .. Len(calls) :
            calls[j].block = calls[k].block /\ calls[j].leaf = calls[k].leaf => j = k
    BY CallFacts
  <1>2. PICK X : calls \in Seq(X)
    BY DEF CallsInv
  <1>3. Len(calls) = n + 1
    BY <1>1
  <1>4. /\ calls' \in Seq(X) /\ Len(calls') = n /\ DOMAIN calls' = 1 .. n
        /\ \A k \in 1 .. n : k \in 1 .. Len(calls) /\ calls'[k] = calls[k]
    <2>1. calls' = SubSeq(calls, 1, Len(calls) - 1)
      BY SameOperators DEF Front
    <2> QED
      BY <1>2, <1>3, <2>1
  <1>5. State(W, n, CreditTrees, ClaimedLeaves, PendingTreeDeletions, mints)'
    BY <1>4, NowMoves
  <1>6. ASSUME NEW k \in 1 .. n
        PROVE  Before(W, k)'
    <2>1. State(W, k - 1, calls[k].before[1], calls[k].before[2], calls[k].before[3],
                calls[k].before[4])
      BY <1>1, <1>4 DEF Before
    <2>2. k \in Nat /\ k >= 1 /\ calls'[k] = calls[k] /\ \A j \in 1 .. k - 1 : calls'[j] = calls[j]
      BY <1>4
    <2> QED
      BY <2>1, <2>2, BeforeMoves
  <1>7. \A k \in 1 .. n : \A c \in Credit : /\ calls'[1].before[4][c] <= calls'[k].before[4][c]
                                            /\ calls'[1].before[4][c] <= mints'[c]
    <2>1. ASSUME NEW k \in 1 .. n
          PROVE  calls'[1] = calls[1] /\ calls'[k] = calls[k] /\ k \in 1 .. Len(calls)
      BY <1>4
    <2> QED
      BY <1>1, <2>1
  <1>8. CallsInv(W)'
    <2>1. \A k \in 1 .. n :
            /\ calls'[k].block \in Block /\ calls'[k].tree = W[calls'[k].block]
            /\ calls'[k].leaf \in Leaves(calls'[k].tree)
      BY <1>1, <1>4
    <2>2. \A j, k \in 1 .. n :
            calls'[j].block = calls'[k].block /\ calls'[j].leaf = calls'[k].leaf => j = k
      BY <1>1, <1>4
    <2> QED
      BY <1>4, <1>6, <1>7, <2>1, <2>2 DEF CallsInv
  <1>9. ClaimsAgree(W)'
    BY <1>4, <1>5, <1>8 DEF ClaimsAgree
  <1>10. \A c \in Credit : Committed[c] = 1 => Committed'[c] = 1
    <2> SUFFICES ASSUME NEW c \in Credit, Committed[c] = 1
                 PROVE  Committed'[c] = 1
      OBVIOUS
    <2>1. calls[1].before[4][c] = 1 /\ calls[1].before[4][c] <= mints'[c]
      BY DEF Committed
    <2>2. CASE n = 0
      <3>1. calls' = <<>>
        BY <1>4, <2>2
      <3>2. mints'[c] \in 0 .. 1
        BY DEF State, StateTypes
      <3> QED
        BY <2>1, <3>1, <3>2 DEF Committed
    <2>3. CASE n # 0
      <3>1. calls' # <<>> /\ calls'[1] = calls[1]
        BY <1>4, <2>3
      <3> QED
        BY <2>1, <3>1 DEF Committed
    <2> QED
      BY <2>2, <2>3
  <1> QED
    BY <1>9, <1>10

\* The innermost claim mints, or fails and what it did is undone.
LEMMA AnswerKeeps ==
    ASSUME Clocks, NEW W, WInv(W), UNCHANGED creditVars, C!claim_minted \/ C!claim_failed
    PROVE  /\ ClaimsAgree(W)' /\ Within
           /\ \A c \in Credit : Committed[c] = 1 => Committed'[c] = 1
  <1>a. PICK n : n = Len(calls) - 1
    OBVIOUS
  <1>1. /\ calls # <<>> /\ calls' = C!Front(calls)
        /\ UNCHANGED <<claims_now, NextExpectedSequence, TreeExpiries, to_game, accepted, missing>>
    BY DEF C!claim_minted, C!claim_failed, C!Idle
  <1>2. Within
    BY <1>1 DEF Within
  <1>3. /\ W \in [Block -> Tree \union {NoTree}] /\ OneLeaf(W, dated)
        /\ CallsInv(W) /\ ClaimsAgree(W)
        /\ State(W, Len(calls), CreditTrees, ClaimedLeaves, PendingTreeDeletions, mints)
    BY AwardingFacts DEF WInv, Awarded, ClaimsAgree
  <1>4. /\ Len(calls) \in Nat /\ DOMAIN calls = 1 .. Len(calls)
        /\ \A k \in 1 .. Len(calls) :
            /\ calls[k].block \in Block /\ calls[k].tree = W[calls[k].block]
            /\ calls[k].leaf \in Leaves(calls[k].tree) /\ Before(W, k)
            /\ \A c \in Credit : /\ calls[1].before[4][c] <= calls[k].before[4][c]
                                 /\ calls[1].before[4][c] <= mints[c]
        /\ \A j, k \in 1 .. Len(calls) :
            calls[j].block = calls[k].block /\ calls[j].leaf = calls[k].leaf => j = k
        /\ (calls = <<>> <=> Len(calls) = 0)
    BY <1>3, CallFacts
  <1>5. /\ n \in Nat /\ Len(calls) = n + 1 /\ n + 1 \in 1 .. Len(calls)
        /\ 1 .. n \subseteq 1 .. Len(calls)
        /\ 1 \in 1 .. Len(calls)
    BY <1>a, <1>1, <1>4
  <1>6. UNCHANGED <<block, claims_now, dated, TreeExpiries>>
    BY <1>1 DEF creditVars, awarding
  <1>b. PICK call : call = calls[n + 1]
    OBVIOUS
  <1>7. C!Last(calls) = call
    BY <1>b, <1>5, SameOperators DEF Last
  <1>8. CASE C!claim_minted
    <2>1. /\ C!Minted(call.block, call.tree, call.leaf, ClaimedLeaves[call.block])
          /\ ClaimedLeaves' = ClaimedLeaves
      BY <1>7, <1>8 DEF C!claim_minted
    <2>2. PICK b, i : b = call.block /\ i = call.leaf
      OBVIOUS
    <2>3. b \in Block /\ call.tree = W[b] /\ i \in Leaves(W[b])
      BY <1>b, <1>4, <1>5, <2>2
    <2>4. /\ StateTypes(CreditTrees, ClaimedLeaves, PendingTreeDeletions, mints)
          /\ Copies(W, CreditTrees, ClaimedLeaves)
          /\ Spent(W, CreditTrees, ClaimedLeaves, mints) /\ EarnedOnly(mints)
          /\ Answered(W, n + 1, ClaimedLeaves, mints)
          /\ Reported(W, n + 1, PendingTreeDeletions, mints)
      BY <1>3, <1>5 DEF State
    <2>5. \A k \in 1 .. n + 1 : k \in 1 .. n \/ k = n + 1
      BY <1>5
    <2>6. \A d, j : Calling(n + 1, d, j) => Calling(n, d, j) \/ (d = b /\ j = i)
      BY <1>b, <2>2, <2>5 DEF Calling
    <2>7. i \in ClaimedLeaves[b] /\ mints[W[b].root[i]] = 0
      BY <1>b, <1>5, <2>2, <2>3, <2>4 DEF Answered
    <2>8. Minting(W, n, CreditTrees, ClaimedLeaves, PendingTreeDeletions, mints, b, i)
      <3>1. \A d \in Block : \A j \in ClaimedLeaves[d] :
                mints[W[d].root[j]] = 1 \/ Calling(n, d, j) \/ (d = b /\ j = i)
        BY <2>4, <2>6 DEF Answered
      <3>2. \A k \in 1 .. n :
                /\ calls[k].block \in Block /\ calls[k].tree = W[calls[k].block]
                /\ calls[k].leaf \in Leaves(calls[k].tree)
                /\ calls[k].leaf \in ClaimedLeaves[calls[k].block]
                /\ mints[calls[k].tree.root[calls[k].leaf]] = 0
                /\ ~ (calls[k].block = b /\ calls[k].leaf = i)
        <4> SUFFICES ASSUME NEW k \in 1 .. n
                     PROVE  /\ calls[k].block \in Block /\ calls[k].tree = W[calls[k].block]
                            /\ calls[k].leaf \in Leaves(calls[k].tree)
                            /\ calls[k].leaf \in ClaimedLeaves[calls[k].block]
                            /\ mints[calls[k].tree.root[calls[k].leaf]] = 0
                            /\ ~ (calls[k].block = b /\ calls[k].leaf = i)
          OBVIOUS
        <4>1. k \in 1 .. Len(calls) /\ k \in 1 .. n + 1 /\ k # n + 1
          BY <1>5
        <4>2. ~ (calls[k].block = b /\ calls[k].leaf = i)
          BY <1>b, <1>4, <1>5, <2>2, <4>1
        <4> QED
          BY <1>4, <2>4, <4>1, <4>2 DEF Answered
      <3>3. \A k \in DOMAIN PendingTreeDeletions :
                /\ PendingTreeDeletions[k] < block
                /\ \/ Expired(W[PendingTreeDeletions[k]])
                   \/ \A j \in Leaves(W[PendingTreeDeletions[k]]) :
                        \/ mints[W[PendingTreeDeletions[k]].root[j]] = 1
                        \/ Calling(n, PendingTreeDeletions[k], j)
                        \/ PendingTreeDeletions[k] = b /\ j = i
        BY <2>4, <2>6 DEF Reported
      <3> QED
        BY <2>3, <2>4, <2>7, <3>1, <3>2, <3>3 DEF Minting
    <2>9. /\ State(W, n, CreditTrees', ClaimedLeaves', PendingTreeDeletions', mints')
          /\ \A c \in Credit : mints[c] <= mints'[c] /\ mints[c] \in 0 .. 1 /\ mints'[c] \in 0 .. 1
      <3>1. Minting(W, n, CreditTrees, ClaimedLeaves', PendingTreeDeletions, mints, b, i)
        BY <2>1, <2>8
      <3>2. C!Minted(b, W[b], i, ClaimedLeaves'[b])
        BY <2>1, <2>2, <2>3
      <3> QED
        BY <1>3, <1>5, <2>3, <3>1, <3>2, MintedState
    <2>10. \A c \in Credit : calls[1].before[4][c] <= mints'[c]
      <3> SUFFICES ASSUME NEW c \in Credit PROVE calls[1].before[4][c] <= mints'[c]
        OBVIOUS
      <3>1. calls[1].before[4][c] \in 0 .. 1
        BY <1>4, <1>5 DEF Before, State, StateTypes
      <3> QED
        BY <1>4, <1>5, <2>9, <3>1
    <2> QED
      BY <1>a, <1>1, <1>2, <1>3, <1>5, <1>6, <2>9, <2>10, CallEnds
  <1>9. CASE C!claim_failed
    <2>1. /\ CreditTrees' = call.before[1] /\ ClaimedLeaves' = call.before[2]
          /\ PendingTreeDeletions' = call.before[3] /\ mints' = call.before[4]
      BY <1>7, <1>9 DEF C!claim_failed
    <2>2. State(W, n, CreditTrees', ClaimedLeaves', PendingTreeDeletions', mints')
      <3>1. Before(W, n + 1) /\ (n + 1) - 1 = n
        BY <1>4, <1>5
      <3>2. State(W, (n + 1) - 1, call.before[1], call.before[2], call.before[3], call.before[4])
        BY <1>b, <3>1 DEF Before
      <3> QED
        BY <2>1, <3>1, <3>2
    <2>3. \A c \in Credit : calls[1].before[4][c] <= mints'[c]
      BY <1>b, <1>4, <1>5, <2>1
    <2> QED
      BY <1>a, <1>1, <1>2, <1>3, <1>5, <1>6, <2>2, <2>3, CallEnds
  <1> QED
    BY <1>8, <1>9

-----------------------------------------------------------------------------
(* Between two claims *)

\* No claim is under way: what is spent is minted, and what is reported is closed.
Resting(W) ==
    /\ StateTypes(CreditTrees, ClaimedLeaves, PendingTreeDeletions, mints)
    /\ Copies(W, CreditTrees, ClaimedLeaves)
    /\ Spent(W, CreditTrees, ClaimedLeaves, mints)
    /\ EarnedOnly(mints)
    /\ \A b \in Block : \A i \in ClaimedLeaves[b] : mints[W[b].root[i]] = 1
    /\ \A k \in DOMAIN PendingTreeDeletions :
            PendingTreeDeletions[k] < block /\ Closed(W[PendingTreeDeletions[k]])

\* The invariant of the claims chain, spelled out for the time between two claims.
LEMMA Rests ==
    ASSUME NEW W, ClaimsAgree(W), C!Idle
    PROVE  Resting(W) /\ Committed = mints /\ calls = <<>>
  <1>1. calls = <<>> /\ Len(calls) = 0
    BY DEF C!Idle
  <1>2. Committed = mints
    BY <1>1 DEF Committed
  <1>3. State(W, 0, CreditTrees, ClaimedLeaves, PendingTreeDeletions, mints)
    BY <1>1 DEF ClaimsAgree
  <1>4. \A b, i : ~ Calling(0, b, i)
    BY DEF Calling
  <1>5. \A b \in Block : \A i \in ClaimedLeaves[b] : mints[W[b].root[i]] = 1
    BY <1>3, <1>4 DEF State, Answered
  <1>6. \A k \in DOMAIN PendingTreeDeletions :
            PendingTreeDeletions[k] < block /\ Closed(W[PendingTreeDeletions[k]])
    BY <1>2, <1>3, <1>4 DEF State, Reported, Closed
  <1> QED
    BY <1>1, <1>2, <1>3, <1>5, <1>6 DEF Resting, State

\* And the way back, after a step.
LEMMA RestsAfter ==
    ASSUME NEW W, calls' = <<>>, Resting(W)'
    PROVE  ClaimsAgree(W)'
  <1>1. Len(calls') = 0 /\ DOMAIN calls' = {}
    OBVIOUS
  <1>2. \E X : calls' \in Seq(X)
    <2>1. calls' \in Seq({})
      OBVIOUS
    <2> QED
      BY <2>1
  <1>3. CallsInv(W)'
    BY <1>1, <1>2 DEF CallsInv
  <1>4. (StateTypes(CreditTrees, ClaimedLeaves, PendingTreeDeletions, mints)
         /\ Copies(W, CreditTrees, ClaimedLeaves)
         /\ Spent(W, CreditTrees, ClaimedLeaves, mints) /\ EarnedOnly(mints))'
    BY DEF Resting
  <1>5. Answered(W, 0, ClaimedLeaves, mints)'
    BY DEF Resting, Answered
  <1>6. Reported(W, 0, PendingTreeDeletions, mints)'
    <2>1. Committed' = mints'
      BY DEF Committed
    <2>2. \A t : Closed(t)' => Expired(t)' \/ \A i \in Leaves(t) : mints'[t.root[i]] = 1
      BY <2>1 DEF Closed
    <2> QED
      BY <2>2 DEF Resting, Reported
  <1>7. State(W, 0, CreditTrees, ClaimedLeaves, PendingTreeDeletions, mints)'
    BY <1>4, <1>5, <1>6 DEF State
  <1> QED
    BY <1>1, <1>3, <1>7 DEF ClaimsAgree

\* What the parts of the invariant are while no claim is under way.
LEMMA RestFacts ==
    ASSUME NEW W, WInv(W), C!Idle
    PROVE  /\ GamePart(W) /\ Resting(W) /\ Filed(W) /\ DeletionsAgree(W)
           /\ W \in [Block -> Tree \union {NoTree}] /\ calls = <<>> /\ Committed = mints
  BY Rests DEF WInv, GamePart, Awarded

\* What the clock brings closes trees and opens none.
LEMMA TimePasses ==
    ASSUME Clocks, UNCHANGED <<mints, calls>>, C!Idle,
           claims_now' = claims_now \/ claims_now' = claims_now + 1
    PROVE  /\ \A t \in Tree \union {NoTree} : Closed(t) => Closed(t)'
           /\ \A t \in Tree : Expired(t) => Expired(t)'
           /\ Committed' = Committed
  <1>1. claims_now \in Nat /\ claims_now' \in Nat /\ claims_now <= claims_now'
    BY DEF Clocks
  <1>2. Committed' = Committed
    BY DEF Committed
  <1>3. \A t \in Tree \union {NoTree} : Closed(t) => Closed(t)'
    BY <1>1, <1>2, ClosedStays
  <1>4. ASSUME NEW t \in Tree, Expired(t) PROVE Expired(t)'
    <2>1. t.timestamp \in Nat /\ TreeTtl \in Nat
      BY RuntimesAgree, CreditsAssumption DEF Tree
    <2> QED
      BY <1>1, <1>4, <2>1 DEF Expired
  <1> QED
    BY <1>2, <1>3, <1>4

\* A second passes on the claims chain.
LEMMA ClockKeeps ==
    ASSUME Clocks, GapsInv, NEW W, WInv(W), clock
    PROVE  WInv(W)' /\ Clocks' /\ GapsInv' /\ dated' = dated /\ Committed' = Committed
  <1>1. /\ C!Idle /\ claims_now' = claims_now + 1
        /\ UNCHANGED <<CreditTrees, NextExpectedSequence, ClaimedLeaves, TreeExpiries,
                       PendingTreeDeletions, to_game, mints, calls, accepted, missing>>
        /\ UNCHANGED creditVars
    BY DEF clock
  <1>2. /\ GamePart(W) /\ Resting(W) /\ Filed(W) /\ DeletionsAgree(W)
        /\ W \in [Block -> Tree \union {NoTree}] /\ calls = <<>>
    BY <1>1, RestFacts
  <1>3. /\ \A t \in Tree \union {NoTree} : Closed(t) => Closed(t)'
        /\ \A t \in Tree : Expired(t) => Expired(t)'
        /\ Committed' = Committed
    BY <1>1, TimePasses
  <1>4. GamePart(W)' /\ dated' = dated /\ block' = block
    BY <1>1, <1>2, <1>3, GameUntouched DEF creditVars
  <1>5. DeletionsAgree(W)'
    BY <1>1, <1>2, <1>3, <1>4, DeletionsStay
  <1>6. Filed(W)'
    BY <1>1, <1>2, <1>4 DEF Filed
  <1>7. Clocks' /\ GapsInv'
    <2>1. MaxSkew \in Nat
      BY RuntimesAgree
    <2> QED
      BY <1>1, <1>4, <2>1 DEF Clocks, GapsInv, GapsReported, C!GapsReported
  <1>8. Resting(W)'
    <2>1. (StateTypes(CreditTrees, ClaimedLeaves, PendingTreeDeletions, mints)
           /\ Copies(W, CreditTrees, ClaimedLeaves) /\ EarnedOnly(mints))'
      BY <1>1, <1>2, <1>4 DEF Resting, StateTypes, Copies, EarnedOnly
    <2>2. Spent(W, CreditTrees, ClaimedLeaves, mints)'
      <3>1. \A b \in Block : \A i \in Leaves(W[b]) : W[b] \in Tree
        BY <1>2, LeafCredits
      <3>2. Spent(W, CreditTrees, ClaimedLeaves, mints)
        BY <1>2 DEF Resting
      <3> QED
        BY <1>1, <1>3, <1>4, <3>1, <3>2 DEF Spent
    <2>3. \A k \in DOMAIN PendingTreeDeletions' :
            /\ PendingTreeDeletions'[k] < block' /\ Closed(W[PendingTreeDeletions[k]])'
      <3>1. PendingTreeDeletions \in Seq(Block)
        BY <1>2 DEF Resting, StateTypes
      <3>2. \A k \in DOMAIN PendingTreeDeletions :
                W[PendingTreeDeletions[k]] \in Tree \union {NoTree}
        BY <1>2, <3>1
      <3> QED
        BY <1>1, <1>2, <1>3, <1>4, <3>2 DEF Resting
    <2> QED
      BY <1>1, <1>2, <2>1, <2>2, <2>3 DEF Resting
  <1>9. ClaimsAgree(W)'
    BY <1>1, <1>2, <1>8, RestsAfter
  <1> QED
    BY <1>3, <1>4, <1>5, <1>6, <1>7, <1>9 DEF WInv, GamePart

\* A finite set is listed by its members.
LEMMA Listed ==
    ASSUME NEW S, IsFiniteSet(S)
    PROVE  SetToSeq(S) \in Seq(S)
  <1>1. PICK n \in Nat : n = Cardinality(S) /\ ExistsBijection(1 .. n, S)
    BY FS_CardinalityType
  <1>2. PICK g \in [1 .. n -> S] : IsInjective(g)
    BY <1>1 DEF ExistsBijection, Bijection, Injection
  <1>3. SetToSeq(S) = CHOOSE f \in [1 .. n -> S] : IsInjective(f)
    BY <1>1, Zenon DEF SetToSeq
  <1>4. SetToSeq(S) \in [1 .. n -> S]
    BY <1>2, <1>3, Zenon
  <1> QED
    BY <1>4

\* The blocks of expired trees are listed by the sweep.
LEMMA BlocksListed ==
    ASSUME NEW S \in SUBSET Block
    PROVE  SetToSeq(S) \in Seq(S)
  <1>1. MaxBlock + MAX_PENDING_CREDIT_TREES \in Int
    BY CreditsAssumption
  <1>2. IsFiniteSet(Block)
    BY <1>1, FS_Interval DEF Block
  <1>3. IsFiniteSet(S)
    BY <1>2, FS_Subset
  <1> QED
    BY <1>3, Listed

\* The sweep of the claims chain takes trees that have expired, and files with them.
LEMMA SweepTreesKeeps ==
    ASSUME Clocks, GapsInv, NEW W, WInv(W), sweep_expired_trees
    PROVE  WInv(W)' /\ Clocks' /\ GapsInv' /\ dated' = dated /\ Committed' = Committed
  <1>1. PICK retired \in SUBSET TreeExpiries :
            /\ drain_due_expiries(TreeExpiries, TreeTtl, claims_now, MaxTreeDeletionsPerMessage,
                                  retired)
            /\ C!sweep_expired_trees(retired)
            /\ UNCHANGED creditVars
    BY DEF sweep_expired_trees
  <1>2. PICK blocks, gone : /\ blocks = {e[2] : e \in retired}
                            /\ gone = {b \in blocks : CreditTrees[b] # NoTree}
    OBVIOUS
  <1>3. /\ C!Idle
        /\ TreeExpiries' = TreeExpiries \ retired
        /\ ClaimedLeaves' = [b \in Block |-> IF b \in blocks THEN {} ELSE ClaimedLeaves[b]]
        /\ CreditTrees' = [b \in Block |-> IF b \in blocks THEN NoTree ELSE CreditTrees[b]]
        /\ PendingTreeDeletions' = C!queue_tree_deletions(PendingTreeDeletions, SetToSeq(gone))
        /\ UNCHANGED <<claims_now, mints, NextExpectedSequence, to_game, calls, accepted, missing>>
    BY <1>1, <1>2, SameOperators, TreeFacts DEF C!sweep_expired_trees
  <1>4. /\ GamePart(W) /\ Resting(W) /\ Filed(W) /\ DeletionsAgree(W)
        /\ W \in [Block -> Tree \union {NoTree}] /\ calls = <<>>
    BY <1>3, RestFacts
  <1>5. /\ \A t \in Tree \union {NoTree} : Closed(t) => Closed(t)'
        /\ Committed' = Committed
    BY <1>3, TimePasses
  <1>6. GamePart(W)' /\ dated' = dated /\ block' = block
    BY <1>1, <1>4, <1>5, GameUntouched DEF creditVars
  <1>7. DeletionsAgree(W)'
    BY <1>3, <1>4, <1>5, <1>6, DeletionsStay
  <1>8. Filed(W)'
    BY <1>3, <1>4, <1>6 DEF Filed
  <1>9. Clocks' /\ GapsInv'
    BY <1>3, <1>6 DEF Clocks, GapsInv, GapsReported, C!GapsReported
  <1>10. ASSUME NEW b \in blocks
         PROVE  b \in Block /\ b < block /\ Expired(W[b])
    <2>1. PICK e \in retired : b = e[2]
      BY <1>2
    <2>2. claims_now >= e[1] + TreeTtl
      BY <1>1 DEF drain_due_expiries
    <2>3. e[2] \in Block /\ e[2] < block /\ e = <<W[e[2]].timestamp, e[2]>>
      BY <1>4 DEF Filed
    <2> QED
      BY <2>1, <2>2, <2>3 DEF Expired
  <1>11. \A b \in Block : b \notin blocks => <<W[b].timestamp, b>> \notin retired
    BY <1>2
  <1>12. /\ StateTypes(CreditTrees, ClaimedLeaves, PendingTreeDeletions, mints)
         /\ Copies(W, CreditTrees, ClaimedLeaves)
         /\ Spent(W, CreditTrees, ClaimedLeaves, mints)
         /\ EarnedOnly(mints)
    BY <1>4 DEF Resting
  <1>13. \A b \in Block :
            /\ ClaimedLeaves'[b] = IF b \in blocks THEN {} ELSE ClaimedLeaves[b]
            /\ CreditTrees'[b] = IF b \in blocks THEN NoTree ELSE CreditTrees[b]
    BY <1>3
  <1>14. /\ PendingTreeDeletions' \in Seq(Block)
         /\ \A k \in DOMAIN PendingTreeDeletions' :
                \/ /\ k \in DOMAIN PendingTreeDeletions
                   /\ PendingTreeDeletions'[k] = PendingTreeDeletions[k]
                \/ PendingTreeDeletions'[k] \in gone
    <2>1. gone \in SUBSET Block /\ PendingTreeDeletions \in Seq(Block)
      BY <1>2, <1>10, <1>12 DEF StateTypes
    <2>2. SetToSeq(gone) \in Seq(gone)
      BY <2>1, BlocksListed
    <2> QED
      BY <1>3, <2>1, <2>2, QueueFacts
  <1>15. Resting(W)'
    <2>1. StateTypes(CreditTrees, ClaimedLeaves, PendingTreeDeletions, mints)'
      <3>1. CreditTrees' \in [Block -> Tree \union {NoTree}]
        BY <1>3, <1>12 DEF StateTypes
      <3>2. ClaimedLeaves' \in [Block -> SUBSET Int]
        BY <1>3, <1>12 DEF StateTypes
      <3> QED
        BY <1>3, <1>12, <1>14, <3>1, <3>2 DEF StateTypes
    <2>2. Copies(W, CreditTrees, ClaimedLeaves)'
      <3> SUFFICES ASSUME NEW b \in Block
                   PROVE  /\ CreditTrees'[b] # NoTree => CreditTrees'[b] = W[b]
                          /\ CreditTrees'[b] # NoTree \/ ClaimedLeaves'[b] # {} =>
                                /\ b < block' /\ W[b] # NoTree
                                /\ <<W[b].timestamp, b>> \in TreeExpiries'
                          /\ ClaimedLeaves'[b] \subseteq Leaves(W[b])
        BY DEF Copies
      <3>1. CASE b \in blocks
        BY <1>13, <3>1
      <3>2. CASE b \notin blocks
        BY <1>3, <1>6, <1>11, <1>12, <1>13, <3>2 DEF Copies
      <3> QED
        BY <3>1, <3>2
    <2>3. Spent(W, CreditTrees, ClaimedLeaves, mints)'
      <3> SUFFICES ASSUME NEW b \in Block, NEW i \in Leaves(W[b]), mints'[W[b].root[i]] = 1
                   PROVE  /\ b < block'
                          /\ i \in ClaimedLeaves'[b] \/ (Expired(W[b])' /\ CreditTrees'[b] = NoTree)
        BY DEF Spent
      <3>1. Expired(W[b])' = Expired(W[b])
        BY <1>3 DEF Expired
      <3>2. CASE b \in blocks
        BY <1>6, <1>10, <1>13, <3>1, <3>2
      <3>3. CASE b \notin blocks
        BY <1>3, <1>6, <1>12, <1>13, <3>1, <3>3 DEF Spent
      <3> QED
        BY <3>2, <3>3
    <2>4. EarnedOnly(mints)'
      BY <1>3, <1>6, <1>12 DEF EarnedOnly
    <2>5. \A b \in Block : \A i \in ClaimedLeaves'[b] : mints'[W[b].root[i]] = 1
      BY <1>3, <1>4, <1>13 DEF Resting
    <2>6. \A k \in DOMAIN PendingTreeDeletions' :
            PendingTreeDeletions'[k] < block' /\ Closed(W[PendingTreeDeletions[k]])'
      <3> SUFFICES ASSUME NEW k \in DOMAIN PendingTreeDeletions'
                   PROVE  PendingTreeDeletions'[k] < block' /\ Closed(W[PendingTreeDeletions[k]])'
        OBVIOUS
      <3>1. PICK d : d = PendingTreeDeletions'[k]
        OBVIOUS
      <3>2. d \in Block /\ W[d] \in Tree \union {NoTree}
        BY <1>4, <1>14, <3>1
      <3>3. d < block /\ Closed(W[d])
        BY <1>2, <1>4, <1>10, <1>14, <3>1 DEF Resting, Closed
      <3>4. Closed(W[d])'
        BY <1>5, <3>2, <3>3
      <3> QED
        BY <1>6, <3>1, <3>3, <3>4
    <2> QED
      BY <2>1, <2>2, <2>3, <2>4, <2>5, <2>6 DEF Resting
  <1>16. ClaimsAgree(W)'
    BY <1>3, <1>4, <1>15, RestsAfter
  <1> QED
    BY <1>5, <1>6, <1>7, <1>8, <1>9, <1>16 DEF WInv, GamePart

\* The queue of deletions is sent from its front: what is sent, and what is left, was in it.
LEMMA SendDeletionsKeeps ==
    ASSUME Clocks, GapsInv, NEW W, WInv(W), UNCHANGED creditVars, C!send_tree_deletions
    PROVE  WInv(W)' /\ Clocks' /\ GapsInv' /\ dated' = dated /\ Committed' = Committed
  <1>1. PICK m, sent : /\ m = Min({MaxTreeDeletionsPerMessage, Len(PendingTreeDeletions)})
                       /\ sent = SubSeq(PendingTreeDeletions, 1, m)
    OBVIOUS
  <1>2. /\ C!Idle
        /\ to_game' = Append(to_game, Range(sent))
        /\ PendingTreeDeletions' = SubSeq(PendingTreeDeletions, m + 1, Len(PendingTreeDeletions))
        /\ UNCHANGED <<claims_now, CreditTrees, ClaimedLeaves, mints, NextExpectedSequence,
                       TreeExpiries, calls, accepted, missing>>
    BY <1>1, SameOperators DEF C!send_tree_deletions
  <1>3. /\ GamePart(W) /\ Resting(W) /\ Filed(W) /\ DeletionsAgree(W)
        /\ W \in [Block -> Tree \union {NoTree}] /\ calls = <<>>
    BY <1>2, RestFacts
  <1>4. /\ \A t \in Tree \union {NoTree} : Closed(t) => Closed(t)'
        /\ Committed' = Committed
    BY <1>2, TimePasses
  <1>5. GamePart(W)' /\ dated' = dated /\ block' = block
    BY <1>3, <1>4, GameUntouched DEF creditVars
  <1>6. Filed(W)' /\ Clocks' /\ GapsInv'
    BY <1>2, <1>3, <1>5 DEF Filed, Clocks, GapsInv, GapsReported, C!GapsReported
  <1>7. PendingTreeDeletions \in Seq(Block)
    BY <1>3 DEF Resting, StateTypes
  <1>8. m \in Nat /\ m <= Len(PendingTreeDeletions)
    <2>1. Len(PendingTreeDeletions) \in Nat /\ MaxTreeDeletionsPerMessage \in Nat
      BY <1>7, RuntimesAgree
    <2> QED
      BY <1>1, <2>1, LeastOfTwo
  <1>9. PICK queue, left : queue = PendingTreeDeletions /\ left = PendingTreeDeletions'
    OBVIOUS
  <1>10. /\ left \in Seq(Block)
         /\ \A k \in DOMAIN left : \E j \in DOMAIN queue : left[k] = queue[j]
         /\ \A d \in Range(sent) : \E j \in DOMAIN queue : d = queue[j]
    <2>1. /\ queue \in Seq(Block) /\ m <= Len(queue) /\ left = SubSeq(queue, m + 1, Len(queue))
          /\ sent = SubSeq(queue, 1, m) /\ m \in Nat
      BY <1>1, <1>2, <1>7, <1>8, <1>9
    <2>2. left \in Seq(Block) /\ Len(left) = Len(queue) - m
          /\ \A k \in 1 .. Len(left) : left[k] = queue[k + m]
      BY <2>1
    <2>3. \A k \in DOMAIN left : k + m \in DOMAIN queue /\ left[k] = queue[k + m]
      <3>1. /\ Len(queue) \in Nat /\ DOMAIN queue = 1 .. Len(queue)
            /\ DOMAIN left = 1 .. Len(left)
        BY <2>1, <2>2
      <3>2. m \in Nat /\ Len(left) = Len(queue) - m
        BY <2>1, <2>2
      <3>3. \A k \in 1 .. Len(left) : k + m \in 1 .. Len(queue)
        BY <3>1, <3>2
      <3> QED
        BY <2>2, <3>1, <3>3
    <2>4. \A k \in DOMAIN sent : k \in DOMAIN queue /\ sent[k] = queue[k]
      BY <1>8, <2>1
    <2>5. \A d \in Range(sent) : \E k \in DOMAIN sent : d = sent[k]
      BY DEF Range
    <2> QED
      BY <2>2, <2>3, <2>4, <2>5
  <1>11. \A j \in DOMAIN queue : /\ queue[j] \in Block /\ W[queue[j]] \in Tree \union {NoTree}
                                 /\ queue[j] < block /\ Closed(W[queue[j]])
    BY <1>3, <1>7, <1>9 DEF Resting
  <1>12. Resting(W)'
    <2>1. (StateTypes(CreditTrees, ClaimedLeaves, PendingTreeDeletions, mints)
           /\ Copies(W, CreditTrees, ClaimedLeaves)
           /\ Spent(W, CreditTrees, ClaimedLeaves, mints) /\ EarnedOnly(mints))'
      BY <1>2, <1>3, <1>5, <1>9, <1>10
      DEF Resting, StateTypes, Copies, Spent, Expired, EarnedOnly
    <2>2. \A k \in DOMAIN PendingTreeDeletions' :
            PendingTreeDeletions'[k] < block' /\ Closed(W[PendingTreeDeletions[k]])'
      <3> SUFFICES ASSUME NEW k \in DOMAIN left
                   PROVE  left[k] < block' /\ Closed(W[PendingTreeDeletions[k]])'
        BY <1>9
      <3>1. PICK j \in DOMAIN queue : left[k] = queue[j]
        BY <1>10
      <3>2. PICK d : d = queue[j]
        OBVIOUS
      <3>3. d < block /\ Closed(W[d])'
        BY <1>4, <1>11, <3>2
      <3> QED
        BY <1>5, <1>9, <3>1, <3>2, <3>3
    <2> QED
      BY <1>2, <1>3, <2>1, <2>2 DEF Resting
  <1>13. ClaimsAgree(W)'
    BY <1>2, <1>3, <1>12, RestsAfter
  <1>14. DeletionsAgree(W)'
    <2>1. PICK X : to_game \in Seq(X)
      BY <1>3 DEF DeletionsAgree
    <2>2. /\ to_game' \in Seq(X \union {Range(sent)})
          /\ \A n \in DOMAIN to_game' : \/ n \in DOMAIN to_game /\ to_game'[n] = to_game[n]
                                        \/ to_game'[n] = Range(sent)
      BY <1>2, <2>1
    <2>3. \A b \in Range(sent) \intersect Block : b < block /\ Closed(W[b])
      BY <1>10, <1>11
    <2>4. \A n \in DOMAIN to_game : \A b \in to_game[n] \intersect Block : b < block /\ Closed(W[b])
      BY <1>3 DEF DeletionsAgree
    <2>5. \A n \in DOMAIN to_game' : \A b \in to_game'[n] \intersect Block :
                b < block /\ Closed(W[b])
      BY <2>2, <2>3, <2>4
    <2>6. \A b \in Block : W[b] \in Tree \union {NoTree}
      BY <1>3
    <2>7. \A b \in Block : Closed(W[b]) => Closed(W[b])'
      BY <1>4, <2>6
    <2> QED
      BY <1>5, <2>2, <2>5, <2>7 DEF DeletionsAgree
  <1> QED
    BY <1>4, <1>5, <1>6, <1>13, <1>14 DEF WInv, GamePart

\* A message arrives or is lost: the others stay.
LEMMA TailFacts ==
    ASSUME NEW S, NEW s \in Seq(S), s # <<>>, NEW t, t = Tail(s)
    PROVE  t \in Seq(S) /\ Head(s) \in S /\ Head(s) = s[1] /\ 1 \in DOMAIN s
           /\ \A n \in DOMAIN t : n + 1 \in DOMAIN s /\ t[n] = s[n + 1]
  OBVIOUS

\* Those behind the first message stay on their way.
LEMMA DeletionsLeft ==
    ASSUME NEW W, W \in [Block -> Tree \union {NoTree}], DeletionsAgree(W), to_game # <<>>,
           to_game' = Tail(to_game), block' = block,
           \A t \in Tree \union {NoTree} : Closed(t) => Closed(t)'
    PROVE  DeletionsAgree(W)'
  <1>1. PICK X : to_game \in Seq(X)
    BY DEF DeletionsAgree
  <1>2. /\ to_game' \in Seq(X)
        /\ \A n \in DOMAIN to_game' : n + 1 \in DOMAIN to_game /\ to_game'[n] = to_game[n + 1]
    BY <1>1, TailFacts
  <1>3. \A n \in DOMAIN to_game' : \A b \in to_game'[n] \intersect Block : b < block /\ Closed(W[b])
    BY <1>2 DEF DeletionsAgree
  <1>4. \A b \in Block : W[b] \in Tree \union {NoTree}
    OBVIOUS
  <1>5. \A b \in Block : Closed(W[b]) => Closed(W[b])'
    BY <1>4
  <1> QED
    BY <1>2, <1>3, <1>5 DEF DeletionsAgree

\* Deletions arrive at the game's chain or are lost on their way.
LEMMA DeletionsKeeps ==
    ASSUME Clocks, GapsInv, NEW W, WInv(W), deletions_arrive \/ deletions_lost
    PROVE  WInv(W)' /\ Clocks' /\ GapsInv' /\ dated' = dated /\ Committed' = Committed
  <1>1. /\ C!Idle /\ to_game # <<>> /\ to_game' = Tail(to_game)
        /\ UNCHANGED <<claims_now, CreditTrees, NextExpectedSequence, ClaimedLeaves, TreeExpiries,
                       PendingTreeDeletions, mints, calls, accepted, missing>>
    BY DEF deletions_arrive, deletions_lost
  <1>2. UNCHANGED <<block, awarding, awards, delivery>>
    BY DEF deletions_arrive, deletions_lost, receive_tree_deletions, creditVars
  <1>3. /\ GamePart(W) /\ Resting(W) /\ Filed(W) /\ DeletionsAgree(W)
        /\ W \in [Block -> Tree \union {NoTree}] /\ calls = <<>>
    BY <1>1, RestFacts
  <1>4. /\ \A t \in Tree \union {NoTree} : Closed(t) => Closed(t)'
        /\ Committed' = Committed
    BY <1>1, TimePasses
  <1>5. dated' = dated /\ block' = block
    BY <1>2 DEF awarding
  <1>6. RootsAgree(W)'
    <2>0. RootsAgree(W)
      BY <1>3 DEF GamePart
    <2>1. CASE deletions_arrive
      <3>1. PICK blocks : blocks = Head(to_game)
        OBVIOUS
      <3>2. /\ NftClaimCreditRoots' = WithoutRoots(blocks)
            /\ RootExpiries' = {e \in RootExpiries : e[2] \notin blocks}
        BY <2>1, <3>1 DEF deletions_arrive, receive_tree_deletions
      <3>3. \A b \in blocks \intersect Block : Closed(W[b])
        <4>1. PICK X : to_game \in Seq(X)
          BY <1>3 DEF DeletionsAgree
        <4>2. blocks = to_game[1] /\ 1 \in DOMAIN to_game
          BY <1>1, <3>1, <4>1, TailFacts
        <4> QED
          BY <1>3, <4>2 DEF DeletionsAgree
      <3>4. RootExpiries' \subseteq RootExpiries
        BY <3>2
      <3> QED
        BY <1>1, <1>2, <1>4, <2>0, <3>2, <3>3, <3>4, RootsRemoved DEF awards
    <2>2. CASE deletions_lost
      <3>1. UNCHANGED <<block, roots, awards>>
        BY <2>2 DEF deletions_lost, creditVars
      <3> QED
        BY <1>3, <1>4, <2>0, <3>1, RootsStay
    <2> QED
      BY <2>1, <2>2
  <1>7. GamePart(W)'
    <2>1. Awarded(W, Awarding)'
      BY <1>2, <1>3, AwardingKept DEF awards, GamePart
    <2>2. block' \in Nat /\ block <= block'
      BY <1>5 DEF Clocks
    <2>3. SentAgree(W)'
      BY <1>2, <1>3, <2>2, SentKept DEF GamePart
    <2> QED
      BY <1>6, <2>1, <2>3 DEF GamePart
  <1>8. DeletionsAgree(W)'
    BY <1>1, <1>3, <1>4, <1>5, DeletionsLeft
  <1>9. Filed(W)' /\ Clocks' /\ GapsInv'
    BY <1>1, <1>3, <1>5 DEF Filed, Clocks, GapsInv, GapsReported, C!GapsReported
  <1>10. ClaimsAgree(W)'
    <2>1. \A t : Closed(t)' = Closed(t)
      BY <1>1, <1>4 DEF Closed, Expired
    <2>2. Resting(W)'
      BY <1>1, <1>3, <1>5, <2>1
      DEF Resting, StateTypes, Copies, Spent, Expired, EarnedOnly
    <2> QED
      BY <1>1, <1>3, <2>2, RestsAfter
  <1> QED
    BY <1>4, <1>5, <1>7, <1>8, <1>9, <1>10 DEF WInv, GamePart

\* The numbers passed over are taken or reported, and none is both.
LEMMA NoteSequences ==
    ASSUME GapsInv, NEW n \in Nat, NEW S \in SUBSET (0 .. n), C!note_sequences(S)
    PROVE  GapsInv'
  <1>1. PICK new, next : /\ new = {s \in S : s >= NextExpectedSequence}
                         /\ next = IF new = {} THEN NextExpectedSequence ELSE Max(new) + 1
    OBVIOUS
  <1>2. /\ accepted' = accepted \union new
        /\ missing' = missing \union ((NextExpectedSequence .. next - 1) \ new)
        /\ NextExpectedSequence' = next
    BY <1>1, SameOperators DEF C!note_sequences
  <1>3. /\ NextExpectedSequence \in Nat
        /\ accepted \union missing = 0 .. NextExpectedSequence - 1
        /\ accepted \intersect missing = {}
    BY DEF GapsInv, GapsReported, C!GapsReported
  <1>4. /\ next \in Nat /\ next >= NextExpectedSequence
        /\ \A s \in new : s \in Nat /\ s >= NextExpectedSequence /\ s <= next - 1
    <2>1. CASE new = {}
      <3>1. next = NextExpectedSequence
        BY <1>1, <2>1
      <3>2. NextExpectedSequence \in Nat
        BY <1>3
      <3> QED
        BY <2>1, <3>1, <3>2
    <2>2. CASE new # {}
      <3>1. new \in SUBSET (0 .. n)
        BY <1>1
      <3>2. Max(new) \in new /\ \A s \in new : s <= Max(new)
        BY <2>2, <3>1, LastOne
      <3>3. PICK x : x = Max(new)
        OBVIOUS
      <3>8. next = Max(new) + 1
        BY <1>1, <2>2
      <3>4. x \in Nat /\ x >= NextExpectedSequence /\ next = x + 1
        BY <1>1, <3>1, <3>2, <3>3, <3>8
      <3>5. \A s \in new : s \in Nat /\ s >= NextExpectedSequence /\ s <= x
        BY <1>1, <3>1, <3>2, <3>3
      <3>6. NextExpectedSequence \in Nat
        BY <1>3
      <3>7. x + 1 \in Nat /\ x + 1 >= NextExpectedSequence /\ x + 1 - 1 = x
        BY <3>4, <3>6
      <3> QED
        BY <3>4, <3>5, <3>7
    <2> QED
      BY <2>1, <2>2
  <1>5. \A s : s \in accepted \union missing <=> s \in 0 .. NextExpectedSequence - 1
    BY <1>3
  <1>6. accepted' \union missing' = 0 .. next - 1
    <2>1. \A s : s \in accepted' \union missing' <=>
                    s \in 0 .. NextExpectedSequence - 1 \/ s \in NextExpectedSequence .. next - 1
      BY <1>2, <1>3, <1>4, <1>5
    <2>2. \A s : s \in 0 .. next - 1 <=>
                    s \in 0 .. NextExpectedSequence - 1 \/ s \in NextExpectedSequence .. next - 1
      BY <1>3, <1>4
    <2> QED
      BY <2>1, <2>2
  <1>7. accepted' \intersect missing' = {}
    <2>1. \A s \in accepted : s \in 0 .. NextExpectedSequence - 1 /\ s \notin missing
      BY <1>3, <1>5
    <2>2. \A s \in missing : s \in 0 .. NextExpectedSequence - 1
      BY <1>5
    <2>3. \A s \in accepted' : s \notin missing'
      BY <1>2, <1>3, <1>4, <2>1, <2>2
    <2> QED
      BY <2>3
  <1> QED
    BY <1>2, <1>4, <1>6, <1>7 DEF GapsInv, GapsReported, C!GapsReported

\* The batches that are left are still of trees that were built.
LEMMA BatchTaken ==
    ASSUME Clocks, NEW W, GamePart(W), Dequeue,
           \A t \in Tree \union {NoTree} : Closed(t) => Closed(t)'
    PROVE  /\ GamePart(W)' /\ dated' = dated /\ block' = block
           /\ Head(to_claims) \in SUBSET Update
           /\ \A u \in Head(to_claims) :
                /\ u.block < block /\ u.tree = W[u.block]
                /\ u.sequence \in -1 .. NextCreditTreeSequence - 1
           /\ NextCreditTreeSequence \in Nat
  <1>1. /\ to_claims # <<>> /\ to_claims' = Tail(to_claims)
        /\ UNCHANGED <<block, awarding, roots, awards, CreditTreeDeliveryQueue,
                       NextCreditTreeSequence, LastReplayTime>>
    BY DEF Dequeue
  <1>2. Awarded(W, Awarding) /\ RootsAgree(W) /\ SentAgree(W)
        /\ W \in [Block -> Tree \union {NoTree}]
    BY DEF GamePart, Awarded
  <1>3. /\ to_claims' \in Seq(SUBSET Update) /\ Head(to_claims) \in SUBSET Update
        /\ Head(to_claims) = to_claims[1] /\ 1 \in DOMAIN to_claims
        /\ \A n \in DOMAIN to_claims' :
                n + 1 \in DOMAIN to_claims /\ to_claims'[n] = to_claims[n + 1]
    BY <1>1, <1>2, TailFacts DEF SentAgree
  <1>4. SentAgree(W)'
    BY <1>1, <1>2, <1>3 DEF SentAgree
  <1>5. Awarded(W, Awarding)'
    BY <1>1, <1>2, AwardingKept DEF awards
  <1>6. RootsAgree(W)'
    BY <1>1, <1>2, RootsStay
  <1> QED
    BY <1>1, <1>2, <1>3, <1>4, <1>5, <1>6 DEF GamePart, SentAgree, awarding

\* A batch whose Transact fails is lost.
LEMMA TreesLostKeeps ==
    ASSUME Clocks, GapsInv, NEW W, WInv(W), trees_lost
    PROVE  WInv(W)' /\ Clocks' /\ GapsInv' /\ dated' = dated /\ Committed' = Committed
  <1>1. C!Idle /\ Dequeue /\ UNCHANGED claimsVars
    BY DEF trees_lost
  <1>2. UNCHANGED <<claims_now, CreditTrees, NextExpectedSequence, ClaimedLeaves, TreeExpiries,
                    PendingTreeDeletions, to_game, mints, calls, accepted, missing>>
    BY <1>1 DEF claimsVars
  <1>3. /\ GamePart(W) /\ Resting(W) /\ Filed(W) /\ DeletionsAgree(W)
        /\ W \in [Block -> Tree \union {NoTree}] /\ calls = <<>>
    BY <1>1, RestFacts
  <1>4. /\ \A t \in Tree \union {NoTree} : Closed(t) => Closed(t)'
        /\ Committed' = Committed
    BY <1>1, <1>2, TimePasses
  <1>5. GamePart(W)' /\ dated' = dated /\ block' = block
    BY <1>1, <1>3, <1>4, BatchTaken
  <1>6. DeletionsAgree(W)'
    BY <1>2, <1>3, <1>4, <1>5, DeletionsStay
  <1>7. Filed(W)' /\ Clocks' /\ GapsInv'
    BY <1>2, <1>3, <1>5 DEF Filed, Clocks, GapsInv, GapsReported, C!GapsReported
  <1>8. ClaimsAgree(W)'
    <2>1. \A t : Closed(t)' = Closed(t)
      BY <1>2, <1>4 DEF Closed, Expired
    <2>2. Resting(W)'
      BY <1>2, <1>3, <1>5, <2>1
      DEF Resting, StateTypes, Copies, Spent, Expired, EarnedOnly
    <2> QED
      BY <1>2, <1>3, <2>2, RestsAfter
  <1> QED
    BY <1>4, <1>5, <1>6, <1>7, <1>8 DEF WInv, GamePart

\* A tree is stored that was built, has not expired and whose spent leaves are still known.
LEMMA TreesArriveKeeps ==
    ASSUME Clocks, GapsInv, NEW W, WInv(W), trees_arrive
    PROVE  WInv(W)' /\ Clocks' /\ GapsInv' /\ dated' = dated /\ Committed' = Committed
  <1>1. PICK batch, taken, stored :
            /\ batch = Head(to_claims)
            /\ taken = {u \in batch : C!Accepted(u)}
            /\ stored = {u \in taken : CreditTrees[u.block] = NoTree}
    OBVIOUS
  <1>2. Dequeue /\ C!receive_credit_trees(batch)
    BY <1>1 DEF trees_arrive
  <1>3. /\ C!Idle
        /\ CreditTrees' = [b \in Block |->
                IF \E u \in stored : u.block = b
                THEN (CHOOSE u \in stored : u.block = b).tree ELSE CreditTrees[b]]
        /\ TreeExpiries' = TreeExpiries \union {<<u.tree.timestamp, u.block>> : u \in stored}
        /\ C!note_sequences({u.sequence : u \in taken} \ {-1})
        /\ UNCHANGED <<claims_now, ClaimedLeaves, PendingTreeDeletions, mints, to_game, calls>>
    BY <1>1, <1>2, TreeFacts DEF C!receive_credit_trees
  <1>4. /\ GamePart(W) /\ Resting(W) /\ Filed(W) /\ DeletionsAgree(W)
        /\ W \in [Block -> Tree \union {NoTree}] /\ calls = <<>>
    BY <1>3, RestFacts
  <1>5. /\ \A t \in Tree \union {NoTree} : Closed(t) => Closed(t)'
        /\ Committed' = Committed
    BY <1>3, TimePasses
  <1>6. /\ GamePart(W)' /\ dated' = dated /\ block' = block
        /\ batch \in SUBSET Update
        /\ \A u \in batch :
                /\ u.block < block /\ u.tree = W[u.block]
                /\ u.sequence \in -1 .. NextCreditTreeSequence - 1
        /\ NextCreditTreeSequence \in Nat
    BY <1>1, <1>2, <1>4, <1>5, BatchTaken
  <1>7. DeletionsAgree(W)'
    BY <1>3, <1>4, <1>5, <1>6, DeletionsStay
  <1>8. GapsInv'
    <2>1. PICK S : S = {u.sequence : u \in taken} \ {-1}
      OBVIOUS
    <2>2. S \in SUBSET (0 .. NextCreditTreeSequence)
      BY <1>1, <1>6, <2>1
    <2> QED
      BY <1>3, <1>6, <2>1, <2>2, NoteSequences
  <1>9. Clocks'
    BY <1>3, <1>6 DEF Clocks
  <1>10. ASSUME NEW u \in stored
         PROVE  /\ u.block \in Block /\ u.block < block /\ u.tree = W[u.block]
                /\ W[u.block] \in Tree /\ W[u.block] # NoTree
                /\ CreditTrees[u.block] = NoTree /\ ~ Expired(W[u.block])
    <2>1. u \in batch /\ C!Accepted(u) /\ CreditTrees[u.block] = NoTree
      BY <1>1
    <2>2. u \in Update
      BY <1>6, <2>1
    <2>3. u.block \in Block /\ u.tree \in Tree
      BY <2>2 DEF Update
    <2>4. ~ C!tree_has_expired(u.tree)
      BY <2>1 DEF C!Accepted
    <2> QED
      BY <1>6, <2>1, <2>3, <2>4, TreeFacts DEF C!tree_has_expired, Expired
  <1>11. \A b \in Block : \/ /\ \E u \in stored : u.block = b
                             /\ CreditTrees'[b] = W[b]
                          \/ CreditTrees'[b] = CreditTrees[b]
    <2> SUFFICES ASSUME NEW b \in Block, NEW u \in stored, u.block = b
                 PROVE  CreditTrees'[b] = W[b]
      BY <1>3
    <2>1. PICK v : v = CHOOSE x \in stored : x.block = b
      OBVIOUS
    <2>2. v \in stored /\ v.block = b
      BY <2>1
    <2> QED
      BY <1>3, <1>10, <2>1, <2>2
  <1>12. Filed(W)'
    BY <1>3, <1>4, <1>6, <1>10 DEF Filed
  <1>13. /\ StateTypes(CreditTrees, ClaimedLeaves, PendingTreeDeletions, mints)
         /\ Copies(W, CreditTrees, ClaimedLeaves)
         /\ Spent(W, CreditTrees, ClaimedLeaves, mints)
         /\ EarnedOnly(mints)
    BY <1>4 DEF Resting
  <1>14. Resting(W)'
    <2>1. StateTypes(CreditTrees, ClaimedLeaves, PendingTreeDeletions, mints)'
      <3>1. \A b \in Block : CreditTrees'[b] \in Tree \union {NoTree}
        BY <1>4, <1>11, <1>13 DEF StateTypes
      <3>2. CreditTrees' \in [Block -> Tree \union {NoTree}]
        BY <1>3, <3>1
      <3> QED
        BY <1>3, <1>13, <3>2 DEF StateTypes
    <2>2. Copies(W, CreditTrees, ClaimedLeaves)'
      <3> SUFFICES ASSUME NEW b \in Block
                   PROVE  /\ CreditTrees'[b] # NoTree => CreditTrees'[b] = W[b]
                          /\ CreditTrees'[b] # NoTree \/ ClaimedLeaves[b] # {} =>
                                /\ b < block /\ W[b] # NoTree
                                /\ <<W[b].timestamp, b>> \in TreeExpiries'
                          /\ ClaimedLeaves[b] \subseteq Leaves(W[b])
        BY <1>3, <1>6 DEF Copies
      <3>1. CASE CreditTrees'[b] = CreditTrees[b]
        BY <1>3, <1>13, <3>1 DEF Copies
      <3>2. ASSUME NEW u \in stored, u.block = b, CreditTrees'[b] = W[b]
            PROVE  b < block /\ W[b] # NoTree /\ <<W[b].timestamp, b>> \in TreeExpiries'
        <4>1. <<u.tree.timestamp, u.block>> \in TreeExpiries'
          BY <1>3
        <4> QED
          BY <1>10, <3>2, <4>1
      <3> QED
        BY <1>11, <1>13, <3>1, <3>2 DEF Copies
    <2>3. Spent(W, CreditTrees, ClaimedLeaves, mints)'
      <3> SUFFICES ASSUME NEW b \in Block, NEW i \in Leaves(W[b]), mints[W[b].root[i]] = 1
                   PROVE  /\ b < block
                          /\ i \in ClaimedLeaves[b] \/ (Expired(W[b]) /\ CreditTrees'[b] = NoTree)
        BY <1>3, <1>6 DEF Spent, Expired
      <3>1. b < block /\ (i \in ClaimedLeaves[b] \/ (Expired(W[b]) /\ CreditTrees[b] = NoTree))
        BY <1>13 DEF Spent
      <3> QED
        BY <1>10, <1>11, <3>1
    <2>4. EarnedOnly(mints)'
      BY <1>3, <1>6, <1>13 DEF EarnedOnly
    <2>5. \A t : Closed(t)' = Closed(t)
      BY <1>3, <1>5 DEF Closed, Expired
    <2> QED
      BY <1>3, <1>4, <1>6, <2>1, <2>2, <2>3, <2>4, <2>5 DEF Resting
  <1>15. ClaimsAgree(W)'
    BY <1>3, <1>4, <1>14, RestsAfter
  <1> QED
    BY <1>5, <1>6, <1>7, <1>8, <1>9, <1>12, <1>15 DEF WInv, GamePart

-----------------------------------------------------------------------------
(* The theorems *)

\* At the start nothing was awarded: the work of all time is empty.
LEMMA InitHolds ==
    ASSUME Init
    PROVE  Inv
  <1> DEFINE W == [b \in Block |-> NoTree]
  <1>0. CreditsInit /\ C!ClaimsInit
    BY DEF Init
  <1>a. /\ block = 0 /\ GameIndex = 0 /\ AwardedNftClaimCredits = {}
        /\ NftClaimCreditAwards = [b \in Block |-> <<>>]
        /\ CreditBuffers = [b \in Block |-> NoBuffer] /\ CreditBufferCursor = 0
        /\ NftClaimCreditRoots = [b \in Block |-> NoTree]
        /\ RootExpiries = {} /\ NftClaimCreditAwardExpiries = {}
        /\ CreditTreeDeliveryQueue = <<>> /\ NextCreditTreeSequence = 0 /\ to_claims = <<>>
        /\ dated = [c \in Credit |-> Never]
    BY <1>0 DEF CreditsInit
  <1>b. /\ claims_now = 0 /\ CreditTrees = [b \in Block |-> NoTree] /\ NextExpectedSequence = 0
        /\ ClaimedLeaves = [b \in Block |-> {}] /\ TreeExpiries = {}
        /\ PendingTreeDeletions = <<>> /\ to_game = <<>> /\ mints = [c \in Credit |-> 0]
        /\ calls = <<>> /\ accepted = {} /\ missing = {}
    BY <1>0, TreeFacts DEF C!ClaimsInit
  <1>1. W \in [Block -> Tree \union {NoTree}] /\ \A b \in Block : W[b] = NoTree /\ Leaves(W[b]) = {}
    BY TreeFacts
  <1> HIDE DEF W
  <1>2. Clocks
    BY <1>a, <1>b, CreditsAssumption, RuntimesAgree DEF Clocks
  <1>3. GapsInv
    BY <1>b DEF GapsInv, GapsReported, C!GapsReported
  <1>4. Awarded(W, Awarding)
    <2>1. /\ Awarding.awards = NftClaimCreditAwards /\ Awarding.buffers = CreditBuffers
          /\ Awarding.cursor = CreditBufferCursor /\ Awarding.dated = dated
          /\ Awarding.awarded = AwardedNftClaimCredits /\ AwardingFields(Awarding)
      BY DEF Awarding, AwardingFields
    <2>2. AwardingTypes(Awarding)
      BY <1>a, <2>1 DEF AwardingTypes
    <2>3. Buffered(W, Awarding)
      BY <1>1, <1>a, <2>1 DEF Buffered
    <2>4. OneLeaf(W, Awarding.dated)
      BY <1>1, <1>a, <2>1 DEF OneLeaf
    <2>5. Marked(Awarding)
      BY <1>a, <2>1 DEF Marked
    <2> QED
      BY <1>1, <2>2, <2>3, <2>4, <2>5 DEF Awarded
  <1>5. RootsAgree(W)
    BY <1>1, <1>a DEF RootsAgree
  <1>6. SentAgree(W)
    BY <1>a DEF SentAgree
  <1>7. ClaimsAgree(W)
    <2>1. Len(calls) = 0 /\ DOMAIN calls = {} /\ calls \in Seq({})
      BY <1>b
    <2>2. StateTypes(CreditTrees, ClaimedLeaves, PendingTreeDeletions, mints)
      BY <1>b DEF StateTypes
    <2>3. Copies(W, CreditTrees, ClaimedLeaves) /\ Spent(W, CreditTrees, ClaimedLeaves, mints)
      BY <1>1, <1>b DEF Copies, Spent
    <2>4. EarnedOnly(mints)
      BY <1>b DEF EarnedOnly
    <2>5. Answered(W, 0, ClaimedLeaves, mints)
      BY <1>b DEF Answered
    <2>6. Reported(W, 0, PendingTreeDeletions, mints)
      BY <1>b DEF Reported
    <2>7. State(W, Len(calls), CreditTrees, ClaimedLeaves, PendingTreeDeletions, mints)
      BY <2>1, <2>2, <2>3, <2>4, <2>5, <2>6 DEF State
    <2>8. CallsInv(W)
      BY <2>1 DEF CallsInv
    <2> QED
      BY <2>7, <2>8 DEF ClaimsAgree
  <1>8. Filed(W)
    BY <1>b DEF Filed
  <1>9. DeletionsAgree(W)
    <2>1. to_game \in Seq({}) /\ DOMAIN to_game = {}
      BY <1>b
    <2> QED
      BY <2>1 DEF DeletionsAgree
  <1>10. WInv(W)
    BY <1>4, <1>5, <1>6, <1>7, <1>8, <1>9 DEF WInv
  <1> QED
    BY <1>2, <1>3, <1>10 DEF Inv

\* A step awards or mints for good, never both, and takes neither back.
Forward ==
    \/ /\ Committed' = Committed
       /\ \A c \in Credit : dated[c] # Never => dated'[c] # Never
    \/ /\ dated' = dated
       /\ \A c \in Credit : Committed[c] = 1 => Committed'[c] = 1

\* Every step keeps the invariant.
LEMMA StepKeeps ==
    ASSUME Inv, [Next]_vars
    PROVE  Inv' /\ Forward
  <1>1. PICK W : WInv(W)
    BY DEF Inv
  <1>2. Clocks /\ GapsInv
    BY DEF Inv
  <1>3. CASE Game
    BY <1>1, <1>2, <1>3, GameKeeps DEF Forward
  <1>4. CASE Claims
    <2>1. C!ClaimsNext /\ UNCHANGED creditVars
      BY <1>4 DEF Claims
    <2>2. CASE C!send_tree_deletions
      BY <1>1, <1>2, <2>1, <2>2, SendDeletionsKeeps DEF Inv, Forward
    <2>3. CASE ~ C!send_tree_deletions
      <3>1. /\ ClaimsAgree(W)' /\ Within
            /\ \A c \in Credit : Committed[c] = 1 => Committed'[c] = 1
        <4>1. CASE C!claim_minted \/ C!claim_failed
          BY <1>1, <1>2, <2>1, <4>1, AnswerKeeps
        <4>2. ASSUME NEW b \in Block, NEW i, C!claim(b, i)
              PROVE  /\ ClaimsAgree(W)' /\ Within
                     /\ \A c \in Credit : Committed[c] = 1 => Committed'[c] = 1
          BY <1>1, <1>2, <2>1, <4>2, ClaimKeeps
        <4>3. ASSUME NEW b \in Block, NEW i, C!claim_contract(b, i)
              PROVE  /\ ClaimsAgree(W)' /\ Within
                     /\ \A c \in Credit : Committed[c] = 1 => Committed'[c] = 1
          BY <1>1, <1>2, <2>1, <4>3, ContractKeeps
        <4> QED
          BY <2>1, <2>3, <4>1, <4>2, <4>3 DEF C!ClaimsNext
      <3> QED
        BY <1>1, <1>2, <3>1, WithinKeeps DEF Forward
    <2> QED
      BY <2>2, <2>3
  <1>5. CASE clock
    BY <1>1, <1>2, <1>5, ClockKeeps DEF Inv, Forward
  <1>6. CASE sweep_expired_trees
    BY <1>1, <1>2, <1>6, SweepTreesKeeps DEF Inv, Forward
  <1>7. CASE trees_arrive
    BY <1>1, <1>2, <1>7, TreesArriveKeeps DEF Inv, Forward
  <1>8. CASE trees_lost
    BY <1>1, <1>2, <1>8, TreesLostKeeps DEF Inv, Forward
  <1>9. CASE deletions_arrive \/ deletions_lost
    BY <1>1, <1>2, <1>9, DeletionsKeeps DEF Inv, Forward
  <1>10. CASE UNCHANGED vars
    <2>1. UNCHANGED creditVars /\ UNCHANGED claimsVars
      BY <1>10 DEF vars
    <2>2. UNCHANGED <<block, dated>>
      BY <2>1 DEF creditVars, awarding
    <2>3. Within /\ calls' = calls
      BY <2>1 DEF Within, claimsVars
    <2>4. Committed' = Committed
      BY <2>1 DEF Committed, claimsVars
    <2>5. ClaimsAgree(W)'
      <3>1. ClaimsAgree(W) /\ CallsInv(W)
        BY <1>1 DEF WInv, ClaimsAgree
      <3>2. PICK n : n = Len(calls)
        OBVIOUS
      <3>3. /\ n \in Nat /\ DOMAIN calls = 1 .. n
            /\ \A k \in 1 .. n :
                /\ calls[k].block \in Block /\ calls[k].tree = W[calls[k].block]
                /\ calls[k].leaf \in Leaves(calls[k].tree) /\ Before(W, k)
                /\ \A c \in Credit : /\ calls[1].before[4][c] <= calls[k].before[4][c]
                                     /\ calls[1].before[4][c] <= mints[c]
            /\ \A j, k \in 1 .. n :
                calls[j].block = calls[k].block /\ calls[j].leaf = calls[k].leaf => j = k
        BY <3>1, <3>2, CallFacts
      <3>4. /\ UNCHANGED <<block, claims_now, dated, TreeExpiries>> /\ calls' = calls
            /\ UNCHANGED <<CreditTrees, ClaimedLeaves, PendingTreeDeletions, mints>>
        BY <2>1, <2>2 DEF claimsVars
      <3>5. State(W, n, CreditTrees, ClaimedLeaves, PendingTreeDeletions, mints)'
        <4>1. State(W, n, CreditTrees', ClaimedLeaves', PendingTreeDeletions', mints')
          BY <3>1, <3>2, <3>4 DEF ClaimsAgree
        <4>2. \A k \in 1 .. n : calls'[k] = calls[k]
          BY <3>4
        <4> QED
          BY <3>3, <3>4, <4>1, <4>2, NowMoves
      <3>6. ASSUME NEW k \in 1 .. n
            PROVE  Before(W, k)'
        <4>1. State(W, k - 1, calls[k].before[1], calls[k].before[2], calls[k].before[3],
                    calls[k].before[4])
          BY <3>3 DEF Before
        <4>2. k \in Nat /\ k >= 1 /\ \A j \in 1 .. k - 1 : calls'[j] = calls[j]
          BY <3>3, <3>4
        <4> QED
          BY <3>4, <4>1, <4>2, BeforeMoves
      <3>7. \E X : calls' \in Seq(X)
        BY <3>1, <3>4 DEF CallsInv
      <3>8. CallsInv(W)'
        BY <3>3, <3>4, <3>6, <3>7 DEF CallsInv
      <3> QED
        BY <3>2, <3>4, <3>5, <3>8 DEF ClaimsAgree
    <2> QED
      BY <1>1, <1>2, <2>2, <2>3, <2>4, <2>5, WithinKeeps DEF Forward
  <1> QED
    BY <1>3, <1>4, <1>5, <1>6, <1>7, <1>8, <1>9, <1>10 DEF Next

\* Every reachable state agrees with one history of trees: whatever the channels lose, whatever
\* is replayed, swept, claimed within a claim or undone (nft-credits and nft-claims together).
THEOREM Invariant ==
    Spec => []Inv
  <1>1. Init => Inv
    BY InitHolds
  <1>2. Inv /\ [Next]_vars => Inv'
    BY StepKeeps
  <1> QED
    BY <1>1, <1>2, PTL DEF Spec

\* receive_credit_trees and note_sequences: a sequence number passed over was taken or is named
\* as missing, never both, for every order, loss and replay of the batches.
THEOREM GapsCorrect ==
    Spec => []GapsReported
  <1>1. Inv => GapsReported
    BY DEF Inv, GapsInv
  <1> QED
    BY <1>1, Invariant, PTL

\* The leaf of a credit is in a buffer, under a root, or closed.
LEMMA OpenClaims ==
    ASSUME Inv
    PROVE  OpenClaimsKept
  <1> SUFFICES ASSUME C!Idle, NEW c \in Credit, dated[c] # Never
               PROVE  \/ mints[c] > 0
                      \/ \E b \in Block :
                            \/ /\ CreditBuffers[b] # NoBuffer
                               /\ c \in Range(NftClaimCreditAwards[b])
                            \/ c \in Range(NftClaimCreditRoots[b].root)
                      \/ claims_now >= dated[c] + TreeTtl
    BY DEF OpenClaimsKept, Earned
  <1>1. PICK W : WInv(W)
    BY DEF Inv
  <1>2. /\ Buffered(W, Awarding) /\ OneLeaf(W, dated) /\ RootsAgree(W)
        /\ W \in [Block -> Tree \union {NoTree}]
    BY <1>1, AwardingFacts DEF WInv, Awarded
  <1>3. PICK b \in Block : \E i \in Leaves(W[b]) : W[b].root[i] = c
    BY <1>2 DEF OneLeaf
  <1>4. PICK i \in Leaves(W[b]) : W[b].root[i] = c
    BY <1>3
  <1>5. c \in Range(W[b].root) /\ dated[c] = W[b].timestamp
    BY <1>2, <1>4 DEF Range, Leaves, OneLeaf
  <1>6. CASE b >= block
    <2>1. W[b] # NoTree
      BY <1>4, TreeFacts
    <2>2. /\ Awarding.buffers = CreditBuffers /\ Awarding.awards = NftClaimCreditAwards
      BY DEF Awarding
    <2>3. CreditBuffers[b] # NoBuffer
      BY <1>2, <1>6, <2>1, <2>2 DEF Buffered
    <2>4. W[b] = [game |-> CreditBuffers[b].game, root |-> NftClaimCreditAwards[b],
                  timestamp |-> CreditBuffers[b].timestamp]
      BY <1>2, <1>6, <2>2, <2>3 DEF Buffered
    <2>5. W[b].root = NftClaimCreditAwards[b]
      BY <2>4
    <2> QED
      BY <1>5, <2>3, <2>5
  <1>7. CASE b < block
    <2>1. NftClaimCreditRoots[b] = W[b] \/ Closed(W[b])
      BY <1>2, <1>7 DEF RootsAgree
    <2>2. Committed = mints
      BY DEF Committed, C!Idle
    <2>3. CASE NftClaimCreditRoots[b] = W[b]
      BY <1>5, <2>3
    <2>4. CASE Closed(W[b])
      BY <1>4, <1>5, <2>2, <2>4 DEF Closed, Expired
    <2> QED
      BY <2>1, <2>3, <2>4
  <1>8. b \in Nat /\ block \in Nat
    <2>1. Block \subseteq Nat
      BY BlockFacts
    <2>2. block \in 0 .. MaxBlock
      BY DEF Inv, Clocks
    <2> QED
      BY <2>1, <2>2
  <1>9. b >= block \/ b < block
    BY <1>8
  <1> QED
    BY <1>6, <1>7, <1>9

\* Trees and spent leaves are filed under the time of their tree.
LEMMA FiledClaims ==
    ASSUME Inv
    PROVE  ClaimsFiled
  <1> SUFFICES ASSUME C!Idle
               PROVE  C!ClaimsFiled
    BY DEF ClaimsFiled
  <1>1. PICK W : WInv(W)
    BY DEF Inv
  <1>2. Resting(W) /\ Filed(W)
    BY <1>1, RestFacts
  <1>3. Copies(W, CreditTrees, ClaimedLeaves)
    BY <1>2 DEF Resting
  <1>4. \A b \in Block :
            /\ ClaimedLeaves[b] # {} => \E e \in TreeExpiries : e[2] = b
            /\ CreditTrees[b] # NoTree => <<CreditTrees[b].timestamp, b>> \in TreeExpiries
            /\ CreditTrees[b] # NoTree => ClaimedLeaves[b] \subseteq DOMAIN CreditTrees[b].root
    BY <1>3 DEF Copies, Leaves
  <1>5. \A e, f \in TreeExpiries : e[2] = f[2] => e = f
    BY <1>2 DEF Filed
  <1> QED
    BY <1>4, <1>5, TreeFacts DEF C!ClaimsFiled

\* The removals of both pallets, their two sweeps, the deletions sent back and the clocks that
\* differ never take the last copy of a claim that is open, and what nft-claims holds of a tree
\* is filed for its sweep.
THEOREM ClaimsCorrect ==
    Spec => []ClaimsKept
  <1>1. Inv => ClaimsKept
    BY OpenClaims, FiledClaims DEF ClaimsKept
  <1> QED
    BY <1>1, Invariant, PTL

\* The two pallets implement CreditLedger: a credit is minted at most once and only when it was
\* earned, although the minter contract may claim again or fail while its claim is under way.
THEOREM LedgerCorrect ==
    Spec => LedgerKept
  <1> DEFINE Facts == /\ Committed \in [Credit -> 0 .. 1]
                      /\ \A c \in Credit : Committed[c] = 1 => dated[c] # Never
  <1>1. Init => Ledger!Init
    <2> SUFFICES ASSUME Init
                 PROVE  Ledger!Init
      OBVIOUS
    <2>1. /\ dated = [c \in Credit |-> Never] /\ mints = [c \in Credit |-> 0] /\ calls = <<>>
      BY DEF Init, CreditsInit, C!ClaimsInit
    <2> QED
      BY <2>1 DEF Ledger!Init, Earned
  <1>2. Inv => Facts
    BY CommittedFacts DEF Inv, WInv
  <1>3. Facts /\ Facts' /\ Forward =>
            [Ledger!Next]_<<Earned, IF calls = <<>> THEN mints ELSE calls[1].before[4]>>
    <2> SUFFICES ASSUME Facts, Facts', Forward
                 PROVE  Ledger!Next \/ (Earned' = Earned /\ Committed' = Committed)
      BY DEF Committed
    <2>1. PICK was, is : was = Committed /\ is = Committed'
      OBVIOUS
    <2>2. /\ was \in [Credit -> 0 .. 1] /\ is \in [Credit -> 0 .. 1]
          /\ \A c \in Credit : is[c] = 1 => dated'[c] # Never
      BY <2>1
    <2>3. CASE /\ Committed' = Committed
               /\ \A c \in Credit : dated[c] # Never => dated'[c] # Never
      <3>1. PICK new : new = Earned' \ Earned
        OBVIOUS
      <3>2. new \in SUBSET Credit /\ Earned' = Earned \union new /\ new \intersect Earned = {}
        BY <2>3, <3>1 DEF Earned
      <3>3. CASE new = {}
        BY <2>3, <3>2, <3>3
      <3>4. CASE new # {}
        <4>1. Ledger!Earn(new)
          BY <2>3, <3>2, <3>4 DEF Ledger!Earn, Committed
        <4> QED
          BY <3>2, <4>1 DEF Ledger!Next
      <3> QED
        BY <3>3, <3>4
    <2>4. CASE /\ dated' = dated
               /\ \A c \in Credit : Committed[c] = 1 => Committed'[c] = 1
      <3>1. Earned' = Earned
        BY <2>4 DEF Earned
      <3>2. PICK credits : credits = {c \in Credit : is[c] # was[c]}
        OBVIOUS
      <3>3. \A c \in Credit : was[c] \in 0 .. 1 /\ is[c] \in 0 .. 1 /\ (was[c] = 1 => is[c] = 1)
        BY <2>1, <2>2, <2>4
      <3>4. \A c \in credits : was[c] = 0 /\ is[c] = 1 /\ dated[c] # Never
        BY <2>2, <2>4, <3>2, <3>3
      <3>5. credits \in SUBSET Credit /\ credits \subseteq Earned
        BY <3>2, <3>4 DEF Earned
      <3>6. is = [c \in Credit |-> IF c \in credits THEN 1 ELSE was[c]]
        BY <2>2, <3>2, <3>4
      <3>7. CASE credits = {}
        <4>1. is = was
          BY <2>2, <3>2, <3>7
        <4> QED
          BY <2>1, <3>1, <4>1
      <3>8. CASE credits # {}
        <4>1. Ledger!Mint(credits)
          BY <2>1, <3>1, <3>4, <3>5, <3>6, <3>8 DEF Ledger!Mint, Committed
        <4> QED
          BY <3>5, <4>1 DEF Ledger!Next
      <3> QED
        BY <3>7, <3>8
    <2> QED
      BY <2>3, <2>4 DEF Forward
  <1>4. Inv /\ [Next]_vars => Inv' /\ Forward
    BY StepKeeps
  <1>5. Init => Inv
    BY InitHolds
  <1> HIDE DEF Facts
  <1> QED
    BY <1>1, <1>2, <1>3, <1>4, <1>5, PTL DEF Spec, LedgerKept, Ledger!Spec
=============================================================================

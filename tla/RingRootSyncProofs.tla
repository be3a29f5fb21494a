-------------------------- MODULE RingRootSyncProofs --------------------------
(* What holds of the two chains together, for every number of collections, rings, *)
(* revisions and messages.                                                         *)
EXTENDS RingRootSync, SequenceTheorems, FiniteSetTheorems, TLAPS

-----------------------------------------------------------------------------
(* Sequences of whatever: neither the messages nor the records are typed *)

IsSeq(s) == Len(s) \in Nat /\ s = [i \in 1 .. Len(s) |-> s[i]]

Elements(s) == {s[i] : i \in 1 .. Len(s)}

LEMMA IsSeqType ==
    ASSUME NEW s, IsSeq(s), NEW E, \A i \in 1 .. Len(s) : s[i] \in E
    PROVE  s \in Seq(E)
  <1>1. s \in [1 .. Len(s) -> E]
    BY DEF IsSeq
  <1> QED
    BY <1>1, SeqDef DEF IsSeq

LEMMA TypeIsSeq == ASSUME NEW E, NEW s \in Seq(E) PROVE IsSeq(s)
  BY LenProperties DEF IsSeq

LEMMA EmptyIsSeq == IsSeq(<<>>)
  BY EmptySeq, TypeIsSeq

LEMMA SequenceFacts ==
    ASSUME NEW s, IsSeq(s), NEW t, IsSeq(t)
    PROVE  /\ IsSeq(s \o t)
           /\ Len(s \o t) = Len(s) + Len(t)
           /\ \A i \in 1 .. Len(s) : (s \o t)[i] = s[i]
           /\ \A i \in 1 .. Len(s \o t) : i > Len(s) => (s \o t)[i] = t[i - Len(s)]
  <1> DEFINE E == Elements(s) \union Elements(t)
  <1>1. s \in Seq(E) /\ t \in Seq(E)
    BY IsSeqType DEF Elements
  <1> HIDE DEF E
  <1>2. /\ s \o t \in Seq(E)
        /\ Len(s \o t) = Len(s) + Len(t)
        /\ \A i \in 1 .. Len(s) + Len(t) :
                (s \o t)[i] = IF i <= Len(s) THEN s[i] ELSE t[i - Len(s)]
    BY <1>1, ConcatProperties
  <1>3. IsSeq(s \o t)
    BY <1>2, TypeIsSeq
  <1>4. Len(s) \in Nat /\ Len(t) \in Nat
    BY DEF IsSeq
  <1> QED
    BY <1>2, <1>3, <1>4

LEMMA AppendFacts ==
    ASSUME NEW s, IsSeq(s), NEW e
    PROVE  /\ IsSeq(Append(s, e))
           /\ Append(s, e) # <<>>
           /\ Len(Append(s, e)) = Len(s) + 1
           /\ \A i \in 1 .. Len(s) : Append(s, e)[i] = s[i]
           /\ Append(s, e)[Len(s) + 1] = e
  <1> DEFINE E == Elements(s) \union {e}
  <1>1. s \in Seq(E) /\ e \in E
    BY IsSeqType DEF Elements
  <1> HIDE DEF E
  <1>2. /\ Append(s, e) \in Seq(E)
        /\ Append(s, e) # <<>>
        /\ Len(Append(s, e)) = Len(s) + 1
        /\ \A i \in 1 .. Len(s) : Append(s, e)[i] = s[i]
        /\ Append(s, e)[Len(s) + 1] = e
    BY <1>1, AppendProperties
  <1>3. IsSeq(Append(s, e))
    BY <1>2, TypeIsSeq
  <1> QED
    BY <1>2, <1>3

LEMMA TailFacts ==
    ASSUME NEW s, IsSeq(s), s # <<>>
    PROVE  /\ IsSeq(Tail(s))
           /\ Len(s) >= 1
           /\ Head(s) = s[1]
           /\ Len(Tail(s)) = Len(s) - 1
           /\ \A i \in 1 .. Len(Tail(s)) : Tail(s)[i] = s[i + 1]
  <1> DEFINE E == Elements(s)
  <1>1. s \in Seq(E)
    BY IsSeqType DEF Elements
  <1> HIDE DEF E
  <1>2. Len(s) \in Nat \ {0}
    BY <1>1, EmptySeq
  <1>3. /\ Tail(s) \in Seq(E)
        /\ Len(Tail(s)) = Len(s) - 1
        /\ \A i \in 1 .. Len(Tail(s)) : Tail(s)[i] = s[i + 1]
    BY <1>1, HeadTailProperties
  <1>4. IsSeq(Tail(s))
    BY <1>3, TypeIsSeq
  <1>5. Head(s) = s[1]
    BY <1>1
  <1> QED
    BY <1>2, <1>3, <1>4, <1>5

-----------------------------------------------------------------------------
(* What a batch does to a window *)

Last(window) == IF window = <<>> THEN NoRoot ELSE window[Len(window)].revision

IsWindow(window) ==
    IsSeq(window) /\ \A i \in 1 .. Len(window) : window[i].revision \in Revision

LEMMA LastType ==
    ASSUME NEW window, IsWindow(window)
    PROVE  /\ Last(window) \in Revision \union {NoRoot}
           /\ Last(window) = NoRoot <=> window = <<>>
  <1>1. CASE window = <<>>
    BY <1>1 DEF Last
  <1>2. CASE window # <<>>
    <2>1. Len(window) \in 1 .. Len(window)
      BY <1>2, TailFacts DEF IsWindow, IsSeq
    <2> QED
      BY <1>2, <2>1, ContentAssumption DEF IsWindow, Last
  <1> QED
    BY <1>1, <1>2

\* A window takes the revision as its newest, or has it already.
LEMMA WindowAfterFacts ==
    ASSUME NEW window, IsWindow(window), NEW v \in Revision, NEW t
    PROVE  /\ IsWindow(S!WindowAfter(window, v, t))
           /\ Last(S!WindowAfter(window, v, t)) \in {Last(window), v}
  <1> DEFINE kept == IF Len(window) >= MaxRecentRootsPerRing THEN Tail(window) ELSE window
             record == [revision |-> v, source_time |-> t]
             after == Append(kept, record)
  <1>1. CASE \E i \in 1 .. Len(window) : window[i].revision = v
    BY <1>1 DEF S!WindowAfter
  <1>2. CASE ~ \E i \in 1 .. Len(window) : window[i].revision = v
    <2>1. IsWindow(kept)
      <3>1. CASE Len(window) >= MaxRecentRootsPerRing
        <4>1. window # <<>>
          BY <3>1, ContentAssumption, EmptySeq
        <4>2. kept = Tail(window)
          BY <3>1
        <4> HIDE DEF kept
        <4>3. \A i \in 1 .. Len(kept) : i + 1 \in 1 .. Len(window) /\ kept[i] = window[i + 1]
          BY <4>1, <4>2, TailFacts DEF IsWindow, IsSeq
        <4> QED
          BY <4>1, <4>2, <4>3, TailFacts DEF IsWindow
      <3>2. CASE ~ Len(window) >= MaxRecentRootsPerRing
        BY <3>2
      <3> QED
        BY <3>1, <3>2
    <2>2. S!WindowAfter(window, v, t) = after
      BY <1>2 DEF S!WindowAfter
    <2>3. record.revision = v
      OBVIOUS
    <2> HIDE DEF kept, record
    <2>4. /\ IsSeq(after) /\ after # <<>> /\ Len(after) = Len(kept) + 1
          /\ \A i \in 1 .. Len(kept) : after[i] = kept[i]
          /\ after[Len(kept) + 1] = record
      BY <2>1, AppendFacts DEF IsWindow
    <2> HIDE DEF after
    <2>5. IsWindow(after)
      <3> SUFFICES ASSUME NEW i \in 1 .. Len(after) PROVE after[i].revision \in Revision
        BY <2>4 DEF IsWindow
      <3>1. i \in 1 .. Len(kept) \/ i = Len(kept) + 1
        BY <2>1, <2>4 DEF IsWindow, IsSeq
      <3> QED
        BY <2>1, <2>3, <2>4, <3>1 DEF IsWindow
    <2>6. Last(after) = v
      BY <2>3, <2>4 DEF Last
    <2> QED
      BY <2>2, <2>5, <2>6
  <1> QED
    BY <1>1, <1>2

-----------------------------------------------------------------------------
(* The inductive invariant *)

\* The message carries a root of the ring.
Live(m, c, r) ==
    /\ m.batch.identifier = c
    /\ r \in DOMAIN m.batch.updates
    /\ m.batch.updates[r] # NoRoot

Carried(m, r) == m.batch.updates[r]

RootTypeOK == Root \in [Identifier -> [RingIndex -> Revision \union {NoRoot}]]

InfoTypeOK ==
    /\ DOMAIN SubscriberInfo = ParaId
    /\ SubscriberInfo[Para].collections \subseteq Identifier

StoreTypeOK ==
    /\ CurrentGeneration \in 0 .. MaxGeneration
    /\ DOMAIN RingRoots = 0 .. MaxGeneration
    /\ \A g \in 0 .. MaxGeneration : DOMAIN RingRoots[g] = Identifier
    /\ \A g \in 0 .. MaxGeneration, c \in Identifier, r \in RingIndex :
            IsWindow(RingRoots[g][c][r])

\* The generations to come are empty: the purge and the batches leave them alone.
FutureEmpty ==
    \A g \in 0 .. MaxGeneration, c \in Identifier, r \in RingIndex :
        g > CurrentGeneration => RingRoots[g][c][r] = <<>>

\* The ring had this revision and will not go back to an older one.
Issued(c, r, v) ==
    /\ v \in Revision
    /\ Root[c][r] = NoRoot => <<c, r>> \in retired
    /\ Root[c][r] # NoRoot => v <= Root[c][r]

ChannelIssued ==
    \A c \in Identifier, r \in RingIndex : \A i \in 1 .. Len(down) :
        Live(down[i], c, r) => Issued(c, r, Carried(down[i], r))

\* The messages on their way carry the revisions of a ring in order.
ChannelInOrder ==
    \A c \in Identifier, r \in RingIndex : \A i, j \in 1 .. Len(down) :
        i < j /\ Live(down[i], c, r) /\ Live(down[j], c, r)
            => Carried(down[i], r) <= Carried(down[j], r)

StoreIssued ==
    \A c \in Identifier, r \in RingIndex :
        Newest(c, r) # NoRoot => Issued(c, r, Newest(c, r))

\* The store has nothing newer than what is on its way.
StoreBehind ==
    \A c \in Identifier, r \in RingIndex : \A i \in 1 .. Len(down) :
        Newest(c, r) # NoRoot /\ Live(down[i], c, r) => Newest(c, r) <= Carried(down[i], r)

TypeInv == RootTypeOK /\ InfoTypeOK /\ IsSeq(down) /\ StoreTypeOK
OrderInv == FutureEmpty /\ ChannelIssued /\ ChannelInOrder /\ StoreIssued /\ StoreBehind
Inv == TypeInv /\ OrderInv

LEMMA NewestIsLast ==
    \A c, r : /\ Newest(c, r) = Last(RingRoots[CurrentGeneration][c][r])
              /\ Newest(c, r)' = Last(RingRoots'[CurrentGeneration'][c][r])
  BY DEF Newest, Last, S!current_ring_roots

LEMMA RingIndexType == S!RingIndex = RingIndex /\ S!Generation = 0 .. MaxGeneration
  BY DEF S!RingIndex, RingIndex, S!Generation

LEMMA RevisionType == \A v \in Revision : v \in Nat /\ v # NoRoot /\ v <= v
  BY ContentAssumption

\* What a step keeps that leaves the channel, the roots and the store alone.
LEMMA QuietStep ==
    ASSUME Inv, InfoTypeOK',
           UNCHANGED <<Root, retired, down, RingRoots, CurrentGeneration>>
    PROVE  Inv'
  <1>1. \A c, r : Newest(c, r)' = Newest(c, r)
    BY NewestIsLast
  <1>2. \A c, r, v : Issued(c, r, v)' <=> Issued(c, r, v)
    BY DEF Issued
  <1>3. TypeInv'
    BY DEF Inv, TypeInv, RootTypeOK, StoreTypeOK
  <1>4. FutureEmpty' /\ ChannelIssued' /\ ChannelInOrder'
    BY <1>2 DEF Inv, OrderInv, FutureEmpty, ChannelIssued, ChannelInOrder, Issued
  <1>5. StoreIssued' /\ StoreBehind'
    BY <1>1, <1>2 DEF Inv, OrderInv, StoreIssued, StoreBehind, Issued
  <1> QED
    BY <1>3, <1>4, <1>5 DEF Inv, OrderInv

\* Messages that carry the roots of now.
Fresh(messages) ==
    /\ IsSeq(messages)
    /\ \A c \in Identifier, r \in RingIndex : \A i \in 1 .. Len(messages) :
            Live(messages[i], c, r) => Carried(messages[i], r) = Root[c][r]

LEMMA SendStep ==
    ASSUME Inv, InfoTypeOK',
           NEW messages, Fresh(messages), down' = down \o messages,
           UNCHANGED <<Root, retired, RingRoots, CurrentGeneration>>
    PROVE  Inv'
  <1>1. /\ IsSeq(down') /\ Len(down') = Len(down) + Len(messages)
        /\ \A i \in 1 .. Len(down) : down'[i] = down[i]
        /\ \A i \in 1 .. Len(down') : i > Len(down) => down'[i] = messages[i - Len(down)]
    BY SequenceFacts DEF Inv, TypeInv, Fresh
  <1>2. \A c, r : Newest(c, r)' = Newest(c, r)
    BY NewestIsLast
  <1>3. \A c, r, v : Issued(c, r, v)' <=> Issued(c, r, v)
    BY DEF Issued
  <1>4. TypeInv'
    BY <1>1 DEF Inv, TypeInv, RootTypeOK, StoreTypeOK
  <1>5. Len(down) \in Nat /\ Len(messages) \in Nat
    BY DEF Inv, TypeInv, Fresh, IsSeq
  <1>6. ASSUME NEW c \in Identifier, NEW r \in RingIndex, NEW i \in 1 .. Len(down'),
               Live(down'[i], c, r)
        PROVE  \/ i \in 1 .. Len(down) /\ down'[i] = down[i] /\ Live(down[i], c, r)
               \/ i > Len(down) /\ Carried(down'[i], r) = Root[c][r] /\ Root[c][r] \in Revision
    <2>1. CASE i <= Len(down)
      <3>1. i \in 1 .. Len(down)
        BY <1>5, <2>1
      <3> QED
        BY <1>1, <1>6, <3>1
    <2>2. CASE i > Len(down)
      <3>1. i - Len(down) \in 1 .. Len(messages) /\ down'[i] = messages[i - Len(down)]
        BY <1>1, <1>5, <2>2
      <3>2. Carried(down'[i], r) = Root[c][r]
        BY <1>6, <3>1 DEF Fresh
      <3>3. Root[c][r] # NoRoot
        BY <1>6, <3>2 DEF Live, Carried
      <3>4. Root[c][r] \in Revision
        BY <3>3 DEF Inv, TypeInv, RootTypeOK
      <3> QED
        BY <2>2, <3>2, <3>4
    <2> QED
      BY <1>5, <2>1, <2>2
  <1>7. ChannelIssued'
    <2> SUFFICES ASSUME NEW c \in Identifier, NEW r \in RingIndex, NEW i \in 1 .. Len(down'),
                        Live(down'[i], c, r)
                 PROVE  Issued(c, r, Carried(down'[i], r))
      BY <1>3 DEF ChannelIssued, Live, Carried
    <2>1. CASE i \in 1 .. Len(down) /\ down'[i] = down[i] /\ Live(down[i], c, r)
      BY <2>1 DEF Inv, OrderInv, ChannelIssued
    <2>2. CASE Carried(down'[i], r) = Root[c][r] /\ Root[c][r] \in Revision
      BY <2>2, RevisionType DEF Issued
    <2> QED
      BY <1>6, <2>1, <2>2
  <1>8. ChannelInOrder'
    <2> SUFFICES ASSUME NEW c \in Identifier, NEW r \in RingIndex,
                        NEW i \in 1 .. Len(down'), NEW j \in 1 .. Len(down'),
                        i < j, Live(down'[i], c, r), Live(down'[j], c, r)
                 PROVE  Carried(down'[i], r) <= Carried(down'[j], r)
      BY DEF ChannelInOrder, Live, Carried
    <2>1. CASE j \in 1 .. Len(down) /\ down'[j] = down[j] /\ Live(down[j], c, r)
      <3>1. i \in 1 .. Len(down) /\ down'[i] = down[i] /\ Live(down[i], c, r)
        BY <1>5, <1>6, <2>1
      <3> QED
        BY <2>1, <3>1 DEF Inv, OrderInv, ChannelInOrder
    <2>2. CASE Carried(down'[j], r) = Root[c][r] /\ Root[c][r] \in Revision
      <3>1. CASE i \in 1 .. Len(down) /\ down'[i] = down[i] /\ Live(down[i], c, r)
        <4>1. Issued(c, r, Carried(down'[i], r))
          BY <3>1 DEF Inv, OrderInv, ChannelIssued
        <4> QED
          BY <2>2, <4>1, RevisionType DEF Issued
      <3>2. CASE Carried(down'[i], r) = Root[c][r]
        BY <2>2, <3>2, RevisionType
      <3> QED
        BY <1>6, <3>1, <3>2
    <2> QED
      BY <1>6, <2>1, <2>2
  <1>9. StoreIssued'
    BY <1>2, <1>3 DEF Inv, OrderInv, StoreIssued, Issued
  <1>10. StoreBehind'
    <2> SUFFICES ASSUME NEW c \in Identifier, NEW r \in RingIndex, NEW i \in 1 .. Len(down'),
                        Newest(c, r) # NoRoot, Live(down'[i], c, r)
                 PROVE  Newest(c, r) <= Carried(down'[i], r)
      BY <1>2 DEF StoreBehind, Live, Carried
    <2>1. CASE i \in 1 .. Len(down) /\ down'[i] = down[i] /\ Live(down[i], c, r)
      BY <2>1 DEF Inv, OrderInv, StoreBehind
    <2>2. CASE Carried(down'[i], r) = Root[c][r] /\ Root[c][r] \in Revision
      <3>1. Issued(c, r, Newest(c, r))
        BY DEF Inv, OrderInv, StoreIssued
      <3> QED
        BY <2>2, <3>1, RevisionType DEF Issued
    <2> QED
      BY <1>6, <2>1, <2>2
  <1>11. FutureEmpty'
    BY DEF Inv, OrderInv, FutureEmpty
  <1> QED
    BY <1>4, <1>7, <1>8, <1>9, <1>10, <1>11 DEF Inv, OrderInv

\* A message is taken from the head of the channel.
LEMMA TakeFacts ==
    ASSUME Inv, down # <<>>, down' = Tail(down), UNCHANGED <<Root, retired>>
    PROVE  /\ IsSeq(down)' /\ ChannelIssued' /\ ChannelInOrder'
           /\ 1 \in 1 .. Len(down) /\ Head(down) = down[1]
           /\ \A i \in 1 .. Len(down') :
                    i + 1 \in 1 .. Len(down) /\ 1 < i + 1 /\ down'[i] = down[i + 1]
  <1>1. /\ IsSeq(down') /\ Head(down) = down[1] /\ Len(down) \in Nat /\ Len(down) >= 1
        /\ Len(down') = Len(down) - 1
        /\ \A i \in 1 .. Len(down') : down'[i] = down[i + 1]
    BY TailFacts DEF Inv, TypeInv, IsSeq
  <1>2. 1 \in 1 .. Len(down) /\ Head(down) = down[1]
    BY <1>1
  <1>3. \A i \in 1 .. Len(down') :
            i + 1 \in 1 .. Len(down) /\ 1 < i + 1 /\ down'[i] = down[i + 1]
    BY <1>1
  <1>4. \A c, r, v : Issued(c, r, v)' <=> Issued(c, r, v)
    BY DEF Issued
  <1>5. ChannelIssued'
    <2> SUFFICES ASSUME NEW c \in Identifier, NEW r \in RingIndex, NEW i \in 1 .. Len(down'),
                        Live(down'[i], c, r)
                 PROVE  Issued(c, r, Carried(down'[i], r))
      BY <1>4 DEF ChannelIssued, Live, Carried
    <2> QED
      BY <1>3 DEF Inv, OrderInv, ChannelIssued
  <1>6. ChannelInOrder'
    <2> SUFFICES ASSUME NEW c \in Identifier, NEW r \in RingIndex,
                        NEW i \in 1 .. Len(down'), NEW j \in 1 .. Len(down'),
                        i < j, Live(down'[i], c, r), Live(down'[j], c, r)
                 PROVE  Carried(down'[i], r) <= Carried(down'[j], r)
      BY DEF ChannelInOrder, Live, Carried
    <2>1. i + 1 < j + 1
      OBVIOUS
    <2> QED
      BY <1>3, <2>1 DEF Inv, OrderInv, ChannelInOrder
  <1> QED
    BY <1>1, <1>2, <1>3, <1>5, <1>6 DEF IsSeq

\* A message that leaves no trace.
LEMMA TakeStep ==
    ASSUME Inv, InfoTypeOK', down # <<>>, down' = Tail(down),
           UNCHANGED <<Root, retired, RingRoots, CurrentGeneration>>
    PROVE  Inv'
  <1>1. \A c, r : Newest(c, r)' = Newest(c, r)
    BY NewestIsLast
  <1>2. \A c, r, v : Issued(c, r, v)' <=> Issued(c, r, v)
    BY DEF Issued
  <1>3. TypeInv'
    BY TakeFacts DEF Inv, TypeInv, RootTypeOK, StoreTypeOK
  <1>4. StoreIssued'
    BY <1>1, <1>2 DEF Inv, OrderInv, StoreIssued, Issued
  <1>5. StoreBehind'
    <2> SUFFICES ASSUME NEW c \in Identifier, NEW r \in RingIndex, NEW i \in 1 .. Len(down'),
                        Newest(c, r) # NoRoot, Live(down'[i], c, r)
                 PROVE  Newest(c, r) <= Carried(down'[i], r)
      BY <1>1 DEF StoreBehind, Live, Carried
    <2> QED
      BY TakeFacts DEF Inv, OrderInv, StoreBehind
  <1>6. FutureEmpty'
    BY DEF Inv, OrderInv, FutureEmpty
  <1> QED
    BY <1>3, <1>4, <1>5, <1>6, TakeFacts DEF Inv, OrderInv

\* A root is built, built again or removed for good.
LEMMA RootStep ==
    ASSUME Inv, InfoTypeOK',
           NEW c \in Identifier, NEW r \in RingIndex, NEW root \in Revision \union {NoRoot},
           <<c, r>> \notin retired,
           root # NoRoot => root = NextRevision(c, r),
           Root' = [Root EXCEPT ![c][r] = root],
           retired' = IF root = NoRoot THEN retired \union {<<c, r>>} ELSE retired,
           UNCHANGED <<down, RingRoots, CurrentGeneration>>
    PROVE  Inv'
  <1>1. RootTypeOK'
    BY DEF Inv, TypeInv, RootTypeOK
  <1>2. ASSUME NEW d \in Identifier, NEW q \in RingIndex, NEW v, Issued(d, q, v)
        PROVE  Issued(d, q, v)'
    <2>1. Root'[d][q] = IF d = c /\ q = r THEN root ELSE Root[d][q]
      BY DEF Inv, TypeInv, RootTypeOK
    <2>2. retired \subseteq retired'
      OBVIOUS
    <2>3. CASE ~ (d = c /\ q = r)
      BY <1>2, <2>1, <2>2, <2>3 DEF Issued
    <2>4. CASE d = c /\ q = r /\ root = NoRoot
      BY <1>2, <2>1, <2>4 DEF Issued
    <2>5. CASE d = c /\ q = r /\ root # NoRoot
      <3>1. Root[c][r] # NoRoot /\ v <= Root[c][r] /\ v \in Nat
        BY <1>2, <2>5, RevisionType DEF Issued
      <3>2. Root[c][r] \in Nat
        BY <3>1, RevisionType DEF Inv, TypeInv, RootTypeOK
      <3>3. root = Root[c][r] + 1
        BY <2>5, <3>1 DEF NextRevision
      <3>4. v <= root
        BY <3>1, <3>2, <3>3
      <3> QED
        BY <1>2, <2>1, <2>5, <3>4 DEF Issued
    <2> QED
      BY <2>3, <2>4, <2>5
  <1>3. \A d, q : Newest(d, q)' = Newest(d, q)
    BY NewestIsLast
  <1>4. TypeInv'
    BY <1>1 DEF Inv, TypeInv, StoreTypeOK
  <1>5. ChannelIssued'
    <2> SUFFICES ASSUME NEW d \in Identifier, NEW q \in RingIndex, NEW i \in 1 .. Len(down),
                        Live(down[i], d, q)
                 PROVE  Issued(d, q, Carried(down[i], q))'
      BY DEF ChannelIssued, Live, Carried
    <2>1. Issued(d, q, Carried(down[i], q))
      BY DEF Inv, OrderInv, ChannelIssued
    <2> QED
      BY <1>2, <2>1 DEF Carried, Issued
  <1>6. StoreIssued'
    <2> SUFFICES ASSUME NEW d \in Identifier, NEW q \in RingIndex, Newest(d, q)' # NoRoot
                 PROVE  Issued(d, q, Newest(d, q))'
      BY DEF StoreIssued
    <2>1. Issued(d, q, Newest(d, q))
      BY <1>3 DEF Inv, OrderInv, StoreIssued
    <2> QED
      BY <1>2, <1>3, <2>1 DEF Issued
  <1>7. FutureEmpty' /\ ChannelInOrder'
    BY DEF Inv, OrderInv, FutureEmpty, ChannelInOrder
  <1>8. StoreBehind'
    BY <1>3 DEF Inv, OrderInv, StoreBehind
  <1> QED
    BY <1>4, <1>5, <1>6, <1>7, <1>8 DEF Inv, OrderInv

\* The store is left to the purge and a new generation begins.
LEMMA ClearStep ==
    ASSUME Inv, S!clear_all_ring_data,
           down' = down \/ (down # <<>> /\ down' = Tail(down)),
           UNCHANGED <<Root, retired, SubscriberInfo, RingRoots>>
    PROVE  Inv'
  <1>1. /\ CurrentGeneration' = CurrentGeneration + 1
        /\ CurrentGeneration \in 0 .. MaxGeneration
        /\ CurrentGeneration' \in 0 .. MaxGeneration
    BY ContentAssumption DEF S!clear_all_ring_data, Inv, TypeInv, StoreTypeOK
  <1>2. \A c \in Identifier, r \in RingIndex : Newest(c, r)' = NoRoot
    BY <1>1, NewestIsLast DEF Inv, OrderInv, FutureEmpty, Last
  <1>3. IsSeq(down)' /\ ChannelIssued' /\ ChannelInOrder'
    <2>1. CASE down' = down
      BY <2>1 DEF Inv, TypeInv, OrderInv, IsSeq, ChannelIssued, ChannelInOrder, Issued
    <2>2. CASE down # <<>> /\ down' = Tail(down)
      BY <2>2, TakeFacts
    <2> QED
      BY <2>1, <2>2
  <1>4. TypeInv'
    BY <1>1, <1>3 DEF Inv, TypeInv, RootTypeOK, InfoTypeOK, StoreTypeOK
  <1>5. StoreIssued' /\ StoreBehind'
    BY <1>2 DEF StoreIssued, StoreBehind
  <1>6. FutureEmpty'
    BY <1>1 DEF Inv, OrderInv, FutureEmpty
  <1> QED
    BY <1>3, <1>4, <1>5, <1>6 DEF Inv, OrderInv

\* Entries of an older generation go.
LEMMA PurgeStep ==
    ASSUME Inv, NEW removed \in SUBSET (Identifier \X RingIndex),
           S!purge_stale_ring_roots(removed),
           UNCHANGED <<Root, retired, SubscriberInfo, down>>
    PROVE  Inv' /\ \A c \in Identifier, r \in RingIndex : Newest(c, r)' = Newest(c, r)
  <1> DEFINE g == QueuedRingPurge
  <1>1. /\ g < CurrentGeneration /\ CurrentGeneration' = CurrentGeneration
        /\ RingRoots' = [RingRoots EXCEPT ![g] =
                [c \in Identifier |-> [r \in RingIndex |->
                    IF <<c, r>> \in removed THEN <<>> ELSE RingRoots[g][c][r]]]]
    BY RingIndexType
    DEF S!purge_stale_ring_roots, S!authorize_purge_stale_ring_roots
  <1>2. CurrentGeneration \in 0 .. MaxGeneration /\ DOMAIN RingRoots = 0 .. MaxGeneration
    BY DEF Inv, TypeInv, StoreTypeOK
  <1>3. /\ DOMAIN RingRoots' = 0 .. MaxGeneration
        /\ \A h \in 0 .. MaxGeneration : h # g => RingRoots'[h] = RingRoots[h]
        /\ g \in 0 .. MaxGeneration =>
                RingRoots'[g] = [c \in Identifier |-> [r \in RingIndex |->
                    IF <<c, r>> \in removed THEN <<>> ELSE RingRoots[g][c][r]]]
    BY <1>1, <1>2
  <1>4. g \in 0 .. MaxGeneration =>
            /\ DOMAIN RingRoots'[g] = Identifier
            /\ \A c \in Identifier, r \in RingIndex :
                    RingRoots'[g][c][r] = <<>> \/ RingRoots'[g][c][r] = RingRoots[g][c][r]
    <2> DEFINE after == [c \in Identifier |-> [r \in RingIndex |->
                            IF <<c, r>> \in removed THEN <<>> ELSE RingRoots[g][c][r]]]
    <2>1. DOMAIN after = Identifier
      OBVIOUS
    <2>2. ASSUME NEW c \in Identifier, NEW r \in RingIndex
          PROVE  after[c][r] = <<>> \/ after[c][r] = RingRoots[g][c][r]
      <3>1. after[c][r] = IF <<c, r>> \in removed THEN <<>> ELSE RingRoots[g][c][r]
        OBVIOUS
      <3> HIDE DEF after, g
      <3> QED
        BY <3>1
    <2>3. g \in 0 .. MaxGeneration => RingRoots'[g] = after
      BY <1>3
    <2> HIDE DEF after, g
    <2> QED
      BY <2>1, <2>2, <2>3
  <1> HIDE DEF g
  <1>5. IsWindow(<<>>)
    BY EmptyIsSeq, EmptySeq DEF IsWindow
  <1>6. StoreTypeOK'
    <2>1. ASSUME NEW h \in 0 .. MaxGeneration PROVE DOMAIN RingRoots'[h] = Identifier
      <3>1. CASE h = g
        BY <1>4, <3>1
      <3>2. CASE h # g
        BY <1>3, <3>2 DEF Inv, TypeInv, StoreTypeOK
      <3> QED
        BY <3>1, <3>2
    <2>2. ASSUME NEW h \in 0 .. MaxGeneration, NEW c \in Identifier, NEW r \in RingIndex
          PROVE  IsWindow(RingRoots'[h][c][r])
      <3>1. IsWindow(RingRoots[h][c][r])
        BY DEF Inv, TypeInv, StoreTypeOK
      <3>2. CASE h = g
        BY <1>4, <1>5, <3>1, <3>2
      <3>3. CASE h # g
        BY <1>3, <3>1, <3>3
      <3> QED
        BY <3>2, <3>3
    <2> QED
      BY <1>1, <1>2, <1>3, <2>1, <2>2 DEF StoreTypeOK, IsWindow, IsSeq
  <1>7. TypeInv'
    BY <1>6 DEF Inv, TypeInv, RootTypeOK, InfoTypeOK
  <1>8. \A c \in Identifier, r \in RingIndex : Newest(c, r)' = Newest(c, r)
    <2>1. CurrentGeneration # g
      BY <1>1, <1>2 DEF g
    <2>2. RingRoots'[CurrentGeneration] = RingRoots[CurrentGeneration]
      BY <1>2, <1>3, <2>1
    <2> QED
      BY <1>1, <2>2, NewestIsLast
  <1>9. FutureEmpty'
    <2> SUFFICES ASSUME NEW h \in 0 .. MaxGeneration, NEW c \in Identifier, NEW r \in RingIndex,
                        h > CurrentGeneration
                 PROVE  RingRoots'[h][c][r] = <<>>
      BY <1>1 DEF FutureEmpty
    <2>1. h # g
      BY <1>1, <1>2 DEF g
    <2> QED
      BY <1>3, <2>1 DEF Inv, OrderInv, FutureEmpty
  <1>10. ChannelIssued' /\ ChannelInOrder'
    BY DEF Inv, OrderInv, ChannelIssued, ChannelInOrder, Issued
  <1>11. StoreIssued' /\ StoreBehind'
    <2>1. StoreBehind'
      BY <1>8 DEF Inv, OrderInv, StoreBehind
    <2>2. StoreIssued'
      BY <1>8 DEF Inv, OrderInv, StoreIssued, Issued
    <2> QED
      BY <2>1, <2>2
  <1> QED
    BY <1>7, <1>8, <1>9, <1>10, <1>11 DEF Inv, OrderInv

\* The batch at the head of the channel is stored, in this generation or in the next.
LEMMA StoreStep ==
    ASSUME Inv, down # <<>>, down' = Tail(down),
           NEW batch, batch = Head(down).batch,
           NEW g \in 0 .. MaxGeneration, g = CurrentGeneration \/ g = CurrentGeneration + 1,
           CurrentGeneration' = g,
           RingRoots' = [RingRoots EXCEPT ![g] = [RingRoots[g] EXCEPT ![batch.identifier] =
                            S!WindowsAfter(RingRoots[g][batch.identifier], batch)]],
           UNCHANGED <<Root, retired, SubscriberInfo>>
    PROVE  /\ Inv'
           /\ \A c \in Identifier, r \in RingIndex :
                    g = CurrentGeneration /\ Newest(c, r) # NoRoot /\ Newest(c, r)' # NoRoot
                        => Newest(c, r) <= Newest(c, r)'
  <1> DEFINE m == down[1]
  <1>1. /\ batch = m.batch /\ 1 \in 1 .. Len(down)
        /\ \A i \in 1 .. Len(down') :
                i + 1 \in 1 .. Len(down) /\ 1 < i + 1 /\ down'[i] = down[i + 1]
    BY TakeFacts
  <1>2. CurrentGeneration \in 0 .. MaxGeneration /\ DOMAIN RingRoots = 0 .. MaxGeneration
    BY DEF Inv, TypeInv, StoreTypeOK
  <1>3. /\ DOMAIN RingRoots' = 0 .. MaxGeneration
        /\ \A h \in 0 .. MaxGeneration : h # g => RingRoots'[h] = RingRoots[h]
        /\ RingRoots'[g] = [RingRoots[g] EXCEPT ![batch.identifier] =
                                S!WindowsAfter(RingRoots[g][batch.identifier], batch)]
    BY <1>2
  <1>4. /\ DOMAIN RingRoots'[g] = Identifier
        /\ \A c \in Identifier : c # batch.identifier => RingRoots'[g][c] = RingRoots[g][c]
        /\ \A c \in Identifier : c = batch.identifier =>
                RingRoots'[g][c] = S!WindowsAfter(RingRoots[g][c], batch)
    <2>1. DOMAIN RingRoots[g] = Identifier
      BY DEF Inv, TypeInv, StoreTypeOK
    <2> QED
      BY <1>3, <2>1
  <1>5. ASSUME NEW c \in Identifier, NEW r \in RingIndex
        PROVE  /\ IsWindow(RingRoots'[g][c][r])
               /\ \/ Last(RingRoots'[g][c][r]) \in {NoRoot, Last(RingRoots[g][c][r])}
                  \/ Live(m, c, r) /\ Last(RingRoots'[g][c][r]) = Carried(m, r)
    <2> DEFINE w == RingRoots[g][c][r]
               after == S!WindowAfter(w, batch.updates[r], batch.source_time)
    <2>1. IsWindow(w)
      BY DEF Inv, TypeInv, StoreTypeOK
    <2>2. CASE c # batch.identifier
      BY <1>4, <2>1, <2>2
    <2>3. CASE c = batch.identifier
      <3>1. S!WindowsAfter(RingRoots[g][c], batch)[r] =
                IF r \in S!Built(batch.updates) THEN after
                ELSE IF r \in S!Gone(batch.updates) THEN <<>> ELSE w
        BY RingIndexType DEF S!WindowsAfter
      <3>2. RingRoots'[g][c][r] =
                IF r \in S!Built(batch.updates) THEN after
                ELSE IF r \in S!Gone(batch.updates) THEN <<>> ELSE w
        BY <1>4, <2>3, <3>1
      <3>3. r \in S!Built(batch.updates) <=> Live(m, c, r)
        BY <1>1, <2>3 DEF S!Built, Live
      <3>4. CASE r \in S!Built(batch.updates)
        <4>1. Carried(m, r) = batch.updates[r] /\ Live(m, c, r)
          BY <1>1, <3>3, <3>4 DEF Carried
        <4>2. batch.updates[r] \in Revision
          BY <1>1, <4>1 DEF Inv, OrderInv, ChannelIssued, Issued
        <4>3. IsWindow(after) /\ Last(after) \in {Last(w), batch.updates[r]}
          BY <2>1, <4>2, WindowAfterFacts
        <4>4. RingRoots'[g][c][r] = after
          BY <3>2, <3>4
        <4> HIDE DEF after, w, m
        <4>5. Last(after) = Last(w) \/ Last(after) = Carried(m, r)
          BY <4>1, <4>3
        <4> QED
          BY <4>1, <4>3, <4>4, <4>5 DEF w
      <3>5. CASE r \notin S!Built(batch.updates)
        <4>1. RingRoots'[g][c][r] = <<>> \/ RingRoots'[g][c][r] = w
          BY <3>2, <3>5
        <4>2. IsWindow(<<>>) /\ Last(<<>>) = NoRoot
          BY EmptyIsSeq, EmptySeq DEF IsWindow, Last
        <4> QED
          BY <2>1, <4>1, <4>2
      <3> QED
        BY <3>4, <3>5
    <2> QED
      BY <2>2, <2>3
  <1>6. ASSUME NEW c \in Identifier, NEW r \in RingIndex, Newest(c, r)' # NoRoot
        PROVE  \/ g = CurrentGeneration /\ Newest(c, r)' = Newest(c, r)
               \/ Live(m, c, r) /\ Newest(c, r)' = Carried(m, r)
    <2>1. Newest(c, r)' = Last(RingRoots'[g][c][r])
      BY NewestIsLast
    <2>2. CASE Live(m, c, r) /\ Last(RingRoots'[g][c][r]) = Carried(m, r)
      BY <2>1, <2>2
    <2>3. CASE Last(RingRoots'[g][c][r]) \in {NoRoot, Last(RingRoots[g][c][r])}
      <3>1. Newest(c, r)' = Last(RingRoots[g][c][r]) /\ Last(RingRoots[g][c][r]) # NoRoot
        BY <1>6, <2>1, <2>3
      <3>2. RingRoots[g][c][r] # <<>>
        BY <3>1 DEF Last
      <3>3. g = CurrentGeneration
        BY <1>2, <3>2 DEF Inv, OrderInv, FutureEmpty
      <3> QED
        BY <3>1, <3>3, NewestIsLast
    <2> QED
      BY <1>5, <2>2, <2>3
  <1> HIDE DEF m
  <1>7. StoreTypeOK'
    <2>1. ASSUME NEW h \in 0 .. MaxGeneration
          PROVE  /\ DOMAIN RingRoots'[h] = Identifier
                 /\ \A c \in Identifier, r \in RingIndex : IsWindow(RingRoots'[h][c][r])
      <3>1. CASE h = g
        BY <1>4, <1>5, <3>1
      <3>2. CASE h # g
        BY <1>3, <3>2 DEF Inv, TypeInv, StoreTypeOK
      <3> QED
        BY <3>1, <3>2
    <2> QED
      BY <1>3, <2>1 DEF StoreTypeOK, IsWindow, IsSeq
  <1>8. TypeInv'
    BY <1>7, TakeFacts DEF Inv, TypeInv, RootTypeOK, InfoTypeOK
  <1>9. FutureEmpty'
    <2> SUFFICES ASSUME NEW h \in 0 .. MaxGeneration, NEW c \in Identifier, NEW r \in RingIndex,
                        h > g
                 PROVE  RingRoots'[h][c][r] = <<>>
      BY DEF FutureEmpty
    <2>1. h # g /\ h > CurrentGeneration
      BY <1>2
    <2> QED
      BY <1>3, <2>1 DEF Inv, OrderInv, FutureEmpty
  <1>10. StoreIssued'
    <2> SUFFICES ASSUME NEW c \in Identifier, NEW r \in RingIndex, Newest(c, r)' # NoRoot
                 PROVE  Issued(c, r, Newest(c, r)')
      BY DEF StoreIssued, Issued
    <2>1. CASE Newest(c, r)' = Newest(c, r)
      BY <2>1 DEF Inv, OrderInv, StoreIssued
    <2>2. CASE Live(m, c, r) /\ Newest(c, r)' = Carried(m, r)
      BY <1>1, <2>2 DEF Inv, OrderInv, ChannelIssued, m
    <2> QED
      BY <1>6, <2>1, <2>2
  <1>11. StoreBehind'
    <2> SUFFICES ASSUME NEW c \in Identifier, NEW r \in RingIndex, NEW i \in 1 .. Len(down'),
                        Newest(c, r)' # NoRoot, Live(down'[i], c, r)
                 PROVE  Newest(c, r)' <= Carried(down'[i], r)
      BY DEF StoreBehind, Live, Carried
    <2>1. CASE Newest(c, r)' = Newest(c, r)
      BY <1>1, <2>1 DEF Inv, OrderInv, StoreBehind
    <2>2. CASE Live(m, c, r) /\ Newest(c, r)' = Carried(m, r)
      BY <1>1, <2>2 DEF Inv, OrderInv, ChannelInOrder, m
    <2> QED
      BY <1>6, <2>1, <2>2
  <1>12. ASSUME NEW c \in Identifier, NEW r \in RingIndex,
                Newest(c, r) # NoRoot, Newest(c, r)' # NoRoot
         PROVE  Newest(c, r) <= Newest(c, r)'
    <2>1. CASE Newest(c, r)' = Newest(c, r)
      <3>1. Newest(c, r) \in Revision
        BY <1>12 DEF Inv, OrderInv, StoreIssued, Issued
      <3> QED
        BY <2>1, <3>1, RevisionType
    <2>2. CASE Live(m, c, r) /\ Newest(c, r)' = Carried(m, r)
      BY <1>1, <1>12, <2>2 DEF Inv, OrderInv, StoreBehind, m
    <2> QED
      BY <1>6, <1>12, <2>1, <2>2
  <1> QED
    BY <1>8, <1>9, <1>10, <1>11, <1>12, TakeFacts DEF Inv, OrderInv

-----------------------------------------------------------------------------
(* What the notifier sends, and what its calls leave alone *)

\* A batch carries the roots of the moment it is sent.
LEMMA BatchFresh ==
    ASSUME NEW m, \E c, indices, sequence, source_time :
                        m.batch = BatchOf(c, indices, sequence, source_time),
           NEW d \in Identifier, NEW q \in RingIndex, Live(m, d, q)
    PROVE  Carried(m, q) = Root[d][q]
  <1>1. PICK c, indices, sequence, source_time :
            m.batch = BatchOf(c, indices, sequence, source_time)
    OBVIOUS
  <1>2. m.batch.identifier = c /\ m.batch.updates = [r \in indices |-> N!VisibleRoot(c, r)]
    BY <1>1 DEF BatchOf, N!resolve_updates_for_indices
  <1>3. q \in indices /\ c = d /\ m.batch.updates[q] = N!VisibleRoot(d, q)
    BY <1>2 DEF Live
  <1> QED
    BY <1>3 DEF Live, Carried, N!VisibleRoot

LEMMA OneMessage ==
    ASSUME NEW m, \E c, indices, sequence, source_time :
                        m.batch = BatchOf(c, indices, sequence, source_time)
    PROVE  Fresh(<<m>>)
  <1>1. <<m>> \in Seq({m}) /\ Len(<<m>>) = 1 /\ <<m>>[1] = m
    OBVIOUS
  <1>2. IsSeq(<<m>>)
    BY <1>1, TypeIsSeq
  <1>3. \A i \in 1 .. Len(<<m>>) : <<m>>[i] = m
    BY <1>1
  <1> HIDE DEF Fresh
  <1> QED
    BY <1>2, <1>3, BatchFresh DEF Fresh

\* The message that ends a subscription carries no root.
LEMMA TerminateFresh == Fresh(<<TerminateMessage>>)
  <1> DEFINE m == TerminateMessage
  <1>1. <<m>> \in Seq({m}) /\ Len(<<m>>) = 1 /\ <<m>>[1] = m
    OBVIOUS
  <1>2. IsSeq(<<m>>)
    BY <1>1, TypeIsSeq
  <1>3. m.batch.updates = <<>>
    BY DEF TerminateMessage, NoMessageBatch
  <1>4. DOMAIN m.batch.updates = {}
    BY <1>3
  <1>5. \A i \in 1 .. Len(<<m>>) : <<m>>[i] = m
    BY <1>1
  <1> HIDE DEF m
  <1>6. Fresh(<<m>>)
    BY <1>2, <1>4, <1>5 DEF Fresh, Live
  <1> QED
    BY <1>6 DEF m

LEMMA FiniteChunks ==
    ASSUME InfoTypeOK, NEW capacity PROVE IsFiniteSet(N!ChunksFor(Para, capacity))
  <1> DEFINE P == SubscriberInfo[Para].collections \X RingIndex
             D == {p \in P : p[2] \in SealedBatchIndices[p[1]]}
             T == N!ChunksFor(Para, capacity)
             f == [p \in D |-> <<p[1], N!ChunkOf(p[1], p[2], capacity)>>]
  <1>1. CASE ~ capacity > 0
    <2>1. T = {}
      BY <1>1 DEF N!ChunksFor
    <2> QED
      BY <2>1, FS_EmptySet
  <1>2. CASE capacity > 0
    <2>1. IsFiniteSet(RingIndex)
      <3>1. 0 \in Int /\ RingCount - 1 \in Int
        BY ContentAssumption
      <3> QED
        BY <3>1, FS_Interval DEF RingIndex
    <2>2. IsFiniteSet(SubscriberInfo[Para].collections)
      BY ContentAssumption, FS_Subset DEF InfoTypeOK
    <2>3. IsFiniteSet(P)
      BY <2>1, <2>2, FS_Product
    <2>4. IsFiniteSet(D)
      BY <2>3, FS_Subset
    <2>5. ASSUME NEW p \in D PROVE f[p] \in T
      <3>1. <<Para, p[1], p[2]>> \in N!BatchFor(Para)
        BY DEF N!BatchFor
      <3> QED
        BY <1>2, <3>1 DEF N!ChunksFor
    <2>6. ASSUME NEW t \in T PROVE \E p \in D : f[p] = t
      <3>1. PICK u \in N!BatchFor(Para) : t = <<u[2], N!ChunkOf(u[2], u[3], capacity)>>
        BY DEF N!ChunksFor
      <3>2. <<u[2], u[3]>> \in D
        BY DEF N!BatchFor
      <3>3. f[<<u[2], u[3]>>] = t
        BY <3>1, <3>2
      <3> QED
        BY <3>2, <3>3
    <2>7. f \in [D -> T]
      BY <2>5
    <2> HIDE DEF f, D, T, P
    <2>8. f \in Surjection(D, T)
      BY <2>6, <2>7 DEF Surjection
    <2>9. IsFiniteSet(T)
      BY <2>4, <2>8, FS_Surjection
    <2> QED
      BY <2>9 DEF T
  <1> QED
    BY <1>1, <1>2

LEMMA BatchMessagesFresh ==
    ASSUME InfoTypeOK, NEW capacity, NEW failed
    PROVE  Fresh(BatchMessages(capacity, failed))
  <1> DEFINE sent == N!ChunksFor(Para, capacity) \ failed
             n == Cardinality(sent)
             messages == BatchMessages(capacity, failed)
  <1>1. n \in Nat
    BY FiniteChunks, FS_Difference, FS_CardinalityType
  <1>2. /\ DOMAIN messages = 1 .. n
        /\ \A i \in 1 .. n : \E c, indices, sequence, source_time :
                messages[i].batch = BatchOf(c, indices, sequence, source_time)
    BY DEF BatchMessages, UpdateMessage
  <1>3. messages = [i \in 1 .. n |-> messages[i]]
    BY DEF BatchMessages
  <1> HIDE DEF messages, n
  <1>4. messages \in Seq({messages[i] : i \in 1 .. n})
    BY <1>1, <1>3, SeqDef
  <1>5. Len(messages) = n
    BY <1>1, <1>3, <1>4, LenProperties
  <1>6. IsSeq(messages)
    BY <1>1, <1>3, <1>5 DEF IsSeq
  <1>7. Fresh(messages)
    BY <1>2, <1>5, <1>6, BatchFresh DEF Fresh
  <1> QED
    BY <1>7 DEF messages

\* The calls of the notifier leave the roots alone and subscribe to known collections.
LEMMA SubscribeKeeps ==
    ASSUME InfoTypeOK, N!subscribe(Para) PROVE Root' = Root /\ InfoTypeOK'
  <1>1. PICK collections \in N!CollectionLists : N!do_subscribe(Para, collections)
    BY DEF N!subscribe
  <1>2. collections \subseteq Identifier
    BY DEF N!CollectionLists
  <1>3. /\ Root' = Root
        /\ SubscriberInfo' = [SubscriberInfo EXCEPT ![Para] =
                [collections |-> collections, last_init_sequence |-> SealedBatchSequence]]
    BY <1>1 DEF N!do_subscribe, N!provider
  <1> QED
    BY <1>2, <1>3 DEF InfoTypeOK, ParaId

LEMMA UnsubscribeKeeps ==
    ASSUME InfoTypeOK, N!unsubscribe(Para) PROVE Root' = Root /\ InfoTypeOK'
  <1>1. Root' = Root /\ SubscriberInfo' = [SubscriberInfo EXCEPT ![Para] = N!NoInfo]
    BY DEF N!unsubscribe, N!provider
  <1> QED
    BY <1>1 DEF InfoTypeOK, ParaId, N!NoInfo

LEMMA InfoKept == InfoTypeOK /\ SubscriberInfo' = SubscriberInfo => InfoTypeOK'
  BY DEF InfoTypeOK

LEMMA ReplaySends ==
    ASSUME Inv, NEW c, NEW indices, Replay(c, indices),
           UNCHANGED <<retired, RingRoots, CurrentGeneration>>
    PROVE  Inv'
  <1>1. PICK capacity \in ChannelCapacity :
            /\ N!request_replay(Para, c, indices, capacity)
            /\ Sends(<<UpdateMessage(BatchOf(c, indices, SealedBatchSequence, now))>>)
    BY DEF Replay
  <1>2. Root' = Root /\ SubscriberInfo' = SubscriberInfo
    BY <1>1 DEF N!request_replay, N!provider
  <1>3. PICK m : m = UpdateMessage(BatchOf(c, indices, SealedBatchSequence, now))
    OBVIOUS
  <1>4. down' = down \o <<m>>
    BY <1>1, <1>3 DEF Sends
  <1>5. m.batch = BatchOf(c, indices, SealedBatchSequence, now)
    BY <1>3 DEF UpdateMessage
  <1>6. Fresh(<<m>>)
    BY <1>5, OneMessage
  <1> QED
    BY <1>2, <1>4, <1>6, InfoKept, SendStep DEF Inv, TypeInv

-----------------------------------------------------------------------------
(* The steps *)

LEMMA SyncInit == Init => Inv
  <1> SUFFICES ASSUME Init PROVE Inv
    OBVIOUS
  <1>1. /\ Root = [c \in Identifier |-> [r \in RingIndex |-> NoRoot]]
        /\ SubscriberInfo = [p \in ParaId |-> N!NoInfo]
        /\ down = <<>> /\ CurrentGeneration = 0
    BY DEF Init, N!Init, S!Init
  <1>2. RingRoots = [g \in 0 .. MaxGeneration |->
                        [c \in Identifier |-> [r \in RingIndex |-> <<>>]]]
    BY RingIndexType DEF Init, S!Init, S!NoWindows
  <1>3. /\ \A g \in 0 .. MaxGeneration : DOMAIN RingRoots[g] = Identifier
        /\ \A g \in 0 .. MaxGeneration, c \in Identifier, r \in RingIndex :
                RingRoots[g][c][r] = <<>>
    BY <1>2
  <1>4. CurrentGeneration \in 0 .. MaxGeneration /\ DOMAIN RingRoots = 0 .. MaxGeneration
    BY <1>1, <1>2, ContentAssumption
  <1>5. IsWindow(<<>>) /\ Last(<<>>) = NoRoot
    BY EmptyIsSeq, EmptySeq DEF IsWindow, Last
  <1>6. StoreTypeOK
    BY <1>3, <1>4, <1>5 DEF StoreTypeOK
  <1>7. RootTypeOK
    BY <1>1 DEF RootTypeOK
  <1>8. InfoTypeOK
    BY <1>1 DEF InfoTypeOK, ParaId, N!NoInfo
  <1>9. IsSeq(down) /\ 1 .. Len(down) = {}
    BY <1>1, EmptyIsSeq, EmptySeq
  <1>10. \A c \in Identifier, r \in RingIndex : Newest(c, r) = NoRoot
    BY <1>3, <1>4, <1>5, NewestIsLast
  <1>11. FutureEmpty
    BY <1>3 DEF FutureEmpty
  <1>12. ChannelIssued /\ ChannelInOrder /\ StoreBehind
    BY <1>9 DEF ChannelIssued, ChannelInOrder, StoreBehind
  <1>13. StoreIssued
    BY <1>10 DEF StoreIssued
  <1> QED
    BY <1>6, <1>7, <1>8, <1>9, <1>11, <1>12, <1>13 DEF Inv, TypeInv, OrderInv

\* The people chain: the store stays as it is.
LEMMA PeopleChainStep ==
    ASSUME Inv,
           \/ Subscribe \/ Unsubscribe \/ EnqueueUpdates \/ SendBatch \/ SendInitPage
           \/ AbandonStuckBatch \/ RequestReplay \/ RootChange \/ CollectionChange
           \/ ReceiveUp
    PROVE  Inv' /\ RingRoots' = RingRoots /\ CurrentGeneration' = CurrentGeneration
  <1> USE DEF subscriber, history
  <1>0. InfoTypeOK
    BY DEF Inv, TypeInv
  <1>1. CASE Subscribe
    <2>1. N!subscribe(Para) /\ UNCHANGED <<retired, down, RingRoots, CurrentGeneration>>
      BY <1>1 DEF Subscribe
    <2> QED
      BY <1>0, <2>1, SubscribeKeeps, QuietStep
  <1>2. CASE Unsubscribe
    <2>1. N!unsubscribe(Para) /\ UNCHANGED <<retired, RingRoots, CurrentGeneration>>
      BY <1>2 DEF Unsubscribe
    <2>2. Root' = Root /\ InfoTypeOK'
      BY <1>0, <2>1, UnsubscribeKeeps
    <2>3. CASE Sends(<<TerminateMessage>>)
      <3>1. down' = down \o <<TerminateMessage>>
        BY <2>3 DEF Sends
      <3>2. PICK messages : messages = <<TerminateMessage>>
        OBVIOUS
      <3>3. Fresh(messages)
        BY <3>2, TerminateFresh
      <3> QED
        BY <2>1, <2>2, <3>1, <3>2, <3>3, SendStep
    <2>4. CASE UNCHANGED down
      BY <2>1, <2>2, <2>4, QuietStep
    <2> QED
      BY <1>2, <2>3, <2>4 DEF Unsubscribe
  <1>3. CASE EnqueueUpdates
    <2>1. UNCHANGED <<Root, SubscriberInfo, retired, down, RingRoots, CurrentGeneration>>
      BY <1>3 DEF EnqueueUpdates, N!enqueue_updates, N!provider
    <2> QED
      BY <1>0, <2>1, InfoKept, QuietStep
  <1>4. CASE SendBatch
    <2>1. PICK capacity \in ChannelCapacity :
            \E failed \in SUBSET N!ChunksFor(Para, capacity) :
                /\ N!send_batch(Para, capacity, failed)
                /\ Sends(BatchMessages(capacity, failed))
                /\ UNCHANGED <<subscriber, up, history>>
      BY <1>4 DEF SendBatch
    <2>2. PICK failed \in SUBSET N!ChunksFor(Para, capacity) :
                /\ N!send_batch(Para, capacity, failed)
                /\ Sends(BatchMessages(capacity, failed))
                /\ UNCHANGED <<subscriber, up, history>>
      BY <2>1
    <2>3. UNCHANGED <<Root, SubscriberInfo>>
      BY <2>2 DEF N!send_batch, N!provider
    <2>4. PICK messages : messages = BatchMessages(capacity, failed)
      OBVIOUS
    <2>5. Fresh(messages)
      BY <1>0, <2>4, BatchMessagesFresh
    <2>6. down' = down \o messages
      BY <2>2, <2>4 DEF Sends
    <2>7. UNCHANGED <<retired, RingRoots, CurrentGeneration>>
      BY <2>2
    <2> QED
      BY <1>0, <2>3, <2>5, <2>6, <2>7, InfoKept, SendStep
  <1>5. CASE SendInitPage
    <2>1. CASE \E c \in Identifier, capacity \in ChannelCapacity, rings \in SUBSET RingIndex :
                /\ N!send_init_page(Para, c, capacity, rings)
                /\ Sends(<<InitMessage(build_init_batch(c, rings))>>)
                /\ UNCHANGED <<subscriber, up, history>>
      <3>1. PICK c \in Identifier, capacity \in ChannelCapacity, rings \in SUBSET RingIndex :
                /\ N!send_init_page(Para, c, capacity, rings)
                /\ Sends(<<InitMessage(build_init_batch(c, rings))>>)
                /\ UNCHANGED <<subscriber, up, history>>
        BY <2>1
      <3>2. UNCHANGED <<Root, SubscriberInfo>>
        BY <3>1 DEF N!send_init_page, N!provider
      <3>3. PICK m : m = InitMessage(build_init_batch(c, rings))
        OBVIOUS
      <3>4. m.batch = BatchOf(c, rings, InitState[Para].sequence, InitState[Para].source_time)
        BY <3>3 DEF InitMessage, build_init_batch
      <3>5. Fresh(<<m>>)
        BY <3>4, OneMessage
      <3>6. down' = down \o <<m>>
        BY <3>1, <3>3 DEF Sends
      <3>7. UNCHANGED <<retired, RingRoots, CurrentGeneration>>
        BY <3>1
      <3> QED
        BY <1>0, <3>2, <3>5, <3>6, <3>7, InfoKept, SendStep
    <2>2. CASE \E capacity \in ChannelCapacity :
                /\ N!send_init_page_done(Para, capacity)
                /\ UNCHANGED <<subscriber, down, up, history>>
      <3>1. UNCHANGED <<Root, SubscriberInfo, retired, down, RingRoots, CurrentGeneration>>
        BY <2>2 DEF N!send_init_page_done, N!provider
      <3> QED
        BY <1>0, <3>1, InfoKept, QuietStep
    <2> QED
      BY <1>5, <2>1, <2>2 DEF SendInitPage
  <1>6. CASE AbandonStuckBatch
    <2>1. UNCHANGED <<Root, SubscriberInfo, retired, down, RingRoots, CurrentGeneration>>
      BY <1>6 DEF AbandonStuckBatch, N!abandon_stuck_batch, N!provider
    <2> QED
      BY <1>0, <2>1, InfoKept, QuietStep
  <1>7. CASE RequestReplay
    <2>1. PICK c \in Identifier, indices \in SUBSET RingIndex : Replay(c, indices)
      BY <1>7 DEF RequestReplay
    <2> QED
      BY <1>7, <2>1, ReplaySends DEF RequestReplay
  <1>8. CASE RootChange
    <2>1. PICK c \in Identifier, r \in RingIndex, root \in Revision \union {NoRoot} :
            /\ <<c, r>> \notin retired
            /\ root # NoRoot => root = NextRevision(c, r)
            /\ N!RingRootChange(c, r, root)
            /\ retired' = IF root = NoRoot THEN retired \union {<<c, r>>} ELSE retired
            /\ UNCHANGED <<subscriber, down, up, epoch, store_epoch, send_failed>>
      BY <1>8 DEF RootChange
    <2>2. /\ Root' = [Root EXCEPT ![c][r] = root]
          /\ SubscriberInfo' = SubscriberInfo
      BY <2>1 DEF N!RingRootChange
    <2>3. UNCHANGED <<down, RingRoots, CurrentGeneration>>
      BY <2>1
    <2> QED
      BY <1>0, <2>1, <2>2, <2>3, InfoKept, RootStep
  <1>9. CASE CollectionChange
    <2>1. UNCHANGED <<Root, SubscriberInfo, retired, down, RingRoots, CurrentGeneration>>
      BY <1>9 DEF CollectionChange, N!NextRing, N!DeleteCollection,
                  N!FinalizeCollectionDeletion, N!storage
    <2> QED
      BY <1>0, <2>1, InfoKept, QuietStep
  <1>10. CASE ReceiveUp
    <2>1. UNCHANGED <<retired, RingRoots, CurrentGeneration>>
      BY <1>10 DEF ReceiveUp
    <2>2. CASE N!unsubscribe(Para) /\ UNCHANGED down
      BY <1>0, <2>1, <2>2, UnsubscribeKeeps, QuietStep
    <2>3. CASE UNCHANGED <<notifier, now, down>>
      <3>1. UNCHANGED <<Root, SubscriberInfo, down>>
        BY <2>3 DEF notifier
      <3> QED
        BY <1>0, <2>1, <3>1, InfoKept, QuietStep
    <2>4. CASE Replay(Head(up).identifier, Head(up).indices)
      <3>1. PICK c, indices : c = Head(up).identifier /\ indices = Head(up).indices
        OBVIOUS
      <3>2. Replay(c, indices)
        BY <2>4, <3>1
      <3> QED
        BY <2>1, <3>2, ReplaySends
    <2> QED
      BY <1>10, <2>2, <2>3, <2>4 DEF ReceiveUp
  <1> QED
    BY <1>1, <1>2, <1>3, <1>4, <1>5, <1>6, <1>7, <1>8, <1>9, <1>10

\* What NeverBack says of a step.
NotBack ==
    \A c \in Identifier, r \in RingIndex :
        (CurrentGeneration' = CurrentGeneration /\ Newest(c, r) # NoRoot /\ Newest(c, r)' # NoRoot)
            => Newest(c, r) <= Newest(c, r)'

LEMMA SameStore ==
    ASSUME Inv, \A c \in Identifier, r \in RingIndex : Newest(c, r)' = Newest(c, r)
    PROVE  NotBack
  <1> SUFFICES ASSUME NEW c \in Identifier, NEW r \in RingIndex, Newest(c, r) # NoRoot
               PROVE  Newest(c, r) <= Newest(c, r)'
    BY DEF NotBack
  <1>1. Newest(c, r) \in Revision
    BY DEF Inv, OrderInv, StoreIssued, Issued
  <1> QED
    BY <1>1, RevisionType

LEMMA SameRoots ==
    ASSUME Inv, UNCHANGED <<RingRoots, CurrentGeneration>> PROVE NotBack
  <1>1. \A c \in Identifier, r \in RingIndex : Newest(c, r)' = Newest(c, r)
    BY NewestIsLast
  <1> QED
    BY <1>1, SameStore

\* A generation that begins has nothing to go back from.
LEMMA NextGeneration ==
    ASSUME Inv, S!clear_all_ring_data PROVE NotBack
  <1>1. CurrentGeneration' = CurrentGeneration + 1 /\ CurrentGeneration \in Int
    BY DEF S!clear_all_ring_data, Inv, TypeInv, StoreTypeOK
  <1> QED
    BY <1>1 DEF NotBack

\* The message at the head of the channel is executed.
LEMMA ReceiveDownStep ==
    ASSUME Inv, ReceiveDown PROVE Inv' /\ NotBack
  <1> DEFINE batch == Head(down).batch
  <1>1. /\ down # <<>> /\ down' = Tail(down)
        /\ UNCHANGED <<Root, SubscriberInfo, retired>>
    BY DEF ReceiveDown, notifier
  <1>2. InfoTypeOK'
    BY <1>1, InfoKept DEF Inv, TypeInv
  <1>3. CurrentGeneration \in 0 .. MaxGeneration
    BY DEF Inv, TypeInv, StoreTypeOK
  <1>4. ASSUME NEW g \in 0 .. MaxGeneration, g = CurrentGeneration \/ g = CurrentGeneration + 1,
               CurrentGeneration' = g,
               NEW states, NEW before, S!store_ring_roots(batch, g, states, before)
        PROVE  Inv' /\ NotBack
    <2>1. PICK b : b = batch
      OBVIOUS
    <2>2. RingRoots' = [RingRoots EXCEPT ![g] = [RingRoots[g] EXCEPT ![b.identifier] =
                            S!WindowsAfter(RingRoots[g][b.identifier], b)]]
      BY <1>4, <2>1 DEF S!store_ring_roots
    <2>3. /\ Inv'
          /\ \A c \in Identifier, r \in RingIndex :
                    g = CurrentGeneration /\ Newest(c, r) # NoRoot /\ Newest(c, r)' # NoRoot
                        => Newest(c, r) <= Newest(c, r)'
      BY <1>1, <1>4, <2>1, <2>2, StoreStep
    <2> QED
      BY <1>4, <2>3 DEF NotBack
  <1>5. CASE S!initialize_ring_roots(batch)
    <2>1. CASE /\ S!store_ring_roots(batch, CurrentGeneration, RingCollectionStates, given_up)
               /\ CurrentGeneration' = CurrentGeneration
      <3>1. PICK g, states, before : /\ g = CurrentGeneration
                                     /\ states = RingCollectionStates /\ before = given_up
        OBVIOUS
      <3> QED
        BY <1>3, <1>4, <2>1, <3>1
    <2>2. CASE /\ S!clear_all_ring_data
               /\ S!store_ring_roots(batch, CurrentGeneration + 1, S!NoStates, {})
      <3>1. PICK g, states, before : /\ g = CurrentGeneration + 1
                                     /\ states = S!NoStates /\ before = {}
        OBVIOUS
      <3>2. g \in 0 .. MaxGeneration /\ CurrentGeneration' = g
        BY <1>3, <2>2, <3>1, ContentAssumption DEF S!clear_all_ring_data
      <3>3. S!store_ring_roots(batch, g, states, before)
        BY <2>2, <3>1
      <3> QED
        BY <1>4, <3>1, <3>2, <3>3
    <2> QED
      BY <1>5, <2>1, <2>2 DEF S!initialize_ring_roots
  <1>6. CASE S!process_ring_updates(batch)
    <2>1. /\ S!store_ring_roots(batch, CurrentGeneration, RingCollectionStates, given_up)
          /\ CurrentGeneration' = CurrentGeneration
      BY <1>6 DEF S!process_ring_updates
    <2>2. PICK g, states, before : /\ g = CurrentGeneration
                                   /\ states = RingCollectionStates /\ before = given_up
      OBVIOUS
    <2> QED
      BY <1>3, <1>4, <2>1, <2>2
  <1>7. CASE S!terminate_subscription
    <2>1. S!clear_all_ring_data /\ UNCHANGED RingRoots
      BY <1>7 DEF S!terminate_subscription
    <2> QED
      BY <1>1, <2>1, ClearStep, NextGeneration
  <1>8. CASE UNCHANGED <<subscriber, now, store_epoch>>
    <2>1. UNCHANGED <<RingRoots, CurrentGeneration>>
      BY <1>8 DEF subscriber
    <2> QED
      BY <1>1, <1>2, <2>1, TakeStep, SameRoots
  <1> HIDE DEF batch
  <1>9. \/ S!initialize_ring_roots(batch) \/ S!process_ring_updates(batch)
        \/ S!terminate_subscription \/ UNCHANGED <<subscriber, now, store_epoch>>
    BY DEF ReceiveDown, batch
  <1> QED
    BY <1>5, <1>6, <1>7, <1>8, <1>9

\* The other calls of the subscriber chain.
LEMMA SubscriberChainStep ==
    ASSUME Inv, TerminateLocally \/ ReplayMissing \/ DetectMissing \/ Purge
    PROVE  Inv' /\ NotBack
  <1>1. UNCHANGED <<Root, SubscriberInfo, retired, down>>
    BY DEF TerminateLocally, ReplayMissing, DetectMissing, Purge, notifier, history
  <1>2. InfoTypeOK'
    BY <1>1, InfoKept DEF Inv, TypeInv
  <1>3. CASE TerminateLocally
    <2>1. S!clear_all_ring_data /\ UNCHANGED RingRoots
      BY <1>3 DEF TerminateLocally, S!terminate_subscription
    <2> QED
      BY <1>1, <2>1, ClearStep, NextGeneration
  <1>4. CASE ReplayMissing
    <2>1. UNCHANGED <<RingRoots, CurrentGeneration>>
      BY <1>4 DEF ReplayMissing, S!replay_missing_roots, S!roots
    <2> QED
      BY <1>1, <1>2, <2>1, QuietStep, SameRoots
  <1>5. CASE DetectMissing
    <2>1. UNCHANGED <<RingRoots, CurrentGeneration>>
      BY <1>5 DEF DetectMissing, S!detect_missing_rings, S!roots
    <2> QED
      BY <1>1, <1>2, <2>1, QuietStep, SameRoots
  <1>6. CASE Purge
    <2>1. PICK removed \in SUBSET (Identifier \X RingIndex) : S!purge_stale_ring_roots(removed)
      BY <1>6 DEF Purge
    <2> QED
      BY <1>1, <2>1, PurgeStep, SameStore
  <1> QED
    BY <1>3, <1>4, <1>5, <1>6

LEMMA SyncStep == Inv /\ [Next]_vars => Inv' /\ NotBack
  <1> SUFFICES ASSUME Inv, [Next]_vars PROVE Inv' /\ NotBack
    OBVIOUS
  <1>1. CASE \/ Subscribe \/ Unsubscribe \/ EnqueueUpdates \/ SendBatch \/ SendInitPage
             \/ AbandonStuckBatch \/ RequestReplay \/ RootChange \/ CollectionChange
             \/ ReceiveUp
    BY <1>1, PeopleChainStep, SameRoots
  <1>2. CASE ReceiveDown
    BY <1>2, ReceiveDownStep
  <1>3. CASE TerminateLocally \/ ReplayMissing \/ DetectMissing \/ Purge
    BY <1>3, SubscriberChainStep
  <1>4. CASE Tick \/ UNCHANGED vars
    <2>1. UNCHANGED <<Root, SubscriberInfo, retired, down, RingRoots, CurrentGeneration>>
      BY <1>4 DEF Tick, vars, notifier, subscriber, history
    <2>2. InfoTypeOK'
      BY <2>1, InfoKept DEF Inv, TypeInv
    <2> QED
      BY <2>1, <2>2, QuietStep, SameRoots
  <1> QED
    BY <1>1, <1>2, <1>3, <1>4 DEF Next

\* Messages carry roots of the moment they are sent and arrive in the order they were
\* sent, so that the revisions of a ring on their way are in order, none older than the
\* subscriber's nor newer than the notifier's (send_batch, send_init_page, request_replay
\* and store_ring_roots).
THEOREM ChannelOrdered == Spec => []Inv
  <1>1. Inv /\ [Next]_vars => Inv'
    BY SyncStep
  <1> QED
    BY <1>1, SyncInit, PTL DEF Spec

\* Replays, chunks sent again and late pages of an initialisation never take the
\* subscriber back to an older root of a ring (store_ring_roots).
THEOREM NeverBackCorrect == Spec => NeverBack
  <1>1. Inv /\ [Next]_vars => [NotBack]_vars
    BY SyncStep
  <1>2. Inv /\ [Next]_vars =>
            [\A c \in Identifier, r \in RingIndex :
                (CurrentGeneration' = CurrentGeneration /\ Newest(c, r) # NoRoot
                                                        /\ Newest(c, r)' # NoRoot)
                    => Newest(c, r) <= Newest(c, r)']_vars
    BY <1>1 DEF NotBack
  <1> QED
    BY <1>2, ChannelOrdered, PTL DEF Spec, NeverBack
=============================================================================

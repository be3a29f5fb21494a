---------------------------- MODULE MobRuleProofs ----------------------------
(* Theorems about MobRule, for every set of voters and every number of cases: mob-rule is the  *)
(* oracle StatementOracle describes, and the verdict of a case is that of its votes.            *)
EXTENDS MobRule, FiniteSetTheorems, TLAPS

-----------------------------------------------------------------------------
(* The inductive invariant *)

OpenCase == [since : Nat, tally : [Judgement -> Nat]]
DoneCase == [since : Nat, verdict : Judgement]

Types ==
    /\ CaseCount \in 0 .. MaxCases
    /\ OpenCases \in [Case -> OpenCase \union {None}]
    /\ RipeCases \in [Case -> Judgement \union {None}]
    /\ DoneCases \in [Case -> DoneCase \union {None}]
    /\ callbacks \in [Case -> Seq(Judgement)]
    /\ Votes \in [Case -> [Voter -> Judgement \union {None}]]
    /\ active_count \in Nat /\ now \in Nat

\* The record of a voter; nothing is said about what the voter is owed.
CreditsOK ==
    /\ Credits = [v \in Voter |-> Credits[v]]
    /\ \A v \in Voter :
        /\ Credits[v] = [voted |-> Credits[v].voted, cleaned |-> Credits[v].cleaned,
                         correct |-> Credits[v].correct, credit |-> Credits[v].credit]
        /\ Credits[v].voted \in Nat /\ Credits[v].cleaned \in Nat /\ Credits[v].correct \in Nat

\* A case is open, ripe or done, in this order, and its callback was not dispatched before it
\* is done; of a case to come there is nothing yet.
LifeOK(c) ==
    /\ OpenCases[c] # None => c < CaseCount /\ RipeCases[c] = None /\ callbacks[c] = <<>>
    /\ RipeCases[c] # None => c < CaseCount /\ callbacks[c] = <<>>
    /\ DoneCases[c] # None => c < CaseCount /\ OpenCases[c] = None /\ RipeCases[c] = None
    /\ c >= CaseCount => callbacks[c] = <<>> /\ \A v \in Voter : Votes[c][v] = None

Life == \A c \in Case : LifeOK(c)

\* How the votes of a case are counted, and what they decide.
Tallied(c) ==
    \A opinion \in Judgement : OpenCases[c].tally[opinion] = Standing(c, opinion)

VerdictOf(for, against, contempt) ==
    CASE for > against + contempt -> "True"
      [] for <= against + contempt /\ contempt >= against /\ contempt > 0 -> "Contempt"
      [] OTHER -> "False"

Decided(c) ==
    RipeCases[c] = VerdictOf(Standing(c, "True"), Standing(c, "False"), Standing(c, "Contempt"))

VerdictOK(c) == (OpenCases[c] # None => Tallied(c)) /\ (RipeCases[c] # None => Decided(c))

Verdicts == \A c \in Case : VerdictOK(c)

\* The cases a person has a vote stored in.
VotedIn(v) == {c \in Case : Votes[c][v] # None}

AccountOK(v) ==
    /\ Credits[v].voted = Credits[v].cleaned + Cardinality(VotedIn(v))
    /\ Credits[v].correct <= Credits[v].cleaned

Accounts == \A v \in Voter : AccountOK(v)

IInv == Types /\ CreditsOK /\ Life /\ Verdicts /\ Accounts

-----------------------------------------------------------------------------
(* Lemmas about the model's operators *)

\* The verdict of a tally is the one its three counts decide (collapsed_verdict).
LEMMA CollapsedIs ==
    ASSUME NEW tally \in [Judgement -> Nat]
    PROVE  /\ collapsed_verdict(tally) \in Judgement
           /\ collapsed_verdict(tally)
                = VerdictOf(tally["True"], tally["False"], tally["Contempt"])
<1>1. PICK t \in Nat : t = tally["True"]
    BY DEF Judgement
<1>2. PICK f \in Nat : f = tally["False"]
    BY DEF Judgement
<1>3. PICK k \in Nat : k = tally["Contempt"]
    BY DEF Judgement
<1>4. collapsed_verdict(tally)
        = CASE t + f + k = 0 -> "False"
            [] t > f + k -> "True"
            [] OTHER -> IF k >= f THEN "Contempt" ELSE "False"
    BY <1>1, <1>2, <1>3 DEF collapsed_verdict, vote_count, nay_weight
<1>5. VerdictOf(t, f, k)
        = CASE t > f + k -> "True"
            [] t <= f + k /\ k >= f /\ k > 0 -> "Contempt"
            [] OTHER -> "False"
    BY DEF VerdictOf
<1>6. CASE t + f + k = 0
    BY <1>1, <1>2, <1>3, <1>4, <1>5, <1>6 DEF Judgement
<1>7. CASE t + f + k # 0 /\ t > f + k
    BY <1>1, <1>2, <1>3, <1>4, <1>5, <1>7 DEF Judgement
<1>8. CASE t + f + k # 0 /\ ~ (t > f + k) /\ k >= f
    BY <1>1, <1>2, <1>3, <1>4, <1>5, <1>8 DEF Judgement
<1>9. CASE t + f + k # 0 /\ ~ (t > f + k) /\ ~ (k >= f)
    BY <1>1, <1>2, <1>3, <1>4, <1>5, <1>9 DEF Judgement
<1>. QED
    BY <1>6, <1>7, <1>8, <1>9

\* There are finitely many cases.
LEMMA CasesFinite == IsFiniteSet(Case)
    BY Limits, FS_Interval DEF Case

\* Removing a part of a finite set removes as many as the part has.
LEMMA PartRemoved ==
    ASSUME NEW S, IsFiniteSet(S), NEW T \in SUBSET S
    PROVE  Cardinality(S \ T) = Cardinality(S) - Cardinality(T)
<1>1. S \intersect T = T
    OBVIOUS
<1>. QED
    BY <1>1, FS_Difference

\* The votes that stand in a case are finitely many (Standing).
LEMMA StandingIs ==
    ASSUME Types, NEW c \in Case, NEW opinion
    PROVE  /\ Standing(c, opinion) = Cardinality({v \in Voter : Votes[c][v] = opinion})
           /\ IsFiniteSet({v \in Voter : Votes[c][v] = opinion})
           /\ Standing(c, opinion) \in Nat
<1>1. DOMAIN Votes[c] = Voter
    BY DEF Types
<1>2. IsFiniteSet({v \in Voter : Votes[c][v] = opinion})
    BY FS_Subset, Voting
<1>. QED
    BY <1>1, <1>2, FS_CardinalityType DEF Standing

\* Casting a vote moves one vote in the tally, from the old opinion to the new (Counted).
LEMMA CountedIs ==
    ASSUME Types, NEW c \in Case, NEW v \in Voter, NEW opinion \in Judgement,
           OpenCases[c] # None, Tallied(c),
           Votes' = [Votes EXCEPT ![c][v] = opinion]
    PROVE  /\ Counted(c, v, opinion) \in [Judgement -> Nat]
           /\ \A o \in Judgement : Counted(c, v, opinion)[o] = Standing(c, o)'
<1>1. PICK tally \in [Judgement -> Nat] : tally = OpenCases[c].tally
    BY DEF Types, OpenCase
<1>2. PICK old \in Judgement \union {None} : old = Votes[c][v]
    BY DEF Types
<1>3. \A o \in Judgement : tally[o] = Standing(c, o)
    BY <1>1 DEF Tallied
<1>4. \A w \in Voter : Votes'[c][w] = IF w = v THEN opinion ELSE Votes[c][w]
    BY DEF Types
<1>5. PICK disc : disc = IF old = None THEN tally ELSE [tally EXCEPT ![old] = Dec(@)]
    OBVIOUS
<1>6. Counted(c, v, opinion) = [disc EXCEPT ![opinion] = @ + 1]
    BY <1>1, <1>2, <1>5, Zenon DEF Counted
<1>7. /\ disc \in [Judgement -> Nat]
      /\ \A o \in Judgement : disc[o] = IF o = old THEN Dec(tally[o]) ELSE tally[o]
  <2>1. None \notin Judgement
    BY Voting
  <2>2. \A n \in Nat : Dec(n) \in Nat
    BY DEF Dec
  <2>3. CASE old = None
    BY <2>1, <2>3, <1>5
  <2>4. CASE old \in Judgement
    BY <2>1, <2>2, <2>4, <1>5
  <2>. QED
    BY <1>2, <2>3, <2>4
<1>8. /\ Counted(c, v, opinion) \in [Judgement -> Nat]
      /\ \A o \in Judgement :
            Counted(c, v, opinion)[o] = IF o = opinion THEN disc[o] + 1 ELSE disc[o]
    BY <1>6, <1>7
<1>9. ASSUME NEW o \in Judgement
      PROVE  Counted(c, v, opinion)[o] = Standing(c, o)'
  <2> DEFINE S == {w \in Voter : Votes[c][w] = o}
  <2>1. IsFiniteSet(S) /\ Cardinality(S) = tally[o] /\ Cardinality(S) \in Nat
    BY <1>3, StandingIs
  <2>2. Standing(c, o)' = Cardinality({w \in Voter : Votes'[c][w] = o})
    <3>1. Votes'[c] = [Votes[c] EXCEPT ![v] = opinion]
        BY DEF Types
    <3>2. DOMAIN Votes'[c] = Voter
        BY <3>1 DEF Types
    <3>. QED
        BY <3>2 DEF Standing
  <2>3. v \in S <=> old = o
    BY <1>2
  <2>4. CASE o = opinion
    <3>1. {w \in Voter : Votes'[c][w] = o} = S \union {v}
        BY <1>4, <2>4
    <3>2. Cardinality(S \union {v}) = IF v \in S THEN Cardinality(S) ELSE Cardinality(S) + 1
        BY <2>1, FS_AddElement
    <3>3. v \in S => Cardinality(S) # 0
        BY <2>1, FS_EmptySet
    <3>4. disc[o] = IF v \in S THEN Dec(tally[o]) ELSE tally[o]
        BY <1>7, <2>3
    <3>5. Counted(c, v, opinion)[o] = disc[o] + 1
        BY <1>8, <2>4
    <3>6. CASE v \in S
      <4>1. PICK n \in Nat : n = tally[o]
        BY <2>1
      <4>2. n = Standing(c, o)' /\ n # 0
        BY <4>1, <2>1, <2>2, <3>1, <3>2, <3>3, <3>6
      <4>3. disc[o] = n - 1
        BY <4>1, <4>2, <3>4, <3>6 DEF Dec
      <4>. QED
        BY <4>2, <4>3, <3>5
    <3>7. CASE v \notin S
        BY <2>1, <2>2, <3>1, <3>2, <3>4, <3>5, <3>7
    <3>. QED
        BY <3>6, <3>7
  <2>5. CASE o # opinion
    <3>1. {w \in Voter : Votes'[c][w] = o} = S \ {v}
        BY <1>4, <2>5
    <3>2. Cardinality(S \ {v}) = IF v \in S THEN Cardinality(S) - 1 ELSE Cardinality(S)
        BY <2>1, FS_RemoveElement
    <3>3. v \in S => Cardinality(S) # 0
        BY <2>1, FS_EmptySet
    <3>4. disc[o] = IF v \in S THEN Dec(tally[o]) ELSE tally[o]
        BY <1>7, <2>3
    <3>5. Counted(c, v, opinion)[o] = disc[o]
        BY <1>8, <2>5
    <3>. QED
        BY <2>1, <2>2, <3>1, <3>2, <3>3, <3>4, <3>5 DEF Dec
  <2>. QED
    BY <2>4, <2>5
<1>. QED
    BY <1>8, <1>9

-----------------------------------------------------------------------------
(* Cases a step leaves alone, and the initial state *)

\* A case whose entries and votes a step does not touch stays as it was.
LEMMA CaseKept ==
    ASSUME Types, Types', NEW c \in Case, LifeOK(c), VerdictOK(c),
           OpenCases'[c] = OpenCases[c], RipeCases'[c] = RipeCases[c],
           DoneCases'[c] = DoneCases[c], callbacks'[c] = callbacks[c],
           Votes'[c] = Votes[c], CaseCount' >= CaseCount
    PROVE  LifeOK(c)' /\ VerdictOK(c)'
<1>1. c \in Int /\ CaseCount \in Int /\ CaseCount' \in Int
    BY Limits DEF Types, Case
<1>2. LifeOK(c)'
    BY <1>1 DEF LifeOK
<1>3. \A o : Standing(c, o)' = Standing(c, o)
    BY DEF Standing
<1>4. VerdictOK(c)'
    BY <1>3 DEF VerdictOK, Tallied, Decided
<1>. QED
    BY <1>2, <1>4

\* Steps that touch neither the cases nor the votes keep what is said of them.
LEMMA CasesKept ==
    ASSUME IInv, UNCHANGED <<caseVars, Votes>>, active_count' \in Nat, now' \in Nat
    PROVE  Types' /\ Life' /\ Verdicts'
<1>1. Types'
    BY DEF IInv, Types, caseVars
<1>2. ASSUME NEW c \in Case
      PROVE  LifeOK(c)' /\ VerdictOK(c)'
  <2>1. CaseCount' >= CaseCount
    BY Limits DEF IInv, Types, caseVars
  <2>. QED
    BY <1>1, <2>1, CaseKept DEF IInv, Life, Verdicts, caseVars
<1>. QED
    BY <1>1, <1>2 DEF Life, Verdicts

\* Steps that change neither the votes nor how many of them were cast, cleaned and right keep
\* the accounts.
LEMMA AccountsKept ==
    ASSUME IInv, UNCHANGED Votes, Credits' = [v \in Voter |-> Credits'[v]],
           \A v \in Voter :
              Credits'[v] = [voted |-> Credits[v].voted, cleaned |-> Credits[v].cleaned,
                             correct |-> Credits[v].correct, credit |-> Credits'[v].credit]
    PROVE  CreditsOK' /\ Accounts'
<1>1. ASSUME NEW v \in Voter
      PROVE  /\ Credits'[v].voted = Credits[v].voted
             /\ Credits'[v].cleaned = Credits[v].cleaned
             /\ Credits'[v].correct = Credits[v].correct
    OBVIOUS
<1>2. CreditsOK'
    BY <1>1 DEF IInv, CreditsOK
<1>3. \A v \in Voter : VotedIn(v)' = VotedIn(v)
    BY DEF VotedIn
<1>4. Accounts'
    BY <1>1, <1>3 DEF IInv, Accounts, AccountOK
<1>. QED
    BY <1>2, <1>4

\* The initial state satisfies the invariant (Init).
LEMMA InitInv == Init => IInv
<1> SUFFICES ASSUME Init PROVE IInv
    OBVIOUS
<1>1. Types
  <2>1. <<>> \in Seq(Judgement)
    OBVIOUS
  <2>. QED
    BY <2>1, Limits DEF Init, Types
<1>2. CreditsOK
    BY DEF Init, CreditsOK, NewCredit
<1>3. Life
    BY DEF Init, Life, LifeOK, Case
<1>4. Verdicts
    BY DEF Init, Verdicts, VerdictOK
<1>5. Accounts
  <2>1. ASSUME NEW v \in Voter
        PROVE  AccountOK(v)
    <3>1. VotedIn(v) = {}
        BY DEF Init, VotedIn
    <3>2. Cardinality(VotedIn(v)) = 0
        BY <3>1, FS_EmptySet
    <3>. QED
        BY <3>2 DEF Init, AccountOK, NewCredit
  <2>. QED
    BY <2>1 DEF Accounts
<1>. QED
    BY <1>1, <1>2, <1>3, <1>4, <1>5 DEF IInv

-----------------------------------------------------------------------------
(* The life of a case *)

\* A statement is submitted: the case is new and has no votes (judge_statement).
LEMMA JudgeStatement == IInv /\ judge_statement => IInv'
<1> SUFFICES ASSUME IInv, judge_statement PROVE IInv'
    OBVIOUS
<1> USE DEF judge_statement
<1>1. CaseCount \in Case /\ CaseCount \in Nat
    BY Limits DEF IInv, Types, Case
<1>2. EmptyTally \in [Judgement -> Nat] /\ \A o \in Judgement : EmptyTally[o] = 0
    BY DEF EmptyTally
<1>3. [since |-> now, tally |-> EmptyTally] \in OpenCase
    BY <1>2 DEF IInv, Types, OpenCase
<1>4. UNCHANGED <<RipeCases, DoneCases, callbacks, Votes, Credits, active_count, now>>
    BY DEF envVars
<1>5. Types'
    BY <1>1, <1>3, <1>4, Limits DEF IInv, Types
<1>6. \A c \in Case : c # CaseCount => OpenCases'[c] = OpenCases[c]
    BY DEF IInv, Types
<1>7. OpenCases'[CaseCount] = [since |-> now, tally |-> EmptyTally]
    BY <1>1 DEF IInv, Types
<1>8. ASSUME NEW c \in Case
      PROVE  LifeOK(c)' /\ VerdictOK(c)'
  <2>1. CASE c # CaseCount
    BY <1>1, <1>4, <1>5, <1>6, <2>1, CaseKept DEF IInv, Life, Verdicts
  <2>2. CASE c = CaseCount
    <3>1. /\ RipeCases[c] = None /\ DoneCases[c] = None /\ callbacks[c] = <<>>
          /\ \A v \in Voter : Votes[c][v] = None
        BY <1>1, <2>2 DEF IInv, Life, LifeOK
    <3>2. LifeOK(c)'
        BY <1>1, <1>4, <2>2, <3>1 DEF LifeOK
    <3>3. ASSUME NEW o \in Judgement
          PROVE  Standing(c, o)' = 0
      <4>1. DOMAIN Votes[c] = Voter
        BY DEF IInv, Types
      <4>2. {v \in DOMAIN Votes[c] : Votes[c][v] = o} = {}
        BY <3>1, <4>1, Voting
      <4>. QED
        BY <1>4, <4>2, FS_EmptySet DEF Standing
    <3>4. Tallied(c)'
        BY <1>2, <1>7, <2>2, <3>3 DEF Tallied
    <3>. QED
        BY <1>4, <3>1, <3>2, <3>4 DEF VerdictOK
  <2>. QED
    BY <2>1, <2>2
<1>9. CreditsOK' /\ Accounts'
    BY <1>4 DEF IInv, CreditsOK, Accounts, AccountOK, VotedIn
<1>. QED
    BY <1>5, <1>8, <1>9 DEF IInv, Life, Verdicts

\* A case with a tally that is the one of its votes stays open with it or ripens with the
\* verdict it decides (Settle: vote, touch_case).
LEMMA SettleStep ==
    ASSUME IInv, NEW c \in Case, NEW tally \in [Judgement -> Nat], OpenCases[c] # None,
           Settle(c, tally),
           UNCHANGED <<CaseCount, DoneCases, callbacks, active_count, now>>,
           Votes' \in [Case -> [Voter -> Judgement \union {None}]],
           \A d \in Case : d # c => Votes'[d] = Votes[d],
           \A o \in Judgement : tally[o] = Standing(c, o)'
    PROVE  Types' /\ Life' /\ Verdicts'
<1>1. PICK ripe \in BOOLEAN : ripe = Ripens(tally, OpenCases[c].since)
    BY DEF Ripens
<1>2. PICK open \in OpenCase \union {None} :
            open = IF ripe THEN None ELSE [OpenCases[c] EXCEPT !.tally = tally]
    BY DEF IInv, Types, OpenCase
<1>3. OpenCases' = [OpenCases EXCEPT ![c] = open]
    BY <1>1, <1>2 DEF Settle
<1>4. PICK ruling \in Judgement : ruling = collapsed_verdict(tally)
    BY CollapsedIs
<1>5. RipeCases' = [RipeCases EXCEPT ![c] = IF ripe THEN ruling ELSE @]
    BY <1>1, <1>4 DEF Settle
<1>6. Types'
    BY <1>3, <1>5 DEF IInv, Types
<1>7. c < CaseCount /\ RipeCases[c] = None /\ callbacks[c] = <<>> /\ DoneCases[c] = None
    BY DEF IInv, Life, LifeOK
<1>8. OpenCases'[c] = open /\ RipeCases'[c] = IF ripe THEN ruling ELSE None
    BY <1>3, <1>5, <1>7 DEF IInv, Types
<1>9. LifeOK(c)'
  <2>1. c \in Int /\ CaseCount \in Int
    BY Limits DEF IInv, Types, Case
  <2>. QED
    BY <1>2, <1>7, <1>8, <2>1 DEF LifeOK
<1>10. VerdictOK(c)'
  <2>1. CASE ripe
    <3>1. OpenCases'[c] = None /\ RipeCases'[c] = ruling
        BY <1>2, <1>8, <2>1
    <3>2. /\ "True" \in Judgement /\ "False" \in Judgement /\ "Contempt" \in Judgement
        BY DEF Judgement
    <3>3. ruling = VerdictOf(Standing(c, "True")', Standing(c, "False")',
                              Standing(c, "Contempt")')
        BY <1>4, <3>2, CollapsedIs
    <3>4. Decided(c)'
        BY <3>1, <3>3 DEF Decided
    <3>. QED
        BY <3>1, <3>4 DEF VerdictOK
  <2>2. CASE ~ ripe
    <3>1. OpenCases'[c] = [OpenCases[c] EXCEPT !.tally = tally] /\ RipeCases'[c] = None
        BY <1>2, <1>8, <2>2
    <3>2. OpenCases'[c].tally = tally
        BY <3>1 DEF IInv, Types, OpenCase
    <3>3. Tallied(c)'
        BY <3>2 DEF Tallied
    <3>. QED
        BY <3>1, <3>3 DEF VerdictOK
  <2>. QED
    BY <2>1, <2>2
<1>11. ASSUME NEW d \in Case, d # c
       PROVE  LifeOK(d)' /\ VerdictOK(d)'
  <2>1. OpenCases'[d] = OpenCases[d] /\ RipeCases'[d] = RipeCases[d]
    BY <1>3, <1>5, <1>11 DEF IInv, Types
  <2>2. CaseCount' >= CaseCount
    BY Limits DEF IInv, Types
  <2>. QED
    BY <1>6, <1>11, <2>1, <2>2, CaseKept DEF IInv, Life, Verdicts
<1>. QED
    BY <1>6, <1>9, <1>10, <1>11 DEF Life, Verdicts

\* A vote is cast or changed (vote).
LEMMA VoteStep ==
    ASSUME NEW c \in Case, NEW v \in Voter, NEW opinion \in Opinions
    PROVE  IInv /\ vote(c, v, opinion) => IInv'
<1> SUFFICES ASSUME IInv, vote(c, v, opinion) PROVE IInv'
    OBVIOUS
<1>1. opinion \in Judgement /\ None \notin Judgement
    BY Voting
<1>2. Votes' = [Votes EXCEPT ![c][v] = opinion] /\ OpenCases[c] # None
    BY DEF vote
<1>3. Votes' \in [Case -> [Voter -> Judgement \union {None}]]
    BY <1>1, <1>2 DEF IInv, Types
<1>4. /\ \A d \in Case : d # c => Votes'[d] = Votes[d]
      /\ \A d \in Case, w \in Voter :
            Votes'[d][w] = IF d = c /\ w = v THEN opinion ELSE Votes[d][w]
    BY <1>2 DEF IInv, Types
<1>5. Tallied(c)
    BY <1>2 DEF IInv, Verdicts, VerdictOK
<1>6. /\ Counted(c, v, opinion) \in [Judgement -> Nat]
      /\ \A o \in Judgement : Counted(c, v, opinion)[o] = Standing(c, o)'
    BY <1>1, <1>2, <1>3, <1>5, CountedIs DEF IInv
<1>7. UNCHANGED <<CaseCount, DoneCases, callbacks, active_count, now>>
    BY DEF vote, envVars
<1>8. Settle(c, Counted(c, v, opinion))
    BY DEF vote
<1>9. Types' /\ Life' /\ Verdicts'
    BY <1>2, <1>3, <1>4, <1>6, <1>7, <1>8, SettleStep
<1>10. Credits' = [Credits EXCEPT ![v].voted = IF Votes[c][v] = None THEN @ + 1 ELSE @]
    BY DEF vote
<1>11. \A w \in Voter : w # v => Credits'[w] = Credits[w]
    BY <1>10 DEF IInv, CreditsOK
<1>12. Credits'[v] = [voted   |-> IF Votes[c][v] = None THEN Credits[v].voted + 1
                                  ELSE Credits[v].voted,
                      cleaned |-> Credits[v].cleaned, correct |-> Credits[v].correct,
                      credit  |-> Credits[v].credit]
  <2>1. Credits'[v] = [Credits[v] EXCEPT !.voted = IF Votes[c][v] = None THEN @ + 1 ELSE @]
    BY <1>10 DEF IInv, CreditsOK
  <2>. QED
    BY <2>1 DEF IInv, CreditsOK
<1>13. Credits' = [w \in Voter |-> Credits'[w]]
    BY <1>10 DEF IInv, CreditsOK
<1>14. CreditsOK'
  <2>1. ASSUME NEW w \in Voter
        PROVE  /\ Credits'[w] = [voted |-> Credits'[w].voted, cleaned |-> Credits'[w].cleaned,
                                 correct |-> Credits'[w].correct, credit |-> Credits'[w].credit]
               /\ Credits'[w].voted \in Nat
               /\ Credits'[w].cleaned \in Nat /\ Credits'[w].correct \in Nat
    <3>1. CASE w # v
        BY <1>11, <3>1 DEF IInv, CreditsOK
    <3>2. CASE w = v
      <4>1. /\ Credits[v].voted \in Nat
            /\ Credits[v].cleaned \in Nat /\ Credits[v].correct \in Nat
        BY DEF IInv, CreditsOK
      <4>. QED
        BY <1>12, <3>2, <4>1
    <3>. QED
        BY <3>1, <3>2
  <2>. QED
    BY <1>13, <2>1 DEF CreditsOK
<1>15. ASSUME NEW w \in Voter
       PROVE  AccountOK(w)'
  <2>1. CASE w # v
    <3>1. VotedIn(w)' = VotedIn(w)
        BY <1>4, <2>1 DEF VotedIn
    <3>. QED
        BY <1>11, <2>1, <3>1 DEF IInv, Accounts, AccountOK
  <2>2. CASE w = v
    <3>1. VotedIn(v)' = VotedIn(v) \union {c}
        BY <1>1, <1>4 DEF VotedIn
    <3>2. IsFiniteSet(VotedIn(v)) /\ Cardinality(VotedIn(v)) \in Nat
      <4>1. IsFiniteSet(Case)
        BY CasesFinite
      <4>2. IsFiniteSet(VotedIn(v))
        BY <4>1, FS_Subset DEF VotedIn
      <4>. QED
        BY <4>2, FS_CardinalityType
    <3>3. Cardinality(VotedIn(v) \union {c})
            = IF c \in VotedIn(v) THEN Cardinality(VotedIn(v))
              ELSE Cardinality(VotedIn(v)) + 1
        BY <3>2, FS_AddElement
    <3>4. c \in VotedIn(v) <=> Votes[c][v] # None
        BY DEF VotedIn
    <3>5. AccountOK(v) /\ Credits[v].cleaned \in Nat /\ Credits[v].voted \in Nat
        BY DEF IInv, Accounts, CreditsOK
    <3>6. /\ Credits'[v].cleaned = Credits[v].cleaned
          /\ Credits'[v].correct = Credits[v].correct
          /\ Credits'[v].voted = IF Votes[c][v] = None THEN Credits[v].voted + 1
                                 ELSE Credits[v].voted
        BY <1>12
    <3>. QED
        BY <2>2, <3>1, <3>2, <3>3, <3>4, <3>5, <3>6 DEF AccountOK
  <2>. QED
    BY <2>1, <2>2
<1>. QED
    BY <1>9, <1>14, <1>15 DEF IInv, Accounts

\* A case is looked at again (touch_case).
LEMMA TouchStep ==
    ASSUME NEW c \in Case
    PROVE  IInv /\ touch_case(c) => IInv'
<1> SUFFICES ASSUME IInv, touch_case(c) PROVE IInv'
    OBVIOUS
<1>1. PICK tally \in [Judgement -> Nat] : tally = OpenCases[c].tally
    BY DEF touch_case, IInv, Types, OpenCase
<1>2. /\ OpenCases[c] # None /\ Settle(c, tally)
      /\ UNCHANGED <<CaseCount, DoneCases, callbacks, active_count, now, Votes, Credits>>
    BY <1>1 DEF touch_case, envVars
<1>3. \A o \in Judgement : tally[o] = Standing(c, o)'
    BY <1>1, <1>2 DEF IInv, Verdicts, VerdictOK, Tallied, Standing
<1>4. Votes' \in [Case -> [Voter -> Judgement \union {None}]]
    BY <1>2 DEF IInv, Types
<1>5. Types' /\ Life' /\ Verdicts'
    BY <1>2, <1>3, <1>4, SettleStep
<1>6. CreditsOK' /\ Accounts'
    BY <1>2 DEF IInv, CreditsOK, Accounts, AccountOK, VotedIn
<1>. QED
    BY <1>5, <1>6 DEF IInv

\* The voting time of a case is over (force_ripen_case).
LEMMA ForceStep ==
    ASSUME NEW c \in Case
    PROVE  IInv /\ force_ripen_case(c) => IInv'
<1> SUFFICES ASSUME IInv, force_ripen_case(c) PROVE IInv'
    OBVIOUS
<1>1. OpenCases[c] # None
    BY DEF force_ripen_case, TimedOut
<1>2. PICK tally \in [Judgement -> Nat] : tally = OpenCases[c].tally
    BY <1>1 DEF IInv, Types, OpenCase
<1>3. PICK ruling \in Judgement : ruling = collapsed_verdict(tally)
    BY CollapsedIs
<1>4. /\ OpenCases' = [OpenCases EXCEPT ![c] = None]
      /\ RipeCases' = [RipeCases EXCEPT ![c] = ruling]
      /\ UNCHANGED <<CaseCount, DoneCases, callbacks, active_count, now, Votes, Credits>>
    BY <1>2, <1>3 DEF force_ripen_case, envVars
<1>5. Types'
    BY <1>4 DEF IInv, Types
<1>6. OpenCases'[c] = None /\ RipeCases'[c] = ruling
    BY <1>4 DEF IInv, Types
<1>7. LifeOK(c)'
    BY <1>1, <1>4, <1>6 DEF IInv, Life, LifeOK
<1>8. VerdictOK(c)'
  <2>1. \A o \in Judgement : tally[o] = Standing(c, o)'
    BY <1>1, <1>2, <1>4 DEF IInv, Verdicts, VerdictOK, Tallied, Standing
  <2>2. "True" \in Judgement /\ "False" \in Judgement /\ "Contempt" \in Judgement
    BY DEF Judgement
  <2>3. ruling = VerdictOf(Standing(c, "True")', Standing(c, "False")',
                            Standing(c, "Contempt")')
    BY <1>3, <2>1, <2>2, CollapsedIs
  <2>4. Decided(c)'
    BY <1>6, <2>3 DEF Decided
  <2>. QED
    BY <1>6, <2>4 DEF VerdictOK
<1>9. ASSUME NEW d \in Case, d # c
      PROVE  LifeOK(d)' /\ VerdictOK(d)'
  <2>1. OpenCases'[d] = OpenCases[d] /\ RipeCases'[d] = RipeCases[d]
    BY <1>4, <1>9 DEF IInv, Types
  <2>2. CaseCount' >= CaseCount
    BY <1>4, Limits DEF IInv, Types
  <2>. QED
    BY <1>4, <1>5, <2>1, <2>2, CaseKept DEF IInv, Life, Verdicts
<1>10. CreditsOK' /\ Accounts'
    BY <1>4 DEF IInv, CreditsOK, Accounts, AccountOK, VotedIn
<1>. QED
    BY <1>5, <1>7, <1>8, <1>9, <1>10 DEF IInv, Life, Verdicts

\* A case that is open or ripe is done with a verdict (Finish: close_case, intervene).
LEMMA FinishStep ==
    ASSUME IInv, NEW c \in Case, NEW ruling \in Judgement, Finish(c, ruling),
           OpenCases[c] # None \/ RipeCases[c] # None,
           OpenCases' = [OpenCases EXCEPT ![c] = None],
           RipeCases' = [RipeCases EXCEPT ![c] = None],
           UNCHANGED <<CaseCount, active_count, now, Votes, Credits>>
    PROVE  IInv'
<1>1. /\ callbacks' = [callbacks EXCEPT ![c] = Append(@, ruling)]
      /\ DoneCases' = [DoneCases EXCEPT ![c] = [since |-> now, verdict |-> ruling]]
    BY DEF Finish
<1>2. [since |-> now, verdict |-> ruling] \in DoneCase
    BY DEF IInv, Types, DoneCase
<1>3. callbacks' \in [Case -> Seq(Judgement)]
  <2>1. Append(callbacks[c], ruling) \in Seq(Judgement)
    BY DEF IInv, Types
  <2>. QED
    BY <1>1, <2>1 DEF IInv, Types
<1>4. Types'
    BY <1>1, <1>2, <1>3 DEF IInv, Types
<1>5. OpenCases'[c] = None /\ RipeCases'[c] = None
    BY DEF IInv, Types
<1>6. c < CaseCount /\ c \in Int /\ CaseCount \in Int
    BY Limits DEF IInv, Life, LifeOK, Types, Case
<1>7. LifeOK(c)' /\ VerdictOK(c)'
    BY <1>5, <1>6 DEF LifeOK, VerdictOK
<1>8. ASSUME NEW d \in Case, d # c
      PROVE  LifeOK(d)' /\ VerdictOK(d)'
  <2>1. /\ OpenCases'[d] = OpenCases[d] /\ RipeCases'[d] = RipeCases[d]
        /\ DoneCases'[d] = DoneCases[d] /\ callbacks'[d] = callbacks[d]
    BY <1>1, <1>8 DEF IInv, Types
  <2>2. CaseCount' >= CaseCount
    BY <1>6
  <2>. QED
    BY <1>4, <2>1, <2>2, CaseKept DEF IInv, Life, Verdicts
<1>9. CreditsOK' /\ Accounts'
    BY DEF IInv, CreditsOK, Accounts, AccountOK, VotedIn
<1>. QED
    BY <1>4, <1>7, <1>8, <1>9 DEF IInv, Life, Verdicts

\* A ripe case is closed, an open one ended by the intervention origin (close_case, intervene).
LEMMA CloseStep ==
    ASSUME NEW c \in Case
    PROVE  /\ IInv /\ close_case(c) => IInv'
           /\ \A ruling \in Opinions : IInv /\ intervene(c, ruling) => IInv'
<1>1. ASSUME IInv, close_case(c) PROVE IInv'
  <2>1. PICK ruling \in Judgement : ruling = RipeCases[c]
    BY <1>1 DEF close_case, IInv, Types
  <2>2. RipeCases[c] # None /\ OpenCases[c] = None
    BY <1>1 DEF close_case, IInv, Life, LifeOK
  <2>3. OpenCases' = [OpenCases EXCEPT ![c] = None]
    BY <1>1, <2>2 DEF close_case, IInv, Types
  <2>4. /\ Finish(c, ruling) /\ RipeCases' = [RipeCases EXCEPT ![c] = None]
        /\ UNCHANGED <<CaseCount, active_count, now, Votes, Credits>>
    BY <1>1, <2>1 DEF close_case, envVars
  <2>. QED
    BY <1>1, <2>2, <2>3, <2>4, FinishStep
<1>2. ASSUME NEW ruling \in Opinions, IInv, intervene(c, ruling) PROVE IInv'
  <2>1. OpenCases[c] # None /\ RipeCases[c] = None
    BY <1>2 DEF intervene, IInv, Life, LifeOK
  <2>2. RipeCases' = [RipeCases EXCEPT ![c] = None]
    BY <1>2, <2>1 DEF intervene, IInv, Types
  <2>3. /\ Finish(c, ruling) /\ OpenCases' = [OpenCases EXCEPT ![c] = None]
        /\ UNCHANGED <<CaseCount, active_count, now, Votes, Credits>>
    BY <1>2 DEF intervene, envVars
  <2>4. ruling \in Judgement
    BY Voting
  <2>. QED
    BY <1>2, <2>1, <2>2, <2>3, <2>4, FinishStep
<1>. QED
    BY <1>1, <1>2

\* A done case is removed (reap_case).
LEMMA ReapStep ==
    ASSUME NEW c \in Case
    PROVE  IInv /\ reap_case(c) => IInv'
<1> SUFFICES ASSUME IInv, reap_case(c) PROVE IInv'
    OBVIOUS
<1>1. /\ DoneCases' = [DoneCases EXCEPT ![c] = None]
      /\ UNCHANGED <<CaseCount, OpenCases, RipeCases, callbacks, active_count, now, Votes, Credits>>
    BY DEF reap_case, envVars
<1>2. Types'
    BY <1>1 DEF IInv, Types
<1>3. \A d \in Case : DoneCases'[d] # None => DoneCases[d] # None
    BY <1>1 DEF IInv, Types
<1>4. Life'
    BY <1>1, <1>3 DEF IInv, Life, LifeOK
<1>5. Verdicts'
    BY <1>1 DEF IInv, Verdicts, VerdictOK, Tallied, Decided, Standing
<1>6. CreditsOK' /\ Accounts'
    BY <1>1 DEF IInv, CreditsOK, Accounts, AccountOK, VotedIn
<1>. QED
    BY <1>2, <1>4, <1>5, <1>6 DEF IInv

-----------------------------------------------------------------------------
(* The votes of cases that are over *)

\* Votes of cases that are neither open nor ripe may be removed: no tally counts them.
LEMMA RemovalStep ==
    ASSUME IInv, NEW cs \in SUBSET Case, NEW v \in Voter,
           \A c \in cs : OpenCases[c] = None /\ RipeCases[c] = None,
           Votes' \in [Case -> [Voter -> Judgement \union {None}]],
           \A c \in Case \ cs : Votes'[c] = Votes[c],
           \A c \in cs, w \in Voter : Votes'[c][w] = IF w = v THEN None ELSE Votes[c][w],
           UNCHANGED <<caseVars, active_count, now>>
    PROVE  Types' /\ Life' /\ Verdicts'
<1>1. Types'
    BY DEF IInv, Types, caseVars
<1>2. ASSUME NEW c \in cs
      PROVE  LifeOK(c)' /\ VerdictOK(c)'
  <2>1. LifeOK(c)
    BY DEF IInv, Life
  <2>2. \A w \in Voter : Votes[c][w] = None => Votes'[c][w] = None
    OBVIOUS
  <2>. QED
    BY <2>1, <2>2 DEF LifeOK, VerdictOK, caseVars
<1>3. ASSUME NEW c \in Case \ cs
      PROVE  LifeOK(c)' /\ VerdictOK(c)'
  <2>1. CaseCount' >= CaseCount
    BY Limits DEF IInv, Types, caseVars
  <2>. QED
    BY <1>1, <2>1, CaseKept DEF IInv, Life, Verdicts, caseVars
<1>. QED
    BY <1>1, <1>2, <1>3 DEF Life, Verdicts

\* The votes that are removed are counted as cleaned, those that were right at most once.
LEMMA RemovalAccounts ==
    ASSUME IInv, NEW cs \in SUBSET Case, NEW v \in Voter, NEW n \in Nat,
           n <= Cardinality(cs),
           \A c \in cs : Votes[c][v] # None,
           \A c \in Case \ cs : Votes'[c] = Votes[c],
           \A c \in cs, w \in Voter : Votes'[c][w] = IF w = v THEN None ELSE Votes[c][w],
           Credits' = [w \in Voter |-> Credits'[w]],
           \A w \in Voter : w # v => Credits'[w] = Credits[w],
           Credits'[v] = [voted   |-> Credits[v].voted,
                          cleaned |-> Credits[v].cleaned + Cardinality(cs),
                          correct |-> Credits[v].correct + n,
                          credit  |-> Credits[v].credit]
    PROVE  CreditsOK' /\ Accounts'
<1>1. IsFiniteSet(Case)
    BY CasesFinite
<1>2. IsFiniteSet(cs) /\ Cardinality(cs) \in Nat
    BY <1>1, FS_Subset, FS_CardinalityType
<1>3. /\ Credits[v].voted \in Nat
      /\ Credits[v].cleaned \in Nat /\ Credits[v].correct \in Nat
    BY DEF IInv, CreditsOK
<1>4. /\ Credits'[v].voted = Credits[v].voted
      /\ Credits'[v].cleaned = Credits[v].cleaned + Cardinality(cs)
      /\ Credits'[v].correct = Credits[v].correct + n
    OBVIOUS
<1>5. CreditsOK'
  <2>1. ASSUME NEW w \in Voter
        PROVE  /\ Credits'[w] = [voted |-> Credits'[w].voted, cleaned |-> Credits'[w].cleaned,
                                 correct |-> Credits'[w].correct, credit |-> Credits'[w].credit]
               /\ Credits'[w].voted \in Nat
               /\ Credits'[w].cleaned \in Nat /\ Credits'[w].correct \in Nat
    <3>1. CASE w # v
        BY <3>1 DEF IInv, CreditsOK
    <3>2. CASE w = v
        BY <1>2, <1>3, <3>2
    <3>. QED
        BY <3>1, <3>2
  <2>. QED
    BY <2>1 DEF CreditsOK
<1>6. ASSUME NEW w \in Voter
      PROVE  AccountOK(w)'
  <2>1. CASE w # v
    <3>1. VotedIn(w)' = VotedIn(w)
        BY <2>1 DEF VotedIn
    <3>. QED
        BY <2>1, <3>1 DEF IInv, Accounts, AccountOK
  <2>2. CASE w = v
    <3>1. VotedIn(v)' = VotedIn(v) \ cs
        BY DEF VotedIn
    <3>2. cs \in SUBSET VotedIn(v)
        BY DEF VotedIn
    <3>3. IsFiniteSet(VotedIn(v)) /\ Cardinality(VotedIn(v)) \in Nat
      <4>1. IsFiniteSet(VotedIn(v))
        BY <1>1, FS_Subset DEF VotedIn
      <4>. QED
        BY <4>1, FS_CardinalityType
    <3>4. Cardinality(VotedIn(v) \ cs) = Cardinality(VotedIn(v)) - Cardinality(cs)
        BY <3>2, <3>3, PartRemoved
    <3>5. AccountOK(v)
        BY DEF IInv, Accounts
    <3>. QED
        BY <1>2, <1>3, <1>4, <2>2, <3>1, <3>3, <3>4, <3>5 DEF AccountOK
  <2>. QED
    BY <2>1, <2>2
<1>. QED
    BY <1>5, <1>6 DEF Accounts

\* A vote that was not claimed in time is cleaned (clean_vote).
LEMMA CleanStep ==
    ASSUME NEW c \in Case, NEW v \in Voter
    PROVE  IInv /\ clean_vote(c, v) => IInv'
<1> SUFFICES ASSUME IInv, clean_vote(c, v) PROVE IInv'
    OBVIOUS
<1>1. PICK right \in BOOLEAN :
            right = (DoneCases[c] # None /\ Correct(DoneCases[c].verdict, Votes[c][v]))
    BY DEF Correct
<1>2. /\ OpenCases[c] = None /\ RipeCases[c] = None /\ Votes[c][v] # None
      /\ Votes' = [Votes EXCEPT ![c][v] = None]
      /\ UNCHANGED <<caseVars, active_count, now>>
    BY DEF clean_vote, Cleanable, envVars
<1>3. Credits' = [Credits EXCEPT ![v].cleaned = @ + 1,
                                 ![v].correct = IF right THEN @ + 1 ELSE @]
    BY <1>1 DEF clean_vote
<1>4. PICK cs \in SUBSET Case : cs = {c}
    OBVIOUS
<1>5. Votes' \in [Case -> [Voter -> Judgement \union {None}]]
    BY <1>2 DEF IInv, Types
<1>6. /\ \A d \in Case \ cs : Votes'[d] = Votes[d]
      /\ \A d \in cs, w \in Voter : Votes'[d][w] = IF w = v THEN None ELSE Votes[d][w]
    BY <1>2, <1>4 DEF IInv, Types
<1>7. Types' /\ Life' /\ Verdicts'
  <2>1. \A d \in cs : OpenCases[d] = None /\ RipeCases[d] = None
    BY <1>2, <1>4
  <2>. QED
    BY <1>2, <1>5, <1>6, <2>1, RemovalStep
<1>8. PICK n \in Nat : n = IF right THEN 1 ELSE 0
    OBVIOUS
<1>9. Cardinality(cs) = 1 /\ n <= Cardinality(cs)
  <2>1. Cardinality({} \union {c}) = 1
    BY FS_EmptySet, FS_AddElement
  <2>2. {} \union {c} = cs
    BY <1>4
  <2>. QED
    BY <1>8, <2>1, <2>2
<1>10. /\ Credits' = [w \in Voter |-> Credits'[w]]
       /\ \A w \in Voter : w # v => Credits'[w] = Credits[w]
    BY <1>3 DEF IInv, CreditsOK
<1>11. Credits'[v] = [voted   |-> Credits[v].voted,
                      cleaned |-> Credits[v].cleaned + 1,
                      correct |-> Credits[v].correct + n,
                      credit  |-> Credits[v].credit]
  <2>1. Credits'[v] = [Credits[v] EXCEPT !.cleaned = @ + 1,
                                         !.correct = IF right THEN @ + 1 ELSE @]
    BY <1>3 DEF IInv, CreditsOK
  <2>2. Credits[v].correct \in Nat
    BY DEF IInv, CreditsOK
  <2>3. Credits[v] = [voted |-> Credits[v].voted, cleaned |-> Credits[v].cleaned,
                      correct |-> Credits[v].correct, credit |-> Credits[v].credit]
    BY DEF IInv, CreditsOK
  <2>4. Credits'[v] = [Credits[v] EXCEPT !.cleaned = @ + 1, !.correct = @ + n]
    <3>1. CASE right
        BY <1>8, <2>1, <3>1
    <3>2. CASE ~ right
      <4>1. Credits[v].correct = Credits[v].correct + n
        BY <1>8, <2>2, <3>2
      <4>2. Credits'[v] = [Credits[v] EXCEPT !.cleaned = @ + 1]
        BY <2>1, <2>3, <3>2
      <4>. QED
        BY <2>3, <4>1, <4>2
    <3>. QED
        BY <3>1, <3>2
  <2>. QED
    BY <2>3, <2>4
<1>12. CreditsOK' /\ Accounts'
    BY <1>2, <1>4, <1>6, <1>9, <1>10, <1>11, RemovalAccounts
<1>. QED
    BY <1>7, <1>12 DEF IInv

\* A person claims points for votes in cases that are done (claim_vote, claim_votes).
LEMMA ClaimStep ==
    ASSUME NEW v \in Voter, NEW cs \in SUBSET Case
    PROVE  IInv /\ do_claim_votes(v, cs) => IInv'
<1> SUFFICES ASSUME IInv, do_claim_votes(v, cs) PROVE IInv'
    OBVIOUS
<1>1. PICK right \in SUBSET cs : right = {c \in cs : Correct(DoneCases[c].verdict, Votes[c][v])}
    OBVIOUS
<1>2. /\ \A c \in cs : Votes[c][v] # None /\ DoneCases[c] # None
      /\ Votes' = [c \in Case |-> IF c \in cs THEN [Votes[c] EXCEPT ![v] = None] ELSE Votes[c]]
      /\ UNCHANGED <<caseVars, active_count, now>>
    BY DEF do_claim_votes, envVars
<1>3. Credits' = [Credits EXCEPT ![v].cleaned = @ + Cardinality(cs),
                                 ![v].correct = @ + Cardinality(right)]
    BY <1>1 DEF do_claim_votes
<1>4. \A c \in cs : OpenCases[c] = None /\ RipeCases[c] = None
    BY <1>2 DEF IInv, Life, LifeOK
<1>5. Votes' \in [Case -> [Voter -> Judgement \union {None}]]
    BY <1>2 DEF IInv, Types
<1>6. /\ \A c \in Case \ cs : Votes'[c] = Votes[c]
      /\ \A c \in cs, w \in Voter : Votes'[c][w] = IF w = v THEN None ELSE Votes[c][w]
    BY <1>2 DEF IInv, Types
<1>7. Types' /\ Life' /\ Verdicts'
    BY <1>2, <1>4, <1>5, <1>6, RemovalStep
<1>8. PICK n \in Nat : n = Cardinality(right) /\ n <= Cardinality(cs)
  <2>1. IsFiniteSet(Case)
    BY CasesFinite
  <2>2. IsFiniteSet(cs)
    BY <2>1, FS_Subset
  <2>3. IsFiniteSet(right) /\ Cardinality(right) <= Cardinality(cs)
    BY <2>2, FS_Subset
  <2>. QED
    BY <2>3, FS_CardinalityType
<1>9. /\ Credits' = [w \in Voter |-> Credits'[w]]
      /\ \A w \in Voter : w # v => Credits'[w] = Credits[w]
    BY <1>3 DEF IInv, CreditsOK
<1>10. Credits'[v] = [voted   |-> Credits[v].voted,
                      cleaned |-> Credits[v].cleaned + Cardinality(cs),
                      correct |-> Credits[v].correct + n,
                      credit  |-> Credits[v].credit]
  <2>1. Credits'[v] = [Credits[v] EXCEPT !.cleaned = @ + Cardinality(cs), !.correct = @ + n]
    BY <1>3, <1>8 DEF IInv, CreditsOK
  <2>2. Credits[v] = [voted |-> Credits[v].voted, cleaned |-> Credits[v].cleaned,
                      correct |-> Credits[v].correct, credit |-> Credits[v].credit]
    BY DEF IInv, CreditsOK
  <2>. QED
    BY <2>1, <2>2
<1>11. CreditsOK' /\ Accounts'
    BY <1>2, <1>6, <1>8, <1>9, <1>10, RemovalAccounts
<1>. QED
    BY <1>7, <1>11 DEF IInv

-----------------------------------------------------------------------------
(* The steps that leave the cases and the votes alone, and all steps together *)

\* What a voter is owed and paid changes none of the counts (claim_credit, payout_rewards).
LEMMA CreditStep ==
    ASSUME NEW v \in Voter
    PROVE  IInv /\ (claim_credit(v) \/ payout_rewards(v)) => IInv'
<1> SUFFICES ASSUME IInv, claim_credit(v) \/ payout_rewards(v) PROVE IInv'
    OBVIOUS
<1>1. UNCHANGED <<caseVars, active_count, now, Votes>>
    BY DEF claim_credit, payout_rewards, envVars
<1>2. PICK owed : Credits' = [Credits EXCEPT ![v].credit = owed]
  <2>1. CASE claim_credit(v)
    <3>1. PICK released : Credits' = [Credits EXCEPT ![v].credit = @ + released]
        BY <2>1 DEF claim_credit
    <3>2. Credits' = [Credits EXCEPT ![v].credit = Credits[v].credit + released]
        BY <3>1 DEF IInv, CreditsOK
    <3>. QED
        BY <3>2
  <2>2. CASE payout_rewards(v)
    BY <2>2 DEF payout_rewards
  <2>. QED
    BY <2>1, <2>2
<1>3. Types' /\ Life' /\ Verdicts'
    BY <1>1, CasesKept DEF IInv, Types
<1>4. /\ Credits' = [w \in Voter |-> Credits'[w]]
      /\ \A w \in Voter : w # v => Credits'[w] = Credits[w]
      /\ Credits'[v] = [Credits[v] EXCEPT !.credit = owed]
    BY <1>2 DEF IInv, CreditsOK
<1>5. ASSUME NEW w \in Voter
      PROVE  Credits'[w] = [voted |-> Credits[w].voted, cleaned |-> Credits[w].cleaned,
                            correct |-> Credits[w].correct, credit |-> Credits'[w].credit]
  <2>1. Credits[w] = [voted |-> Credits[w].voted, cleaned |-> Credits[w].cleaned,
                      correct |-> Credits[w].correct, credit |-> Credits[w].credit]
    BY DEF IInv, CreditsOK
  <2>. QED
    BY <1>4, <2>1
<1>6. CreditsOK' /\ Accounts'
    BY <1>1, <1>4, <1>5, AccountsKept
<1>. QED
    BY <1>3, <1>6 DEF IInv

\* Steps that touch neither cases, votes nor the records of voters.
LEMMA QuietStep ==
    ASSUME IInv, UNCHANGED <<caseVars, Votes, Credits>>, active_count' \in Nat, now' \in Nat
    PROVE  IInv'
<1>1. Types' /\ Life' /\ Verdicts'
    BY CasesKept
<1>2. CreditsOK' /\ Accounts'
    BY DEF IInv, CreditsOK, Accounts, AccountOK, VotedIn
<1>. QED
    BY <1>1, <1>2 DEF IInv

\* Every step keeps the invariant (Next).
LEMMA NextInv == IInv /\ [Next]_vars => IInv'
<1> SUFFICES ASSUME IInv, [Next]_vars PROVE IInv'
    OBVIOUS
<1>a. active_count \in Nat /\ now \in Nat
    BY DEF IInv, Types
<1>1. CASE judge_statement
    BY <1>1, JudgeStatement
<1>2. ASSUME NEW c \in Case,
             \/ touch_case(c) \/ close_case(c) \/ force_ripen_case(c) \/ reap_case(c)
             \/ \E ruling \in Opinions : intervene(c, ruling)
             \/ \E v \in Voter : clean_vote(c, v) \/ \E opinion \in Opinions : vote(c, v, opinion)
      PROVE  IInv'
    BY <1>2, TouchStep, CloseStep, ForceStep, ReapStep, CleanStep, VoteStep
<1>3. ASSUME NEW v \in Voter,
             \/ \E cs \in SUBSET Case \ {{}} : do_claim_votes(v, cs)
             \/ claim_credit(v) \/ payout_rewards(v) \/ clear_voting_penalty(v)
             \/ \E r \in Round : clean_points(r, v)
      PROVE  IInv'
  <2>1. CASE \E cs \in SUBSET Case \ {{}} : do_claim_votes(v, cs)
    BY <2>1, ClaimStep
  <2>2. CASE claim_credit(v) \/ payout_rewards(v)
    BY <2>2, CreditStep
  <2>3. CASE clear_voting_penalty(v)
    BY <1>a, <2>3, QuietStep DEF clear_voting_penalty, envVars
  <2>4. CASE \E r \in Round : clean_points(r, v)
    BY <1>a, <2>4, QuietStep DEF clean_points, envVars
  <2>. QED
    BY <1>3, <2>1, <2>2, <2>3, <2>4
<1>4. CASE \E amount \in Amounts, count \in Counts : schedule_payout_rounds(amount, count)
    BY <1>a, <1>4, QuietStep DEF schedule_payout_rounds, envVars
<1>5. CASE \E i \in 1 .. MaxPayoutRoundSchedules : remove_payout_schedule(i)
    BY <1>a, <1>5, QuietStep DEF remove_payout_schedule, envVars
<1>6. CASE start_payout_round
    BY <1>a, <1>6, QuietStep DEF start_payout_round, envVars
<1>7. CASE on_poll
    BY <1>a, <1>7, QuietStep DEF on_poll, envVars
<1>8. CASE \E n \in ActiveCounts : active_changes(n)
    BY <1>a, <1>8, Limits, QuietStep DEF active_changes
<1>9. CASE Tick
    BY <1>a, <1>9, QuietStep DEF Tick
<1>10. CASE UNCHANGED vars
    BY <1>a, <1>10, QuietStep DEF vars, envVars
<1>. QED
    BY <1>1, <1>2, <1>3, <1>4, <1>5, <1>6, <1>7, <1>8, <1>9, <1>10 DEF Next

\* A case is open, ripe or done in this order, the tally of an open case is that of the votes
\* stored for it, and every vote is stored or was cleaned, after any sequence of calls.
THEOREM Invariant == Spec => []IInv
<1>1. Init => IInv
    BY InitInv
<1>2. IInv /\ [Next]_vars => IInv'
    BY NextInv
<1>. QED
    BY <1>1, <1>2, PTL DEF Spec

-----------------------------------------------------------------------------
(* mob-rule implements the oracle *)

\* The callback of a case is dispatched when the case is done, and not before (Finish).
LEMMA FinishAnswers ==
    ASSUME IInv, NEW c \in Case, NEW ruling \in Judgement, Finish(c, ruling),
           OpenCases[c] # None \/ RipeCases[c] # None, UNCHANGED CaseCount
    PROVE  Oracle!callback(c, ruling)
<1>1. c \in 0 .. CaseCount - 1 /\ callbacks[c] = <<>>
    BY Limits DEF IInv, Life, LifeOK, Types, Case
<1>2. Append(<<>>, ruling) = <<ruling>>
    OBVIOUS
<1>3. \A d \in Case : callbacks'[d] = IF d = c THEN <<ruling>> ELSE callbacks[d]
    BY <1>1, <1>2 DEF Finish, IInv, Types
<1>4. 0 .. CaseCount - 1 \subseteq Case
    BY Limits DEF IInv, Types, Case
<1>5. [d \in 0 .. CaseCount - 1 |-> callbacks'[d]]
        = [[d \in 0 .. CaseCount - 1 |-> callbacks[d]] EXCEPT ![c] = <<ruling>>]
    BY <1>1, <1>3, <1>4
<1>. QED
    BY <1>1, <1>5 DEF Oracle!callback

\* A new case has the next ticket and no answer (judge_statement).
LEMMA StatementAccepted == IInv /\ judge_statement => Oracle!judge_statement
<1> SUFFICES ASSUME IInv, judge_statement PROVE Oracle!judge_statement
    OBVIOUS
<1>1. CaseCount' = CaseCount + 1 /\ callbacks' = callbacks /\ CaseCount \in Nat
    BY Limits DEF judge_statement, IInv, Types
<1>2. callbacks[CaseCount] = <<>>
    BY Limits DEF judge_statement, IInv, Life, LifeOK, Types, Case
<1>3. 0 .. CaseCount' - 1 = 0 .. CaseCount
    BY <1>1
<1>4. [c \in 0 .. CaseCount' - 1 |-> callbacks'[c]]
        = [t \in 0 .. CaseCount |-> IF t = CaseCount THEN <<>>
                                    ELSE [c \in 0 .. CaseCount - 1 |-> callbacks[c]][t]]
  <2>1. \A t \in 0 .. CaseCount : t # CaseCount => t \in 0 .. CaseCount - 1
    BY <1>1
  <2>. QED
    BY <1>1, <1>2, <1>3, <2>1
<1>. QED
    BY <1>1, <1>4 DEF Oracle!judge_statement

\* Every step of mob-rule is a step of the oracle or none of it.
LEMMA OracleStep == IInv /\ [Next]_vars => [Oracle!Next]_(Oracle!vars)
<1> SUFFICES ASSUME IInv, [Next]_vars PROVE [Oracle!Next]_(Oracle!vars)
    OBVIOUS
<1>1. CASE judge_statement
    BY <1>1, StatementAccepted DEF Oracle!Next
<1>2. ASSUME NEW c \in Case, NEW ruling \in Judgement, Oracle!callback(c, ruling)
      PROVE  Oracle!Next
    BY <1>2 DEF Oracle!Next, Oracle!callback
<1>3. ASSUME NEW c \in Case, close_case(c)
      PROVE  Oracle!Next
  <2>1. PICK ruling \in Judgement : ruling = RipeCases[c]
    BY <1>3 DEF close_case, IInv, Types
  <2>. QED
    BY <1>2, <1>3, <2>1, FinishAnswers DEF close_case
<1>4. ASSUME NEW c \in Case, NEW ruling \in Opinions, intervene(c, ruling)
      PROVE  Oracle!Next
  <2>1. ruling \in Judgement
    BY Voting
  <2>. QED
    BY <1>2, <1>4, <2>1, FinishAnswers DEF intervene
<1>5. CASE UNCHANGED <<CaseCount, callbacks>>
    BY <1>5 DEF Oracle!vars
<1>6. ASSUME NEW c \in Case,
             \/ touch_case(c) \/ force_ripen_case(c) \/ reap_case(c)
             \/ \E v \in Voter : clean_vote(c, v) \/ \E opinion \in Opinions : vote(c, v, opinion)
      PROVE  UNCHANGED <<CaseCount, callbacks>>
    BY <1>6 DEF touch_case, force_ripen_case, reap_case, clean_vote, vote, caseVars
<1>7. ASSUME NEW v \in Voter,
             \/ \E cs \in SUBSET Case \ {{}} : do_claim_votes(v, cs)
             \/ claim_credit(v) \/ payout_rewards(v) \/ clear_voting_penalty(v)
             \/ \E r \in Round : clean_points(r, v)
      PROVE  UNCHANGED <<CaseCount, callbacks>>
    BY <1>7 DEF do_claim_votes, claim_credit, payout_rewards, clear_voting_penalty,
                clean_points, caseVars
<1>8. CASE \/ \E amount \in Amounts, count \in Counts : schedule_payout_rounds(amount, count)
           \/ \E i \in 1 .. MaxPayoutRoundSchedules : remove_payout_schedule(i)
           \/ start_payout_round \/ on_poll \/ Tick
           \/ \E n \in ActiveCounts : active_changes(n)
           \/ UNCHANGED vars
  <2>1. UNCHANGED <<CaseCount, callbacks>>
    BY <1>8 DEF schedule_payout_rounds, remove_payout_schedule, start_payout_round, on_poll,
                active_changes, Tick, vars, caseVars
  <2>. QED
    BY <1>5, <2>1
<1>. QED
    BY <1>1, <1>3, <1>4, <1>5, <1>6, <1>7, <1>8 DEF Next

\* mob-rule implements StatementOracle: every statement gets a ticket of its own, and its callback
\* is dispatched with a verdict at most once and never before (judge_statement, close_case,
\* intervene).
THEOREM OracleCorrect == Spec => OracleKept
<1>1. Init => Oracle!Init
  <2> SUFFICES ASSUME Init PROVE Oracle!Init
    OBVIOUS
  <2>1. 0 .. CaseCount - 1 = {} /\ 0 .. -1 = {} /\ CaseCount = 0
    BY DEF Init
  <2>2. [c \in 0 .. CaseCount - 1 |-> callbacks[c]] = [t \in 0 .. -1 |-> <<>>]
    BY <2>1
  <2>. QED
    BY <2>1, <2>2 DEF Oracle!Init
<1>2. IInv /\ [Next]_vars => [Oracle!Next]_(Oracle!vars)
    BY OracleStep
<1>. QED
    BY <1>1, <1>2, Invariant, PTL DEF Spec, OracleKept, Oracle!Spec

-----------------------------------------------------------------------------
(* The verdict is that of the votes *)

\* The invariant says of the stored votes what the properties say.
LEMMA InvMeans == IInv => VerdictOfVotes /\ VotesAccounted
<1> SUFFICES ASSUME IInv PROVE VerdictOfVotes /\ VotesAccounted
    OBVIOUS
<1>1. DOMAIN OpenCases = Case /\ DOMAIN Votes = Case /\ DOMAIN Credits = Voter
    BY DEF IInv, Types, CreditsOK
<1>2. VerdictOfVotes
    BY <1>1 DEF IInv, Verdicts, VerdictOK, Tallied, Decided, VerdictOf, VerdictOfVotes
<1>3. VotesAccounted
    BY <1>1 DEF IInv, Accounts, AccountOK, VotedIn, VotesAccounted
<1>. QED
    BY <1>2, <1>3

\* The approval a statement needs before its time is up is at least half of the votes
\* (is_passing).
LEMMA PassingIsMajority ==
    ASSUME NEW tally \in [Judgement -> Nat], NEW elapsed \in Int, is_passing(tally, elapsed)
    PROVE  tally["True"] > nay_weight(tally)
<1>1. PICK t \in Nat : t = tally["True"]
    BY DEF Judgement
<1>2. PICK n \in Nat : n = nay_weight(tally) /\ vote_count(tally) = t + n
    BY <1>1 DEF Judgement, nay_weight, vote_count
<1>3. PICK m \in Nat : m = MaxVotingDuration
    BY Voting
<1>4. PICK s \in Nat : s = SatSub(m, elapsed)
  <2>1. CASE m < elapsed
    BY <2>1 DEF SatSub
  <2>2. CASE ~ (m < elapsed)
    BY <2>2 DEF SatSub
  <2>. QED
    BY <2>1, <2>2
<1>5. 2 * m * t > (m + s) * (t + n)
    BY <1>1, <1>2, <1>3, <1>4 DEF is_passing
<1>6. (m + s) * (t + n) >= m * (t + n)
    OBVIOUS
<1>7. m * (2 * t) > m * (t + n)
    BY <1>5, <1>6
<1>8. 2 * t > t + n
  <2>1. 2 * t <= t + n => m * (2 * t) <= m * (t + n)
    OBVIOUS
  <2>. QED
    BY <1>7, <2>1
<1>. QED
    BY <1>1, <1>2, <1>8

\* What DecidedEarly says of one case: there are votes enough, and either those for the
\* statement are the majority or those that could still vote cannot make them one.
Firm(c) ==
    LET cast(opinion) == Cardinality({v \in DOMAIN Votes'[c] : Votes'[c][v] = opinion})
        for     == cast("True")
        against == cast("False") + cast("Contempt")
        left    == SatSub(active_count, for + against)
    IN  /\ for + against >= MinTurnoutNominal
        /\ \/ for > against
           \/ \A k \in 0 .. left : for + k <= against + left - k

\* A case that ripens by its tally is decided (Ripens, definitive).
LEMMA RipensFirm ==
    ASSUME IInv, NEW c \in Case, NEW tally \in [Judgement -> Nat], NEW since \in Nat,
           Ripens(tally, since), \A o \in Judgement : tally[o] = Standing(c, o)'
    PROVE  Firm(c)
<1>1. PICK t \in Nat : t = tally["True"]
    BY DEF Judgement
<1>2. PICK f \in Nat : f = tally["False"]
    BY DEF Judgement
<1>3. PICK k \in Nat : k = tally["Contempt"]
    BY DEF Judgement
<1>4. /\ t = Cardinality({v \in DOMAIN Votes'[c] : Votes'[c][v] = "True"})
      /\ f = Cardinality({v \in DOMAIN Votes'[c] : Votes'[c][v] = "False"})
      /\ k = Cardinality({v \in DOMAIN Votes'[c] : Votes'[c][v] = "Contempt"})
    BY <1>1, <1>2, <1>3 DEF Standing, Judgement
<1>5. active_count \in Nat /\ now \in Nat
    BY DEF IInv, Types
<1>6. PICK left \in Nat : left = SatSub(active_count, t + (f + k))
  <2>1. CASE active_count < t + (f + k)
    BY <1>5, <2>1 DEF SatSub
  <2>2. CASE ~ (active_count < t + (f + k))
    BY <1>5, <2>2 DEF SatSub
  <2>. QED
    BY <2>1, <2>2
<1>7. vote_count(tally) = t + (f + k) /\ nay_weight(tally) = f + k
    BY <1>1, <1>2, <1>3 DEF vote_count, nay_weight
<1>8. t + (f + k) >= MinTurnoutNominal
    BY <1>7 DEF Ripens
<1>9. t > f + k \/ \A j \in 0 .. left : t + j <= (f + k) + left - j
  <2>1. CASE is_passing(tally, SatSub(now, since))
    <3>1. SatSub(now, since) \in Int
        BY <1>5 DEF SatSub
    <3>. QED
        BY <1>1, <1>7, <2>1, <3>1, PassingIsMajority
  <2>2. CASE definitive(tally, active_count)
    <3>1. \/ left = 0
          \/ SatSub(t, f + k) > left
          \/ SatSub(f + k, t) > left
        BY <1>1, <1>6, <1>7, <2>2 DEF definitive
    <3>2. CASE left = 0
        BY <3>2
    <3>3. CASE SatSub(t, f + k) > left
        BY <3>3 DEF SatSub
    <3>4. CASE SatSub(f + k, t) > left
      <4>1. f + k - t > left
        BY <3>4 DEF SatSub
      <4>. QED
        BY <4>1
    <3>. QED
        BY <3>1, <3>2, <3>3, <3>4
  <2>. QED
    BY <2>1, <2>2 DEF Ripens
<1>. QED
    BY <1>4, <1>6, <1>8, <1>9 DEF Firm

\* A case that Settle ripens was decided.
LEMMA SettleFirm ==
    ASSUME IInv, NEW c \in Case, NEW tally \in [Judgement -> Nat], OpenCases[c] # None,
           Settle(c, tally), RipeCases'[c] # None,
           \A o \in Judgement : tally[o] = Standing(c, o)'
    PROVE  Firm(c)
<1>1. PICK ripe \in BOOLEAN : ripe = Ripens(tally, OpenCases[c].since)
    BY DEF Ripens
<1>2. RipeCases[c] = None
    BY DEF IInv, Life, LifeOK
<1>3. ripe
    BY <1>1, <1>2 DEF Settle, IInv, Types
<1>4. OpenCases[c].since \in Nat
    BY DEF IInv, Types, OpenCase
<1>. QED
    BY <1>1, <1>3, <1>4, RipensFirm

\* A step that makes an open case ripe either found its time to be up or it decided.
LEMMA EarlyStep ==
    ASSUME IInv, [Next]_vars, NEW c \in Case,
           OpenCases[c] # None, RipeCases'[c] # None, ~ TimedOut(c)
    PROVE  Firm(c)
<1>1. RipeCases[c] = None
    BY DEF IInv, Life, LifeOK
<1>2. ASSUME NEW d \in Case, NEW v \in Voter, NEW opinion \in Opinions, vote(d, v, opinion)
      PROVE  Firm(c)
  <2>1. d = c
    <3>1. d # c => RipeCases'[c] = RipeCases[c]
        BY <1>2 DEF vote, Settle, IInv, Types
    <3>. QED
        BY <1>1, <3>1
  <2>2. Tallied(c)
    BY DEF IInv, Verdicts, VerdictOK
  <2>3. opinion \in Judgement
    BY Voting
  <2>4. /\ Counted(c, v, opinion) \in [Judgement -> Nat]
        /\ \A o \in Judgement : Counted(c, v, opinion)[o] = Standing(c, o)'
    BY <1>2, <2>1, <2>2, <2>3, CountedIs DEF vote, IInv
  <2>. QED
    BY <1>2, <2>1, <2>4, SettleFirm DEF vote
<1>3. ASSUME NEW d \in Case, touch_case(d)
      PROVE  Firm(c)
  <2>1. d = c
    <3>1. d # c => RipeCases'[c] = RipeCases[c]
        BY <1>3 DEF touch_case, Settle, IInv, Types
    <3>. QED
        BY <1>1, <3>1
  <2>2. PICK tally \in [Judgement -> Nat] : tally = OpenCases[c].tally
    BY DEF IInv, Types, OpenCase
  <2>3. \A o \in Judgement : tally[o] = Standing(c, o)'
    BY <1>3, <2>2 DEF touch_case, IInv, Verdicts, VerdictOK, Tallied, Standing
  <2>4. Settle(c, tally)
    BY <1>3, <2>1, <2>2 DEF touch_case
  <2>. QED
    BY <2>3, <2>4, SettleFirm
<1>4. ASSUME NEW d \in Case, force_ripen_case(d)
      PROVE  FALSE
  <2>1. d # c
    BY <1>4 DEF force_ripen_case
  <2>2. RipeCases'[c] = RipeCases[c]
    BY <1>4, <2>1 DEF force_ripen_case, IInv, Types
  <2>. QED
    BY <1>1, <2>2
<1>5. ASSUME NEW d \in Case,
             \/ close_case(d) \/ reap_case(d)
             \/ \E ruling \in Opinions : intervene(d, ruling)
             \/ \E v \in Voter : clean_vote(d, v)
      PROVE  FALSE
  <2>1. RipeCases'[c] = RipeCases[c] \/ RipeCases'[c] = None
    BY <1>5 DEF close_case, reap_case, intervene, clean_vote, caseVars, IInv, Types
  <2>. QED
    BY <1>1, <2>1
<1>6. ASSUME NEW v \in Voter,
             \/ \E cs \in SUBSET Case \ {{}} : do_claim_votes(v, cs)
             \/ claim_credit(v) \/ payout_rewards(v) \/ clear_voting_penalty(v)
             \/ \E r \in Round : clean_points(r, v)
      PROVE  FALSE
  <2>1. RipeCases' = RipeCases
    BY <1>6 DEF do_claim_votes, claim_credit, payout_rewards, clear_voting_penalty,
                clean_points, caseVars
  <2>. QED
    BY <1>1, <2>1
<1>7. CASE \/ judge_statement
           \/ \E amount \in Amounts, count \in Counts : schedule_payout_rounds(amount, count)
           \/ \E i \in 1 .. MaxPayoutRoundSchedules : remove_payout_schedule(i)
           \/ start_payout_round \/ on_poll \/ Tick
           \/ \E n \in ActiveCounts : active_changes(n)
           \/ UNCHANGED vars
  <2>1. RipeCases' = RipeCases
    BY <1>7 DEF judge_statement, schedule_payout_rounds, remove_payout_schedule,
                start_payout_round, on_poll, active_changes, Tick, vars, caseVars
  <2>. QED
    BY <1>1, <2>1
<1>. QED
    BY <1>2, <1>3, <1>4, <1>5, <1>6, <1>7 DEF Next

\* The action of DecidedEarly.
DecidedStep ==
    \A c \in DOMAIN OpenCases :
        (OpenCases[c] # None /\ RipeCases'[c] # None /\ ~TimedOut(c)) =>
            LET cast(opinion) == Cardinality({v \in DOMAIN Votes'[c] : Votes'[c][v] = opinion})
                for     == cast("True")
                against == cast("False") + cast("Contempt")
                left    == SatSub(active_count, for + against)
            IN  /\ for + against >= MinTurnoutNominal
                /\ \/ for > against
                   \/ \A k \in 0 .. left : for + k <= against + left - k

\* Every verdict is that of the votes that stand, each vote is counted once however often it was
\* changed and accounted for until it is cleaned, and a case ripens before its time only when
\* it is decided (vote, touch_case, force_ripen_case, clean_vote, claim_votes).
THEOREM VerdictsCorrect == Spec => VerdictsKept
<1>1. IInv /\ [Next]_vars => DecidedStep
  <2> SUFFICES ASSUME IInv, [Next]_vars, NEW c \in DOMAIN OpenCases,
                      OpenCases[c] # None, RipeCases'[c] # None, ~TimedOut(c)
               PROVE  Firm(c)
    BY DEF DecidedStep, Firm
  <2>1. c \in Case
    BY DEF IInv, Types
  <2>. QED
    BY <2>1, EarlyStep
<1>2. IInv => VerdictOfVotes /\ VotesAccounted
    BY InvMeans
<1>. QED
    BY <1>1, <1>2, Invariant, PTL DEF Spec, VerdictsKept, DecidedEarly, DecidedStep
=============================================================================

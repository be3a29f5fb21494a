------------------------------ MODULE MobRule ------------------------------
(* pallets/mob-rule: people vote on statements; a case is open until the vote decides it, *)
(* it times out or the intervention origin ends it, then the pallet that asked is called    *)
(* back with the verdict.  Voters that were right are paid from rounds funded by the pot.     *)
(* The clock in seconds and the block number are one clock.                                   *)
EXTENDS Integers, Sequences, FiniteSets, FiniteSetsExt, SequencesExt

CONSTANTS
    None,                           \* no value
    Voter,                          \* aliases of people in the mob context
    Opinions,                       \* bound: the judgements people and interventions give
    MaxCases,                       \* bound: the statements submitted
    ActiveCounts,                   \* the values `EnsurePerson::active_count` takes
    MinTurnoutPercentage, MinTurnoutNominal, MinCaseDuration, MaxVotingDuration,
    VotesOpenForClaimsDuration, MaxVoteClaimDuration, MaxVotesClaimable,
    VotingPenaltyDuration, MinimumVoterThreshold, MaxPayoutRoundSchedules,
    Amounts, Counts, Period,        \* the payout schedules: balance, number of rounds, blocks
    PotBalance,                     \* what the pot holds free at the beginning
    Accuracy,                       \* the denominator of a `Perbill`, a billion in the code
    MaxRounds,                      \* bound: the payout rounds started
    MaxNow                          \* bound: the clock

Judgement == {"True", "False", "Contempt"}

\* integrity_test, and the constants the configurations can take
ASSUME Durations == VotesOpenForClaimsDuration <= MaxVoteClaimDuration
ASSUME Limits ==
    /\ MaxCases \in Nat /\ MaxRounds \in Nat /\ MaxNow \in Nat /\ PotBalance \in Nat
    /\ ActiveCounts \subseteq Nat /\ Counts \subseteq Nat /\ Amounts \subseteq Nat
ASSUME Voting ==
    /\ None \notin Judgement /\ Opinions \subseteq Judgement /\ IsFiniteSet(Voter)
    /\ MinTurnoutNominal \in Nat /\ MinCaseDuration \in Nat /\ MaxVotingDuration \in Nat

Case == 0 .. MaxCases - 1
Round == 0 .. MaxRounds

VARIABLES
    CaseCount, OpenCases, RipeCases, DoneCases, Votes,
    Credits, VotingPenalties, VotingPoints, AccumulatedPoints,
    PayoutDistribution, RoundSchedules, ActiveSince,
    callbacks,                      \* case -> the verdicts its callback was dispatched with
    pot,                            \* the pot: its free balance and its holds, by reason
    active_count, now

caseVars == <<CaseCount, OpenCases, RipeCases, DoneCases, callbacks>>
payVars == <<PayoutDistribution, RoundSchedules, pot>>
pointVars == <<VotingPoints, AccumulatedPoints>>
envVars == <<active_count, now>>
vars == <<caseVars, payVars, pointVars, envVars, Votes, Credits, VotingPenalties, ActiveSince>>

NoPoints == [v \in Voter |-> 0]
NewCredit == [voted |-> 0, cleaned |-> 0, correct |-> 0, credit |-> 0]

Init ==
    /\ CaseCount = 0
    /\ OpenCases = [c \in Case |-> None]
    /\ RipeCases = [c \in Case |-> None]
    /\ DoneCases = [c \in Case |-> None]
    /\ callbacks = [c \in Case |-> <<>>]
    /\ Votes = [c \in Case |-> [v \in Voter |-> None]]
    /\ Credits = [v \in Voter |-> NewCredit]
    /\ VotingPenalties = [v \in Voter |-> None]
    /\ VotingPoints = [r \in Round |-> NoPoints]
    /\ AccumulatedPoints = 0
    /\ PayoutDistribution = None
    /\ RoundSchedules = <<>>
    /\ ActiveSince = None
    /\ pot = [free |-> PotBalance, Payout |-> 0, Credit |-> 0]
    /\ active_count \in ActiveCounts
    /\ now = 0

-----------------------------------------------------------------------------
(* The tally *)

EmptyTally == [j \in Judgement |-> 0]

Dec(n) == IF n = 0 THEN 0 ELSE n - 1
SatSub(m, n) == IF m < n THEN 0 ELSE m - n

vote_count(tally) == tally["True"] + tally["False"] + tally["Contempt"]

\* Votes of contempt weigh as much as votes against.
nay_weight(tally) == tally["False"] + tally["Contempt"]

collapsed_verdict(tally) ==
    CASE vote_count(tally) = 0 -> "False"
      [] tally["True"] > nay_weight(tally) -> "True"
      [] OTHER -> IF tally["Contempt"] >= tally["False"] THEN "Contempt" ELSE "False"

\* No vote of those that have not voted yet can change the verdict.
definitive(tally, voters) ==
    LET remaining == SatSub(voters, vote_count(tally)) IN
    /\ vote_count(tally) > 0
    /\ \/ remaining = 0
       \/ SatSub(tally["True"], nay_weight(tally)) > remaining
       \/ SatSub(nay_weight(tally), tally["True"]) > remaining

\* The approval required falls from all of the votes to half of them.
is_passing(tally, elapsed) ==
    2 * MaxVotingDuration * tally["True"] >
    (MaxVotingDuration + SatSub(MaxVotingDuration, elapsed)) * vote_count(tally)

\* `Percent::from_rational(votes, voters)`: rounded down, at most one, never divided by zero.
turnout(tally, voters) ==
    LET q == Max({voters, 1}) IN (100 * Min({vote_count(tally), q})) \div q

\* The condition `vote` and `touch_case` share.  Of no votes at all `collapsed` returns the
\* empty result, whose turnout is zero.
Ripens(tally, since) ==
    /\ turnout(tally, active_count) >= MinTurnoutPercentage
    /\ vote_count(tally) >= MinTurnoutNominal
    /\ SatSub(now, since) > MinCaseDuration
    /\ definitive(tally, active_count) \/ is_passing(tally, SatSub(now, since))

-----------------------------------------------------------------------------
(* The life of a case *)

judge_statement ==
    /\ CaseCount < MaxCases
    /\ CaseCount' = CaseCount + 1
    /\ OpenCases' = [OpenCases EXCEPT ![CaseCount] = [since |-> now, tally |-> EmptyTally]]
    /\ UNCHANGED <<RipeCases, DoneCases, callbacks, payVars, pointVars, envVars, Votes,
                   Credits, VotingPenalties, ActiveSince>>

\* What `vote` and `touch_case` leave of the open case `c` with the tally `tally`.
Settle(c, tally) ==
    LET ripe == Ripens(tally, OpenCases[c].since) IN
    /\ OpenCases' = [OpenCases EXCEPT
            ![c] = IF ripe THEN None ELSE [OpenCases[c] EXCEPT !.tally = tally]]
    /\ RipeCases' = [RipeCases EXCEPT ![c] = IF ripe THEN collapsed_verdict(tally) ELSE @]

\* Mutant: the opinion that is replaced stays in the tally.
Counted_twice(c, v, opinion) == [OpenCases[c].tally EXCEPT ![opinion] = @ + 1]

\* The tally after `v` casts `opinion`: `discount` of the old one, `count` of the new.
Counted(c, v, opinion) ==
    LET tally == OpenCases[c].tally
        old   == Votes[c][v]
        discounted == IF old = None THEN tally ELSE [tally EXCEPT ![old] = Dec(@)]
    IN  [discounted EXCEPT ![opinion] = @ + 1]

vote(c, v, opinion) ==
    /\ OpenCases[c] # None
    /\ opinion = "Contempt" => VotingPenalties[v] = None
    /\ Settle(c, Counted(c, v, opinion))
    /\ Votes' = [Votes EXCEPT ![c][v] = opinion]
    /\ Credits' = [Credits EXCEPT ![v].voted = IF Votes[c][v] = None THEN @ + 1 ELSE @]
    /\ UNCHANGED <<CaseCount, DoneCases, callbacks, payVars, pointVars, envVars,
                   VotingPenalties, ActiveSince>>

touch_case(c) ==
    /\ OpenCases[c] # None
    /\ Settle(c, OpenCases[c].tally)
    /\ UNCHANGED <<CaseCount, DoneCases, callbacks, Votes, Credits, payVars, pointVars,
                   envVars, VotingPenalties, ActiveSince>>

\* validate_timeout_case
TimedOut(c) ==
    /\ OpenCases[c] # None
    /\ ActiveSince # None
    /\ now - Max({OpenCases[c].since, ActiveSince}) >= MaxVotingDuration

\* Mutant: a case nobody voted on does not expire.
force_ripen_case_voted(c) ==
    /\ TimedOut(c) /\ vote_count(OpenCases[c].tally) > 0
    /\ OpenCases' = [OpenCases EXCEPT ![c] = None]
    /\ RipeCases' = [RipeCases EXCEPT ![c] = collapsed_verdict(OpenCases[c].tally)]
    /\ UNCHANGED <<CaseCount, DoneCases, callbacks, Votes, Credits, payVars, pointVars,
                   envVars, VotingPenalties, ActiveSince>>

force_ripen_case(c) ==
    /\ TimedOut(c)
    /\ OpenCases' = [OpenCases EXCEPT ![c] = None]
    /\ RipeCases' = [RipeCases EXCEPT ![c] = collapsed_verdict(OpenCases[c].tally)]
    /\ UNCHANGED <<CaseCount, DoneCases, callbacks, Votes, Credits, payVars, pointVars,
                   envVars, VotingPenalties, ActiveSince>>

\* `dispatch_callback` and the new `DoneCase`.  That the dispatched call fails changes nothing
\* here; a callback heavier than the caller allowed fails the whole call, to be retried.
Finish(c, ruling) ==
    /\ callbacks' = [callbacks EXCEPT ![c] = Append(@, ruling)]
    /\ DoneCases' = [DoneCases EXCEPT ![c] = [since |-> now, verdict |-> ruling]]

\* Mutant: the ripe case stays, to be closed again.
close_case_stays(c) ==
    /\ RipeCases[c] # None
    /\ Len(callbacks[c]) < 2
    /\ Finish(c, RipeCases[c])
    /\ UNCHANGED <<CaseCount, OpenCases, RipeCases, Votes, Credits, payVars, pointVars,
                   envVars, VotingPenalties, ActiveSince>>

close_case(c) ==
    /\ RipeCases[c] # None
    /\ Finish(c, RipeCases[c])
    /\ RipeCases' = [RipeCases EXCEPT ![c] = None]
    /\ UNCHANGED <<CaseCount, OpenCases, Votes, Credits, payVars, pointVars, envVars,
                   VotingPenalties, ActiveSince>>

intervene(c, ruling) ==
    /\ OpenCases[c] # None
    /\ Finish(c, ruling)
    /\ OpenCases' = [OpenCases EXCEPT ![c] = None]
    /\ UNCHANGED <<CaseCount, RipeCases, Votes, Credits, payVars, pointVars, envVars,
                   VotingPenalties, ActiveSince>>

\* validate_reap_case
Reapable(c) == DoneCases[c] # None /\ now > DoneCases[c].since + MaxVoteClaimDuration

reap_case(c) ==
    /\ Reapable(c)
    /\ DoneCases' = [DoneCases EXCEPT ![c] = None]
    /\ UNCHANGED <<CaseCount, OpenCases, RipeCases, callbacks, Votes, Credits, payVars,
                   pointVars, envVars, VotingPenalties, ActiveSince>>

-----------------------------------------------------------------------------
(* The votes of cases that are over *)

\* `matches_intent`, and that a vote against was right about a statement held in contempt.
Correct(ruling, opinion) ==
    \/ ruling = opinion
    \/ ruling = "Contempt" /\ opinion = "False"

\* validate_clean_vote: of a case that was reaped, at once.
Cleanable(c) ==
    /\ OpenCases[c] = None /\ RipeCases[c] = None
    /\ DoneCases[c] # None => now > DoneCases[c].since + VotesOpenForClaimsDuration

\* clean_vote and clean_vote_signed: too late for points.
clean_vote(c, v) ==
    LET opinion == Votes[c][v]
        right   == DoneCases[c] # None /\ Correct(DoneCases[c].verdict, opinion)
    IN
    /\ Cleanable(c)
    /\ opinion # None
    /\ Votes' = [Votes EXCEPT ![c][v] = None]
    /\ Credits' = [Credits EXCEPT ![v].cleaned = @ + 1, ![v].correct = IF right THEN @ + 1 ELSE @]
    /\ VotingPenalties' = [VotingPenalties EXCEPT
            ![v] = IF DoneCases[c] # None /\ ~right /\ opinion = "Contempt" THEN now ELSE @]
    /\ UNCHANGED <<caseVars, payVars, pointVars, envVars, ActiveSince>>

\* The round whose points are being collected: the one after the round that pays out.
NextRound == IF PayoutDistribution = None THEN 0 ELSE PayoutDistribution.round + 1

\* claim_vote and claim_votes, of the cases `cs`
do_claim_votes(v, cs) ==
    LET right == {c \in cs : Correct(DoneCases[c].verdict, Votes[c][v])}
        wrong == {c \in cs \ right : Votes[c][v] = "Contempt"}
    IN
    /\ Cardinality(cs) <= MaxVotesClaimable
    /\ \A c \in cs : Votes[c][v] # None /\ DoneCases[c] # None
    /\ Votes' = [c \in Case |-> IF c \in cs THEN [Votes[c] EXCEPT ![v] = None] ELSE Votes[c]]
    /\ VotingPenalties' = [VotingPenalties EXCEPT ![v] = IF wrong # {} THEN now ELSE @]
    /\ Credits' = [Credits EXCEPT ![v].cleaned = @ + Cardinality(cs),
                                  ![v].correct = @ + Cardinality(right)]
    /\ VotingPoints' = [VotingPoints EXCEPT ![NextRound][v] = @ + Cardinality(right)]
    /\ AccumulatedPoints' = AccumulatedPoints + Cardinality(right)
    /\ UNCHANGED <<caseVars, payVars, envVars, ActiveSince>>

clear_voting_penalty(v) ==
    /\ VotingPenalties[v] # None
    /\ VotingPenalties[v] + VotingPenaltyDuration <= now
    /\ VotingPenalties' = [VotingPenalties EXCEPT ![v] = None]
    /\ UNCHANGED <<caseVars, payVars, pointVars, envVars, Votes, Credits, ActiveSince>>

-----------------------------------------------------------------------------
(* The payout rounds *)

\* `Currency::release(.., BestEffort)`: what is held, at most.
Released(reason, amount) == Min({pot[reason], amount})

schedule_payout_rounds(amount, count) ==
    /\ pot.free >= amount * count
    /\ Len(RoundSchedules) < MaxPayoutRoundSchedules
    /\ pot' = [pot EXCEPT !.free = @ - amount * count, !.Payout = @ + amount * count]
    /\ RoundSchedules' = Append(RoundSchedules,
            [remaining |-> count, amount_per_round |-> amount, period |-> Period])
    /\ UNCHANGED <<caseVars, pointVars, envVars, Votes, Credits, VotingPenalties,
                   PayoutDistribution, ActiveSince>>

\* Mutant: the funds of the rounds that were not paid stay held.
remove_payout_schedule_held(i) ==
    /\ i \in DOMAIN RoundSchedules
    /\ RoundSchedules' = RemoveAt(RoundSchedules, i)
    /\ UNCHANGED <<caseVars, pointVars, envVars, Votes, Credits, VotingPenalties, pot,
                   PayoutDistribution, ActiveSince>>

remove_payout_schedule(i) ==
    /\ i \in DOMAIN RoundSchedules
    /\ LET s == RoundSchedules[i]
           released == Released("Payout", s.amount_per_round * s.remaining)
       IN  pot' = [pot EXCEPT !.free = @ + released, !.Payout = @ - released]
    /\ RoundSchedules' = RemoveAt(RoundSchedules, i)
    /\ UNCHANGED <<caseVars, pointVars, envVars, Votes, Credits, VotingPenalties,
                   PayoutDistribution, ActiveSince>>

\* What the last round did not pay is recycled, the points of the next one are frozen.
start_payout_round ==
    LET schedule == Head(RoundSchedules)
        left     == Dec(schedule.remaining)
        recycled == IF PayoutDistribution = None THEN 0
                    ELSE Released("Payout", PayoutDistribution.remaining_balance)
    IN
    /\ NextRound < MaxRounds
    /\ AccumulatedPoints > 0
    /\ RoundSchedules # <<>>
    /\ PayoutDistribution # None => PayoutDistribution.start + schedule.period <= now
    /\ pot' = [pot EXCEPT !.free = @ + recycled, !.Payout = @ - recycled]
    /\ PayoutDistribution' = [round             |-> NextRound,
                              initial_balance   |-> schedule.amount_per_round,
                              remaining_balance |-> schedule.amount_per_round,
                              total_points      |-> AccumulatedPoints,
                              start             |-> now]
    /\ AccumulatedPoints' = 0
    /\ RoundSchedules' = IF left = 0 THEN Tail(RoundSchedules)
                         ELSE [RoundSchedules EXCEPT ![1].remaining = left]
    /\ UNCHANGED <<caseVars, envVars, Votes, Credits, VotingPenalties, VotingPoints, ActiveSince>>

\* The share of `v` in the round that pays out, rounded down twice as `Perbill` does.
Claimable(v) ==
    LET d == PayoutDistribution
        portion == (VotingPoints[d.round][v] * Accuracy) \div d.total_points
    IN  (portion * d.initial_balance) \div Accuracy

claim_credit(v) ==
    /\ PayoutDistribution # None
    /\ VotingPoints[PayoutDistribution.round][v] > 0
    /\ LET released == Released("Payout", Claimable(v)) IN
       /\ pot' = [pot EXCEPT !.Payout = @ - released, !.Credit = @ + released]
       /\ PayoutDistribution' = [PayoutDistribution EXCEPT
                !.remaining_balance = SatSub(@, released)]
       /\ Credits' = [Credits EXCEPT ![v].credit = @ + released]
    /\ VotingPoints' = [VotingPoints EXCEPT ![PayoutDistribution.round][v] = 0]
    /\ UNCHANGED <<caseVars, envVars, Votes, VotingPenalties, AccumulatedPoints,
                   RoundSchedules, ActiveSince>>

payout_rewards(v) ==
    /\ Credits[v].credit > 0
    /\ pot.Credit >= Credits[v].credit
    /\ pot' = [pot EXCEPT !.Credit = @ - Credits[v].credit]
    /\ Credits' = [Credits EXCEPT ![v].credit = 0]
    /\ UNCHANGED <<caseVars, pointVars, envVars, Votes, VotingPenalties, PayoutDistribution,
                   RoundSchedules, ActiveSince>>

\* The points of rounds that are over, which nobody can claim any more.
clean_points(r, v) ==
    /\ PayoutDistribution # None
    /\ r < PayoutDistribution.round
    /\ VotingPoints[r][v] > 0
    /\ VotingPoints' = [VotingPoints EXCEPT ![r][v] = 0]
    /\ UNCHANGED <<caseVars, payVars, envVars, Votes, Credits, VotingPenalties,
                   AccumulatedPoints, ActiveSince>>

-----------------------------------------------------------------------------

\* do_on_poll, in a block with weight to spare: expiry needs enough voters.
on_poll ==
    /\ ActiveSince' = CASE ActiveSince = None /\ active_count >= MinimumVoterThreshold -> now
                        [] ActiveSince # None /\ active_count < MinimumVoterThreshold -> None
                        [] OTHER -> ActiveSince
    /\ UNCHANGED <<caseVars, payVars, pointVars, envVars, Votes, Credits, VotingPenalties>>

\* People are recognised and suspended.
active_changes(n) ==
    /\ active_count' = n
    /\ UNCHANGED <<caseVars, payVars, pointVars, now, Votes, Credits, VotingPenalties,
                   ActiveSince>>

Tick ==
    /\ now < MaxNow
    /\ now' = now + 1
    /\ UNCHANGED <<caseVars, payVars, pointVars, active_count, Votes, Credits,
                   VotingPenalties, ActiveSince>>

Next ==
    \/ judge_statement
    \/ \E c \in Case :
        \/ touch_case(c) \/ close_case(c) \/ force_ripen_case(c) \/ reap_case(c)
        \/ \E ruling \in Opinions : intervene(c, ruling)
        \/ \E v \in Voter : clean_vote(c, v) \/ \E opinion \in Opinions : vote(c, v, opinion)
    \/ \E v \in Voter :
        \/ \E cs \in SUBSET Case \ {{}} : do_claim_votes(v, cs)
        \/ claim_credit(v) \/ payout_rewards(v) \/ clear_voting_penalty(v)
        \/ \E r \in Round : clean_points(r, v)
    \/ \E amount \in Amounts, count \in Counts : schedule_payout_rounds(amount, count)
    \/ \E i \in 1 .. MaxPayoutRoundSchedules : remove_payout_schedule(i)
    \/ start_payout_round
    \/ on_poll
    \/ \E n \in ActiveCounts : active_changes(n)
    \/ Tick

Fairness == \A c \in Case : WF_vars(close_case(c)) /\ WF_vars(force_ripen_case(c))

Spec == Init /\ [][Next]_vars /\ Fairness

-----------------------------------------------------------------------------
(* Properties *)

TypeOK ==
    /\ CaseCount \in 0 .. MaxCases
    /\ \A c \in Case :
        /\ OpenCases[c] = None \/ OpenCases[c] \in [since : 0 .. MaxNow, tally : [Judgement -> Nat]]
        /\ RipeCases[c] \in Judgement \cup {None}
        /\ DoneCases[c] = None \/ DoneCases[c] \in [since : 0 .. MaxNow, verdict : Judgement]
        /\ Votes[c] \in [Voter -> Judgement \cup {None}]
    /\ Credits \in [Voter -> [voted : Nat, cleaned : Nat, correct : Nat, credit : Nat]]
    /\ VotingPoints \in [Round -> [Voter -> Nat]]
    /\ pot \in [free : Nat, Payout : Nat, Credit : Nat]

\* The votes that stand in case `c`, by opinion.
Standing(c, opinion) == Cardinality({v \in DOMAIN Votes[c] : Votes[c][v] = opinion})

\* The tally of an open case is the count of the votes stored for it, whatever was changed, and
\* a ripe case, whose votes can no longer be changed or cleaned, has the verdict of the votes
\* that stand: true if more than half are for it, contempt if it fails and as many hold it in
\* contempt as are against it.
VerdictOfVotes ==
    \A c \in DOMAIN OpenCases :
        /\ OpenCases[c] # None =>
            \A opinion \in Judgement : OpenCases[c].tally[opinion] = Standing(c, opinion)
        /\ RipeCases[c] # None =>
            LET for == Standing(c, "True")
                against == Standing(c, "False")
                contempt == Standing(c, "Contempt")
            IN  RipeCases[c] = CASE for > against + contempt -> "True"
                                 [] for <= against + contempt /\ contempt >= against
                                        /\ contempt > 0 -> "Contempt"
                                 [] OTHER -> "False"

\* Every vote a person cast is either still stored or was cleaned or claimed, once
\* (`Credits`: voted, cleaned, correct), however often it was changed before.
VotesAccounted ==
    \A v \in DOMAIN Credits :
        /\ Credits[v].voted = Credits[v].cleaned
                + Cardinality({c \in DOMAIN Votes : Votes[c][v] # None})
        /\ Credits[v].correct <= Credits[v].cleaned

\* A case ripens before its time only with the turnout required and a vote that is decided: more
\* than half of the votes are for the statement, or those that could still vote cannot
\* overturn the majority against it (`collapsed`, `is_passing`).
DecidedEarly ==
    [][\A c \in DOMAIN OpenCases :
        (OpenCases[c] # None /\ RipeCases'[c] # None /\ ~TimedOut(c)) =>
            LET cast(opinion) == Cardinality({v \in DOMAIN Votes'[c] : Votes'[c][v] = opinion})
                for     == cast("True")
                against == cast("False") + cast("Contempt")
                left    == SatSub(active_count, for + against)
            IN  /\ for + against >= MinTurnoutNominal
                /\ \/ for > against
                   \/ \A k \in 0 .. left : for + k <= against + left - k]_vars

\* A case is decided by the votes, each counted once and accounted for until it is cleaned.
VerdictsKept == [](VerdictOfVotes /\ VotesAccounted) /\ DecidedEarly

\* The oracle mob-rule promises: tickets are fresh, and the callback of a case is dispatched at
\* most once, by `close_case` or by `intervene`, however the two interleave with votes.
Oracle == INSTANCE StatementOracle WITH
            tickets <- CaseCount, answers <- [c \in 0 .. CaseCount - 1 |-> callbacks[c]]
OracleKept == Oracle!Spec

\* The points collected for the next round are those counted for it, and the points people can
\* still claim in the round that pays out are at most those its shares were computed from.
PointsExact ==
    /\ AccumulatedPoints = SumFunction(VotingPoints[NextRound])
    /\ PayoutDistribution # None =>
        SumFunction(VotingPoints[PayoutDistribution.round]) <= PayoutDistribution.total_points

\* The pot holds exactly what the schedules and the round that pays out still owe, and what
\* people were credited and have not taken: no round is paid from the funds of another.
HoldsExact ==
    LET owed == [i \in DOMAIN RoundSchedules |->
                    RoundSchedules[i].remaining * RoundSchedules[i].amount_per_round]
    IN  /\ pot.Payout = SumFunction(owed)
            + (IF PayoutDistribution = None THEN 0 ELSE PayoutDistribution.remaining_balance)
        /\ pot.Credit = SumFunction([v \in Voter |-> Credits[v].credit])

\* `claim_credit` asserts that what it releases for a share is the whole share
\* (debug_assert_eq!(claimable, actual_released)).
SharesReleased ==
    PayoutDistribution # None =>
        \A v \in Voter : Released("Payout", Claimable(v)) = Claimable(v)

\* A case whose voting time is over while enough people are active is closed: the offchain
\* worker ripens and closes it, unless the number of voters falls below the threshold first.
TimedOutCloses == \A c \in Case : TimedOut(c) ~> (DoneCases[c] # None \/ ActiveSince = None)
=============================================================================

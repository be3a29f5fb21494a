---------------------------- MODULE MCJudgement ----------------------------
(* Small instances of the two pallets a judgement passes through.  MobRule twice: the life  *)
(* of a case, with three voters, and the payout rounds, with two voters and two cases.       *)
(* ProofOfInk three times: one candidate with everything, one with tickets and ids to spare,   *)
(* and two candidates.  The pallets meet only in what StatementOracle promises: a behaviour    *)
(* is one of one instance, and the variables of the other pallet stay as they began.            *)
EXTENDS MobRule

CONSTANTS
    Instances,              \* the instances whose behaviours are explored
    PayOpinions, PayAmounts, PayCounts, PayBalance

VARIABLES
    instance,
    Candidates, People, ReferralTickets, CommittedDesigns, DesignFamilies, AllocationCount,
    Configuration, AvailableInvites, PendingInvites, ReferrerReimbursementValues,
    ReferredReimbursementValues, NextPersonalId, ReservedPersonalId, sufficients, held,
    tickets, answers, statements, unsent, block

inkVars == <<Candidates, People, ReferralTickets, CommittedDesigns, DesignFamilies,
             AllocationCount, Configuration, AvailableInvites, PendingInvites,
             ReferrerReimbursementValues, ReferredReimbursementValues, NextPersonalId,
             ReservedPersonalId, sufficients, held, tickets, answers, statements, unsent, block>>

Config(fasttrack) ==
    [maximum |-> 2, fasttrack_count |-> fasttrack, timeout |-> 0, reroll_timeout |-> 1]

Pay == INSTANCE MobRule WITH
        Voter <- {"v1", "v2"}, MaxCases <- 2, ActiveCounts <- {2}, Opinions <- PayOpinions,
        Amounts <- PayAmounts, Counts <- PayCounts, PotBalance <- PayBalance, MaxNow <- 1

One == INSTANCE ProofOfInk WITH
        Account <- {"a1"}, Ticket <- {"k1"}, Founder <- 0, Design <- {"d1"},
        Families <- {{}, {"d1"}},
        Configs <- {Config(0)}, MaxActiveReferrals <- 1, MaxRetryAttempts <- 1,
        FounderAllowed <- 1, MaxTickets <- 2, MaxId <- 1, MaxInvites <- 1, MaxRewards <- 1,
        MaxNow <- 1, now <- block

Late == INSTANCE ProofOfInk WITH
        Account <- {"a1"}, Ticket <- {"k1", "k2"}, Founder <- 0, Design <- {"d1"},
        Families <- {{"d1"}},
        Configs <- {Config(1)}, MaxActiveReferrals <- 2, MaxRetryAttempts <- 1,
        FounderAllowed <- 2, MaxTickets <- 2, MaxId <- 2, MaxInvites <- 0, MaxRewards <- 0,
        MaxNow <- 1, now <- block

Two == INSTANCE ProofOfInk WITH
        Account <- {"a1", "a2"}, Ticket <- {"k1"}, Founder <- 0, Design <- {"d1"},
        Families <- {{"d1"}},
        Configs <- {Config(0), Config(1)}, MaxActiveReferrals <- 1, MaxRetryAttempts <- 1,
        FounderAllowed <- 1, MaxTickets <- 2, MaxId <- 1, MaxInvites <- 0, MaxRewards <- 0,
        MaxNow <- 1, now <- block

MCInit ==
    /\ instance \in Instances
    /\ IF instance = "cases" THEN Init ELSE Pay!Init
    /\ CASE instance = "one" -> One!Init [] instance = "two" -> Two!Init [] OTHER -> Late!Init

Mob(name) == instance = name /\ UNCHANGED <<instance, inkVars>>
Ink(name) == instance = name /\ UNCHANGED <<instance, vars>>

MCNext ==
    \/ Mob("cases") /\ Next
    \/ Mob("payouts") /\ Pay!Next
    \/ Ink("one") /\ One!Next
    \/ Ink("late") /\ Late!Next
    \/ Ink("two") /\ Two!Next

MCFairness ==
    \A c \in Case : /\ WF_vars(Mob("cases") /\ close_case(c))
                    /\ WF_vars(Mob("cases") /\ force_ripen_case(c))

MCSpec == MCInit /\ [][MCNext]_<<instance, vars, inkVars>> /\ MCFairness

\* The properties, of the instance a behaviour is one of.
OfPayouts(P) == instance = "payouts" => P

\* The points of a payout round are those of its voters, and its funds are on hold.
PayoutsExact == OfPayouts(Pay!PointsExact /\ Pay!HoldsExact)

\* What a voter claims in a payout round is released to the voter from the hold.
SharesPaid == OfPayouts(Pay!SharesReleased)

OfInk(one, late, two) ==
    CASE instance = "one" -> one [] instance = "late" -> late [] instance = "two" -> two
      [] OTHER -> TRUE

\* Deposits and references, committed designs and referrals are those of the candidates.
CandidatesExact == OfInk(One!CandidatesExact, Late!CandidatesExact, Two!CandidatesExact)

\* People are proven by evidence that was accepted, and who waits for a verdict will hear one.
JudgedByEvidence == OfInk(One!JudgedByEvidence, Late!JudgedByEvidence, Two!JudgedByEvidence)

\* A case whose time is up is decided and closed, and a ban stands.
DecisionsStand == TimedOutCloses /\ Late!BannedStay

\* A candidate whose evidence was judged and not accepted may submit again: "Allow a new
\* submission." (proof-of-ink, `judged`), and is never left waiting for a verdict that came.
Resubmits == OfInk(One!Resubmits, Late!Resubmits, Two!Resubmits)
=============================================================================

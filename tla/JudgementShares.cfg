SPECIFICATION MCSpec
CONSTANTS
    None = None
    Voter = {"v1", "v2", "v3"}
    Opinions = {"True", "False", "Contempt"}
    MaxCases = 1
    ActiveCounts = {1, 3}
    MinTurnoutPercentage = 50
    MinTurnoutNominal = 1
    MinCaseDuration = 0
    MaxVotingDuration = 2
    VotesOpenForClaimsDuration = 0
    MaxVoteClaimDuration = 1
    MaxVotesClaimable = 2
    VotingPenaltyDuration = 1
    MinimumVoterThreshold = 2
    MaxPayoutRoundSchedules = 2
    Amounts = {}
    Counts = {1}
    Period = 0
    PotBalance = 0
    Accuracy = 100
    MaxRounds = 2
    MaxNow = 2
    Instances = {"payouts"}
    PayOpinions = {"True"}
    PayAmounts = {3}
    PayCounts = {0, 1}
    PayBalance = 6
INVARIANT SharesPaid
CHECK_DEADLOCK FALSE

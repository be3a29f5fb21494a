------------------------------- MODULE Honour -------------------------------
(***************************************************************************)
(* pallets/honour: people direct their points at subjects, up or down, and *)
(* may redirect a point when it is no longer frozen.  A vote is a feeless  *)
(* transaction with a ring proof and no nonce: it can be submitted again   *)
(* by anyone until its mortality ends, and the freeze is all that keeps it *)
(* from counting again.                                                    *)
(*                                                                         *)
(* The alias of a person for a point, and for a subject, is the pair: a    *)
(* multi-context proof ties both to one person.                            *)
(***************************************************************************)
EXTENDS Integers, FiniteSets, FiniteSetsExt

CONSTANTS
    Voter,                      \* members of the people collection
    Point,                      \* points of a person
    Subject,
    PointFreezeDuration,
    CallMortality,              \* integrity_test: at most twice PointFreezeDuration
    MaxNow                      \* bound on the clock

VARIABLES
    Points,                     \* <<voter, point>> -> PointInfo, Unused if none
    Votes,                      \* <<voter, subject>> pairs
    Tally,                      \* subject -> honour
    now,
    bestowed                    \* history: transactions executed, and how often

vars == <<Points, Votes, Tally, now, bestowed>>

Direction == {1, -1}
SUBJECT_DEFAULT_SCORE == -1
Unused == [subject |-> 0]
PointAlias == Voter \X Point
VoteTx == [voter : Voter, point : Point, subject : Subject, direction : Direction,
           call_valid_from : 0 .. MaxNow]

is_point_frozen(p) ==
    Points[p] # Unused /\ Points[p].last_used_at + PointFreezeDuration > now

\* VoterAuth::validate
validate(tx) ==
    /\ tx.call_valid_from <= now
    /\ now < tx.call_valid_from + CallMortality
    /\ ~ is_point_frozen(<<tx.voter, tx.point>>)
    /\ <<tx.voter, tx.subject>> \notin Votes

tally(score, subject, direction) == [score EXCEPT ![subject] = @ + direction]

\* What is left when the point's last vote is taken back.
Undone(p) ==
    [score |-> tally(Tally, Points[p].subject, - Points[p].direction),
     votes |-> Votes \ {<<p[1], Points[p].subject>>}]

bestow(tx) ==
    LET p == <<tx.voter, tx.point>>
        left == IF Points[p] # Unused THEN Undone(p) ELSE [score |-> Tally, votes |-> Votes]
    IN  /\ validate(tx)
        /\ <<tx.voter, tx.subject>> \notin left.votes
        /\ Votes' = left.votes \union {<<tx.voter, tx.subject>>}
        /\ Points' = [Points EXCEPT ![p] = [subject |-> tx.subject, direction |-> tx.direction,
                                            last_used_at |-> now]]
        /\ Tally' = tally(left.score, tx.subject, tx.direction)
        /\ bestowed' = [bestowed EXCEPT ![tx] = @ + 1]
        /\ UNCHANGED now

Tick ==
    /\ now < MaxNow                                 \* bound
    /\ now' = now + 1
    /\ UNCHANGED <<Points, Votes, Tally, bestowed>>

Init ==
    /\ Points = [p \in PointAlias |-> Unused]
    /\ Votes = {}
    /\ Tally = [s \in Subject |-> SUBJECT_DEFAULT_SCORE]
    /\ now = 0
    /\ bestowed = [tx \in VoteTx |-> 0]

Next == Tick \/ \E tx \in VoteTx : bestow(tx)

Spec == Init /\ [][Next]_vars

-----------------------------------------------------------------------------
(* Properties *)

PointsAt(s) == {p \in PointAlias : Points[p] # Unused /\ Points[p].subject = s}

\* The honour of a subject is the sum of the points directed at it, each counted once,
\* and Votes has exactly the pairs that keep a person from a second point on a subject.
TallyExact ==
    /\ \A s \in Subject :
           Tally[s] = SUBJECT_DEFAULT_SCORE + MapThenSumSet(LAMBDA p : Points[p].direction, PointsAt(s))
    /\ Votes = {<<p[1], Points[p].subject>> : p \in {q \in PointAlias : Points[q] # Unused}}
    /\ \A s \in Subject, p, q \in PointAlias :
           p \in PointsAt(s) /\ q \in PointsAt(s) /\ p[1] = q[1] => p = q

\* No transaction is executed twice, as integrity_test means to ensure: by the time a point
\* was redirected and thawed again, a vote seen before its redirection has expired.
VoteOnce == \A tx \in VoteTx : bestowed[tx] <= 1
=============================================================================

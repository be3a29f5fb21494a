--------------------------- MODULE StatementOracle ---------------------------
(* What `StatementOracle` (support/src/traits/reality.rs) promises the pallet that asks   *)
(* for a judgement: every statement gets a ticket of its own, and the callback of a ticket *)
(* is dispatched with a verdict at most once, never before the statement was submitted.     *)
EXTENDS Integers, Sequences

CONSTANT Judgement  \* the verdicts

VARIABLES
    tickets,        \* the number of tickets given out
    answers         \* ticket given out -> the verdicts its callback was dispatched with

vars == <<tickets, answers>>

Init == tickets = 0 /\ answers = [t \in 0 .. -1 |-> <<>>]

judge_statement ==
    /\ tickets' = tickets + 1
    /\ answers' = [t \in 0 .. tickets |-> IF t = tickets THEN <<>> ELSE answers[t]]

callback(t, ruling) ==
    /\ t \in 0 .. tickets - 1
    /\ answers[t] = <<>>
    /\ answers' = [answers EXCEPT ![t] = <<ruling>>]
    /\ UNCHANGED tickets

Next ==
    \/ judge_statement
    \/ \E t \in 0 .. tickets - 1, ruling \in Judgement : callback(t, ruling)

Spec == Init /\ [][Next]_vars
=============================================================================

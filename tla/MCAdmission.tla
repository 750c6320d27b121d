----------------------------- MODULE MCAdmission -----------------------------
(* Instances of Admission for TLC: a unit of time is a day, two a month.    *)
EXTENDS Admission, TLC

CONSTANTS r1, r2

SpanOfPeriod == "daily" :> 1 @@ "monthly" :> 2 @@ "pool" :> 1

AllCaps == <<[period |-> "daily", cap |-> 4],
             [period |-> "monthly", cap |-> 5],
             [period |-> "pool", cap |-> 3]>>

RateOnly == [ratelimit |-> TRUE, budget |-> FALSE]
BudgetOnly == [ratelimit |-> FALSE, budget |-> TRUE]

EitherOne == {RateOnly, BudgetOnly}

Interchangeable == Permutations(Req)
=============================================================================

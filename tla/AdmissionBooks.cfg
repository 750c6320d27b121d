CONSTANTS
    r1 = r1
    r2 = r2
    Configs <- EitherOne
    Req = {r1, r2}
    MaxTime = 2
    Rate = 2
    Burst = 2
    Cost = 1
    Period = {"daily", "monthly", "pool"}
    Span <- SpanOfPeriod
    Caps <- AllCaps
    Estimate = 2
    Charges = {3}
    Cancels = TRUE
    MaxOutages = 1
CHECK_DEADLOCK FALSE
SPECIFICATION Spec
SYMMETRY Interchangeable
INVARIANTS
    AdmissionIsPaidFor
    ChargedOnceOrNotAtAll
    OverspendIsBounded

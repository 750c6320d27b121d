CONSTANTS
    r1 = r1
    r2 = r2
    r3 = r3
    Nobody = Nobody
    Req = {r1, r2, r3}
    HashOf <- ThreeDuplicates
    LockSecs = 2
    TtlSecs = 3
    AtomicClaim = FALSE
    Prompt = TRUE
    Faults = {"crash"}
CHECK_DEADLOCK FALSE
SPECIFICATION Spec
INVARIANT RunnerHoldsReservation

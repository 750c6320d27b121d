CONSTANTS
    r1 = r1
    r2 = r2
    r3 = r3
    Nobody = Nobody
    Req = {r1, r2, r3}
    HashOf <- DuplicatesAndOther
    LockSecs = 2
    TtlSecs = 3
    AtomicClaim = TRUE
    Prompt = TRUE
    Faults = {"crash", "storage", "cancel_late"}
CHECK_DEADLOCK FALSE
SPECIFICATION Spec
SYMMETRY Interchangeable
INVARIANTS
    RunnerHoldsReservation
    ReservationIsOwned

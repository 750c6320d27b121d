CONSTANTS
    r1 = r1
    r2 = r2
    r3 = r3
    Nobody = Nobody
    Req = {r1, r2, r3}
    HashOf <- DuplicatesAndOther
    LockSecs = 1
    TtlSecs = 2
    AtomicClaim = FALSE
    Prompt = FALSE
    Faults = {"crash", "storage", "cancel_late"}
CHECK_DEADLOCK FALSE
SPECIFICATION Spec
PROPERTY CompletedIsFinal

CONSTANTS
    p1 = p1
    p2 = p2
    c1 = c1
    c2 = c2
    Proc = {p1, p2}
    Call = {c1, c2}
    ProcOf <- TwoProcTwoCalls
    ConsecutiveFailures = 2
    WindowSize = 3
    RatioNum = 1
    RatioDen = 2
    CooldownSecs = 1
    CooldownOverrides = {0, 2}
    MaxProbes = 1
    MaxAge = 2
    MaxStarts = 1
    SilentEnds = {"cancelled", "unrecorded"}
    AllowOpenProbe = FALSE
    Backends = 2
    r1 = r1
    r2 = r2
    MediaReq = {r1, r2}
    Size = {4}
    Floor = 2
    Margin = 1
    MaxWait = 7
    Interval = 2
    LongPause = 4
    Slow = 2
    MaxPictures = 2
    m1 = m1
    m2 = m2
    Candidate = {m1, m2}
    Nobody = Nobody
    MaxParts = 2
    Threshold = 3
    Route = {1, 2}
    ProviderOf <- TwoProviders
    Found = {2}
    Limit = 1
    MaxRounds = 3
SPECIFICATION BackendsSpec
CHECK_DEADLOCK FALSE
INVARIANTS
    ProbeLimit NoOrphanedSlot RefusedByAll WaitIsBounded NothingRiskyUnasked ProvenStaysAdmitted
PROPERTIES
    OpenIsProbed

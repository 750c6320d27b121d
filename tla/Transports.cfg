CONSTANTS
    Enabled = {"modality", "composite"}
    Initial <- FirstDelays
    Every <- Intervals
    Pools = 2
    Longest = 2
    Lines = {"text", "noise", "retired", "broken"}
    MaxLines = 2
    q1 = q1
    q2 = q2
    Req = {q1, q2}
    NoReq = NoReq
    IdleSecs = 1
    p1 = p1
    p2 = p2
    Writer = {p1, p2}
    NoWriter = NoWriter
    ann = ann
    bob = bob
    cat = cat
    Login = {ann, bob, cat}
    Enrolled = {ann, bob}
    ProviderOf <- Providers
    MaxPolls = 2
    MaxGen = 2
SPECIFICATION TransportsSpec
CHECK_DEADLOCK FALSE
INVARIANTS
    StreamedCallsOutrankText GuardedRunsLeaveNone CallsReachTheirRequest
PROPERTIES
    NoCycleStarves TurnsEnd WarmTurnsEnd SavesAreExact

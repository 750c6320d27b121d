CONSTANTS
    a = a
    b = b
    c = c
    NoCand = NoCand
    Cand = {a, b, c}
    Chain <- TwoPools
    ToolClass <- Evidence
    RequiresTools = TRUE
    Streaming = TRUE
    MaxAttempts = 2
    MaxFailovers = 1
CHECK_DEADLOCK FALSE
SPECIFICATION FairSpec
INVARIANTS
    ExhaustedMeansTried
    BlamedOncePerAttempt
PROPERTIES
    NeverSplices
    Terminates

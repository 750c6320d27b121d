CONSTANTS
    p1 = p1
    p2 = p2
    Proc = {p1, p2}
    Seat = {1, 2}
    Fields = 3
    NoClaim = ""
    Claim <- LabelsDiffer
    MaxGen <- BothSeatsMove
    MaxFaults = 0
CHECK_DEADLOCK FALSE
SPECIFICATION Spec
PROPERTY RotationsAreKept

CONSTANTS
    p1 = p1
    p2 = p2
    Proc = {p1, p2}
    Seat = {1, 2}
    Fields = 3
    NoClaim = ""
    Claim <- LabelsDiffer
    MaxGen <- SecondSeatMoves
    MaxFaults = 1
CHECK_DEADLOCK FALSE
SPECIFICATION FairSpec
INVARIANTS
    SeatsStaySeparate
    LiveTokenIsStored
PROPERTY SeatRecovers

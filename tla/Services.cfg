CONSTANTS
  c1 = c1
  c2 = c2
  c3 = c3
  c4 = c4
  cli = cli
  free = free
  Ungrouped = Ungrouped
  Call = {c1, c2, c3, c4}
  Group = {cli, free}
  GroupOf <- MCGroupOf
  Limit <- MCLimit
  Model = {"m1"}
  Longest = 2
  p1 = p1
  p2 = p2
  Proc = {p1, p2}
  r1 = r1
  r2 = r2
  Req = {r1, r2}
  MaxId = 1
  Idle = 2
  Absolute = 3
  Risky = {r2}
  Unasked = Unasked
  e1 = e1
  e2 = e2
  NoEvent = NoEvent
  Event = {e1, e2}
  Home <- MCHome
  Sync = {e2}
  Attempts = 4
  FailClosed = TRUE
SPECIFICATION Spec
CHECK_DEADLOCK FALSE
INVARIANTS SharedWindowsAreServed LateAnswersDoNothing ChainIsUnbroken AnsweredIsRecorded
PROPERTY LeasesAreSlots

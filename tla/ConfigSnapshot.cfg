SPECIFICATION FairSpec
CONSTANTS
  P1 = P1
  Code = Code
  Chat = Chat
  None = None
  Proc <- MCProc
  Elsewhere = TRUE
  Admins <- MCProc
  Rotators <- MCProc
  Early <- MCEarly
  Late <- MCLate
  Pool <- MCPool
  Primary = Code
  MaxEvents = 3
INVARIANTS SnapshotIsExact
PROPERTIES SnapshotConverges ConditionalPatchIsExact
CHECK_DEADLOCK FALSE

SPECIFICATION FairSpec
CONSTANTS
  LastMessage = 2
  Polls = {p1, p2}
  Pushes = {}
  Jobs = {j1}
  None = None
  ListCap = 2
  RunCap = 1
  LockExpires = TRUE
  MaxFaults = 0
CHECK_DEADLOCK FALSE
INVARIANTS
  PolledIsRecorded
PROPERTY UnreadIsHanded

SPECIFICATION Spec
CONSTANTS
  LastMessage = 2
  Polls = {p1, p2}
  Pushes = {q1}
  Jobs = {j1}
  None = None
  ListCap = 2
  RunCap = 1
  LockExpires = FALSE
  MaxFaults = 1
SYMMETRY Symmetry
CHECK_DEADLOCK FALSE
INVARIANTS
  OnePassAtATime
  LossIsBounded
PROPERTY KeepsLedger

SPECIFICATION Spec
CONSTANTS
  Sessions = {s1}
  Requests = {r1}
  Ops = {o1}
  None = None
INVARIANT KilledNeverProceeds
CHECK_DEADLOCK FALSE

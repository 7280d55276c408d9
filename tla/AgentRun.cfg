SPECIFICATION FairSpec
CONSTANTS
  Sessions = {s1, s2}
  Requests = {r1}
  Ops = {o1, o2}
  None = None
INVARIANTS KilledPendingIsLate TerminationIsExplained KilledOrphansNeverProceed
PROPERTIES HandlersAreAtomic RunningEnds
CHECK_DEADLOCK FALSE

SPECIFICATION FairSpec
CONSTANTS
  r1 = r1 r2 = r2 u1 = u1 u2 = u2 b1 = b1 b2 = b2 h1 = h1 h2 = h2 s1 = s1 s2 = s2
  NoDraft = NoDraft None = None
  Requests = {r1, r2}
  WithSource = {r1}
  Users = {u1, u2}
  Bodies = {b1, b2}
  Handlers = {h1, h2}
  Sweeps = {s1}
  MaxTime = 1
  MaxCalls = 2
INVARIANTS SentDraftWasChosen ResolutionIsAudited SeenOnlyAfterReply
PROPERTIES ResolvedNeverReopens ResolvedOnce NoMailUnlessOverlapped DueIsHandled
CHECK_DEADLOCK FALSE

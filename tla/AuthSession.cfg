SPECIFICATION Spec
CONSTANTS
  Users = {u1, u2, u3}
  Emails = {e1}
  Providers = {google, github}
  Flows = {f1, f2, f3}
  Tokens = {t1, t2}
  Ops = {o1, o2}
  None = None
SYMMETRY Symmetry
INVARIANTS LoginMatchesAccount LoggedOutIsRefused FlowUsedOnce BannedIsLockedOut
PROPERTIES LoginsAreAtomic
CHECK_DEADLOCK FALSE

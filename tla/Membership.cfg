SPECIFICATION Spec
CONSTANTS
  Users = {u1, u2, u3}
  FirstAdmins = {u1, u2, u3}
  Workspaces = {w1}
  Invites = {i1}
  InviteRoles = {"admin"}
  Ops = {o1, o2}
  None = None
SYMMETRY Symmetry
INVARIANTS NoDanglingRows SuperadminRemainsUnlessOverlapped InviteUsedOnce
PROPERTIES JoiningChangesNoMember HandlersAreAtomic
CHECK_DEADLOCK FALSE

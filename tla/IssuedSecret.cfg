SPECIFICATION Spec
CONSTANTS
  Kinds = {"issued"}
  Rows = {r1}
  Gens = {g1}
  Flows = {f1}
  Ops = {o1}
  Sharing = {FALSE}
  Pasted = {{}}
  MaxOpen = 1
  MaxSecrets = 2
  None = None
INVARIANTS RegisteredIsHeard
CHECK_DEADLOCK FALSE

SPECIFICATION Spec
CONSTANTS
  Kinds = {"watch", "pubsub", "ours", "own", "issued", "handshake"}
  Rows = {r1, r2}
  Gens = {g1, g2}
  Flows = {f1}
  Ops = {o1, o2}
  Sharing = {FALSE}
  Pasted = {{}}
  MaxOpen = 2
  MaxSecrets = 2
  None = None
SYMMETRY Symmetry
INVARIANTS TokensFitClient RowIsLatest 
PROPERTIES SharingSticks HandlersAreAtomic
CHECK_DEADLOCK FALSE

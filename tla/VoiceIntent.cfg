SPECIFICATION Spec
CONSTANTS
  Scenes <- MCScenes
  None = None
INVARIANTS WordingIsNoOrder TurnsMakeTheEdit ScheduleLiesAhead PartsAgree
CHECK_DEADLOCK FALSE

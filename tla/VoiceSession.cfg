SPECIFICATION Spec
CONSTANTS
  MaxReplies = 2
  Phrases = {p1, p2}
  Fields = {"body"}
  MaxReconnects = 1
  None = None
SYMMETRY Symmetry
INVARIANTS FollowUpStays ActsOnWhatWasHeard FragmentsBelongTogether
PROPERTIES ResolvedStays
CHECK_DEADLOCK FALSE

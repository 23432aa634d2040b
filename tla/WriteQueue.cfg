CONSTANTS
  Calls = {c1, c2, c3}
  Capacity = 2
  None = None
SPECIFICATION FairSpec
CHECK_DEADLOCK FALSE
INVARIANTS WritesAccounted
PROPERTY NothingHangs

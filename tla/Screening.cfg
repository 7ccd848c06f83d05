SPECIFICATION Spec
CONSTANTS
  Clients = {p1, p2}
  None = None
  Loads <- MCLoads
  Serial = FALSE
SYMMETRY ClientSymmetry
INVARIANTS FreshWhenFollowed StaleMeansMoved
PROPERTIES CounterMovesWhenFollowed
CHECK_DEADLOCK FALSE

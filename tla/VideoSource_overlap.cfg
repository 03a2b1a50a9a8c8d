SPECIFICATION VideoSpec
CONSTANTS
  Viewers = {v1, v2}
  Player = player
  Server = server
  MaxUnplugs = 0
SYMMETRY ViewerSymmetry
CHECK_DEADLOCK FALSE
INVARIANTS ObserversAreServed

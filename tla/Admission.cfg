CONSTANTS
  Player = {p1, p2, p3}
  MaxPlayers = 2
  Window = 2
  Limit = 4
  MaxTime = 3
SYMMETRY Symmetry
SPECIFICATION AdmissionSpec
INVARIANTS
  IndexAccounting
  NoneForgotten
  AtMostLimit
CHECK_DEADLOCK FALSE

SPECIFICATION FairSpec
CONSTANTS
  Player = {p1, p2}
  Admin = {}
  Spawn = {w1}
  Drop = {d1}
  Nobody = Nobody
  Stage = 2
  MaxCopies = 2
PROPERTY OwnersForAWhile

SPECIFICATION FairSpec
CONSTANTS
  Player = {p1, p2}
  Admin = {p2}
  Spawn = {w1}
  Drop = {d1}
  Nobody = Nobody
  Stage = 2
  MaxCopies = 3
INVARIANTS NeverLost PrivateToOwner
PROPERTIES TickingLeaves SpawnComesBack

CONSTANTS
  ann = ann ben = ben rat = rat
  Player = {ann, ben}
  Npc = {rat}
  LastTile = 3
  RegionSize = 2
  FullRadius = 3
  MaxLocal = 255
  MaxNewPlayers = 50
  MaxNewNpcs = 25
  Newcomer = {ben}
  Leaver = {ann, ben}
  Killer = {ben}
  StartPoint <- MCStart
  DeathPoint = 0
  Landing = {0}
  Pivots = TRUE
  MaxMoves = 2
  MaxName = 4
SPECIFICATION Spec
CHECK_DEADLOCK FALSE
INVARIANTS
  ClientAgrees
  SeesAllNear
  NoGhosts
  AppearanceKnown
  ChatReturns

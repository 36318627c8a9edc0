CONSTANTS
  Player = {1, 2}
  Kinds = {"gate", "door", "locked", "rock", "web"}
  RegionSize = 48
  Place <- MCPlace
  Ground <- MCGround
  Away <- MCAway
  Start <- MCStart
  Radius = 1
  Slack = 0
  StallTicks = 1
  BackTicks = 1
  MaxClicks = 2
  MaxTrips = 2
  MaxInputs = 3
SPECIFICATION Spec
INVARIANTS
  CheapestPaths
  MarksMatch
  ClientShows
  ComesBack
PROPERTIES
  NeverThroughShut

SPECIFICATION Spec
CONSTANTS
  Player = {p1, p2}
  npc = npc
  Caster = {p1}
  Leaver = {p2}
  Nobody = Nobody
  NoFight = NoFight
  Task = {f1, f2}
  MaxHits = 1
  FightTicks = 1
  RestTicks = 2
  FledTicks = 0
  RetreatRound = 1
  RespawnTicks = 2
SYMMETRY Symmetry
CHECK_DEADLOCK FALSE
INVARIANT FightersFight

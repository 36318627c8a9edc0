SPECIFICATION FairSpec
CONSTANTS
  Player = {p1, p2}
  npc = npc
  Caster = {}
  Leaver = {p2}
  Nobody = Nobody
  NoFight = NoFight
  Task = {f1}
  MaxHits = 1
  FightTicks = 1
  RestTicks = 2
  FledTicks = 0
  RetreatRound = 1
  RespawnTicks = 2
CHECK_DEADLOCK FALSE
PROPERTY LeftAlone

SPECIFICATION FairSpec
CONSTANTS
  p1 = p1 p2 = p2 jug = jug ring = ring
  Player = {p1, p2}
  Good = {jug, ring}
  Stock <- MCStock
  Owned <- MCOwned
  BasePrice = 100
  BasePurchasePercent = 40
  BaseSalePercent = 130
  ShopNormalDeltaRate = 30
  RestockTicks = 2
  Coins = 300
  MaxTrades = 5
  Nothing = Nothing
CHECK_DEADLOCK FALSE
INVARIANTS
  ExactWhenAlone
  NoMoneyPump
PROPERTIES
  Normalises

CONSTANTS
  rune = rune bones = bones banana = banana axe = axe shield = shield Skin = Skin
  Id <- MCId
  StackableId = {rune}
  MaxAmount = 3
  Capacity = 3
  BankCapacity = 2
  WieldType <- MCType
  WieldPos <- MCPos
  Bonus <- MCBonus
  Price <- MCPrice
  KeptOnDeath = 2
  DefaultDrop = bones
  Consumable = {bones}
  Converted = bones
  Conversion = banana
  FirstItems <- MCFirst
  NewItems <- MCNew
  MaxPoints = 3
  MaxNew = 2
SPECIFICATION KitSpec
CHECK_DEADLOCK FALSE
INVARIANTS
  Conserved
  WornIsShown
  ReloadsSame
PROPERTIES
  DearestStay

CONSTANTS
  alice = alice bob = bob coin = coin
  Account = {alice, bob}
  Item = {coin}
  Visit <- MCVisit
  FirstStored <- MCStored
SPECIFICATION ProfileFairSpec
CHECK_DEADLOCK FALSE
INVARIANTS
  ExactlyOnce
  AwardsCatchUp
  RecordReturns
PROPERTIES
  LeaversAreSaved

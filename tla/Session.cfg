CONSTANTS
  c1 = c1
  c2 = c2
  alice = alice
  bob = bob
  Conn <- MCConn2
  Account <- MCAccount
  account <- MCTwoNames
  QueueCap = 2
  Batch = 1
  InCap = 1
  MaxPlayers = 2
  Updates = TRUE
SPECIFICATION Spec
INVARIANTS NoZombie SavedOnce
CHECK_DEADLOCK FALSE

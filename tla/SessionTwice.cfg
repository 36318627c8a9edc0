CONSTANTS
  c1 = c1
  c2 = c2
  alice = alice
  bob = bob
  Conn <- MCConn2
  Account <- MCAccount
  account <- MCSameName
  QueueCap = 2
  Batch = 1
  InCap = 1
  MaxPlayers = 2
  Updates = FALSE
SPECIFICATION Spec
INVARIANT OneSessionPerAccount
CHECK_DEADLOCK FALSE

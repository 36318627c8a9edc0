CONSTANTS
  c1 = c1
  c2 = c2
  alice = alice
  bob = bob
  Conn <- MCConn1
  Account <- MCAccount
  account <- MCOneName
  QueueCap = 5
  Batch = 1
  InCap = 1
  MaxPlayers = 1
  Updates = TRUE
SPECIFICATION FairSpec
PROPERTIES LogoutCompletes TicksGoOn
CHECK_DEADLOCK FALSE

CONSTANTS
  c1 = c1
  c2 = c2
  Conns = {c1, c2}
  Secure = TRUE
  MaxSays = 2
SPECIFICATION FairSpec
INVARIANTS
  TypeOK
  SocketOutlivesUsers
  DisconnectionIsHeard
  WaitingIsFetched
PROPERTIES
  HandshakesEnd
CHECK_DEADLOCK FALSE

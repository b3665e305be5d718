CONSTANTS
  app = app
  data = data
  listen = listen
  Users = {app}
  Mux = Mux
  Sockets = {data, listen}
  None = None
  Listeners = {listen}
  Owner <- MCOwner
  PolledBefore = TRUE
  MaxOut = 2
  MaxCalls = 2
  MaxSessions = 1
SPECIFICATION FairSpec
INVARIANTS
  TypeOK
  OneAtATime
  LossIsTold
  JobsFit
PROPERTIES
  BytesFlow
  ConnectionsAreAccepted
CHECK_DEADLOCK FALSE

CONSTANTS
  c1 = c1
  c2 = c2
  Conns = {c1}
  Secure = FALSE
  MaxSays = 2
SPECIFICATION Spec
INVARIANT ReleasesSockets
CHECK_DEADLOCK FALSE

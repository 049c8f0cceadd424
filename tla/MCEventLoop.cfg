SPECIFICATION Spec
CONSTANTS
  c1 = c1
  c2 = c2
  c3 = c3
  Conn = {c1, c2, c3}
  Listener = Listener
  RcvBuf = 1
  SndBuf = 1
  MAX_EVENTS = 2
  MaxClients = 2
  MaxOut = 2
SYMMETRY Symmetry
INVARIANTS
  TypeOK
  InterestAgrees
  OutputArmed
  InputArmed
  BatchAlive
  WriteHasRoom
CHECK_DEADLOCK FALSE

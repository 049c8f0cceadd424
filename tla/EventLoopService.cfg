SPECIFICATION FairSpec
CONSTANTS
  c1 = c1
  c2 = c2
  c3 = c3
  Conn = {c1, c2}
  Listener = Listener
  RcvBuf = 1
  SndBuf = 1
  MAX_EVENTS = 64
  MaxClients = 2
  MaxOut = 2
INVARIANT BacklogArmed
PROPERTIES
  InputServed
  OutputServed
  ConnectionsAccepted
CHECK_DEADLOCK FALSE

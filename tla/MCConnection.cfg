SPECIFICATION FairSpec
CONSTANTS
  c1 = c1
  c2 = c2
  Client = {c1, c2}
  SndBuf = 2
  MaxLen = 3
  MaxMessages = 2
INVARIANTS
  TypeOK
  NothingLost
  OneOrder
PROPERTIES
  ImplementsChannels
  AllServed
CHECK_DEADLOCK FALSE

SPECIFICATION FairSpec
CONSTANTS
  MaxFd = 8
  Files <- AnyFile
  Numeral <- Numerals
  Inherited <- AnyOpen
  MAX_EVENTS = 2
  MaxClients = 3
INVARIANTS
  TypeOK
  OwnDescriptors
  StandardStreams
  NothingLeaks
PROPERTIES
  LastAssignmentWins
  DaemonNotKilled
  StaysUpOnlyAsleep
  RepeatedSignalEnds
CHECK_DEADLOCK FALSE

SPECIFICATION FairSpec
CONSTANTS
  MaxFd = 8
  Files <- DaemonFile
  Numeral <- Numerals
  Inherited <- AllOpen
  MAX_EVENTS = 2
  MaxClients = 1
PROPERTY SignalsEnd
CHECK_DEADLOCK FALSE

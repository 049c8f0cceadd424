SPECIFICATION FairSpec
CONSTANTS
  Byte <- Bytes
  BUFFER_SIZE = 3
  MaxBytes = 6
INVARIANTS
  TypeOK
  PrivateMessagesParsed
  CommandsClean
PROPERTIES
  ImplementsLineStream
  LinesServed

SPECIFICATION Spec
CONSTANTS
  f1 = f1
  f2 = f2
  f3 = f3
  n1 = n1
  n2 = n2
  p1 = p1
  p2 = p2
  r1 = r1
  r2 = r2
  Lobby = Lobby
  Blank = Blank
  Fd = {f1, f2, f3}
  Nick = {n1}
  Password = {p1, p2}
  Room = {Lobby, r1, r2}
SYMMETRY Symmetry
INVARIANTS
  TypeOK
  CountAccurate
  RoomsInhabited
  LobbyOpen
  InRoomOnceNamed
  PromptNamesAnotherRoom
  ChatStaysInRoom
PROPERTIES
  ProtectedEntry
  PasswordOverwritesRunOut
  ImplementsDirectory

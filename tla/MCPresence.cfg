SPECIFICATION PSpec
CONSTANTS
  f1 = f1
  f2 = f2
  f3 = f3
  n1 = n1
  p1 = p1
  r1 = r1
  Lobby = Lobby
  Blank = Blank
  Unknown = Unknown
  Fd = {f1, f2, f3}
  Nick = {n1}
  Password = {p1}
  Room = {Lobby, r1}
SYMMETRY Symmetry
INVARIANT RosterAccurate

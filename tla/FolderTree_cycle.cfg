CONSTANTS
  Folder = {0, 1, 2, 3, 4}
  Root = 0
  Entry = {}
  Name = {a, b}
  Req = {r1, r2}
  Calls = {"move"}
  MaxClock = 0
  ParentFirst = TRUE
  StartPar <- MCPar
  StartName <- MCName
  StartFold <- MCFold
  None = None
  a = a
  b = b
  e1 = e1
  e2 = e2
SYMMETRY Symmetry
SPECIFICATION TreeSpec
INVARIANT NoCycle
CHECK_DEADLOCK FALSE

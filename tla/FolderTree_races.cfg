\* Two calls of any kind at once over two folders, a file, and room for one more of each.
CONSTANTS
  Folder = {0, 1, 2, 3}
  Root = 0
  Entry = {e1, e2}
  Name = {a, b}
  Req = {r1, r2}
  Calls = {"create", "patch", "move", "rename", "delete", "restore", "purge", "put", "drop", "undrop", "shift"}
  MaxClock = 2
  ParentFirst = TRUE
  StartPar <- ChainPar
  StartName <- ChainName
  StartFold <- MCFold
  None = None
  a = a
  b = b
  e1 = e1
  e2 = e2
SYMMETRY Symmetry
CONSTRAINT Bound
VIEW ServerView
SPECIFICATION TreeSpec
INVARIANT TypeOK
INVARIANT NoMutualParents
INVARIANT PlainMovesNeverWaitInRing
INVARIANT TreeIsTold
PROPERTY PurgeSparesTheVisible
CHECK_DEADLOCK FALSE

\* One upload with two requests at once, a failure and a restart; the other parts beside it.
SPECIFICATION FilesSpec
CONSTANTS
  Req = {r1, r2}
  Last = 2
  LiveObj = {l1, l2}
  NoObj = NoObj
  Confs <- SafeConfs
  MaxFail = 1
  MaxCrash = 1
  Client = {"c1", "c2"}
  Id = {0, 1, 2, 3}
  Bytes = {"a", "b"}
  Folder = {"f", "p"}
  ZoneOf <- Zones
  Name = {"n", "m"}
  CopyNames <- Names
  Styles <- AllStyles
  Existing <- FileRows
  MaxCalls = 2
  Archives <- ZipArchives
  Blocks = {1, 2, 3, 4, 5, 7, 9}
  HeadLen = 2
  ReadChunk = 2
  Shots <- AllShots
  Looker = {"p1", "p2"}
  MaxJobs = 3
  MaxFaults = 1
SYMMETRY Symmetry
INVARIANT OnlyWholeFile
 
INVARIANT AcceptedPartsStay
 
PROPERTY CallsAreAtomic
PROPERTY DavDoesItsOwn
 
CHECK_DEADLOCK FALSE

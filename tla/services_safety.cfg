\* The services, each with its faults.
SPECIFICATION Spec
CONSTANTS
  Hangs = {"imap", "store"}
  Failures = 2
  Delays = 2
  MaxTroubles = 2
  MaxToggles = 1
  Letters <- FourLetters
  Broken = {3}
  Batch = 2
  MaxTries = 3
  Outages = 2
  Restarts = 1
  Kind <- Members
  Jobs = {1, 2}
  OddKind <- OddMembers
  OddJobs = {1}
  Caller = {"c1"}
  Stride = 2
  MaxRestarts = 1
  Mishaps = {"fail", "mute", "crash"}
  MaxMishaps = 1
  Device = {"d1", "d2", "d3"}
  Logins <- FourLogins
  MaxSessions = 2
  Asker = {"c1", "c2"}
  MaxFolders = 5
  MaxEnds = 1
  Urls <- Archives
  Size <- Chunks
  Even = {"b"}
  Id = {1, 2, 3}
  Workers = 1
  MaxQueue = 2
  Every = 2
  MaxFails = 2
  Faults = {"api", "google", "norange", "cookie", "cut", "slow", "dead", "unheard", "tail", "crash"}
  MaxFaults = 2
  Sha = {"a", "b", "c"}
  Zones <- Entries
  Zombies = {"c"}
  Strangers <- NotOurs
  MaxUploads = 2
  MaxSweeps = 2
  Proc = {"p1", "p2", "p3"}
  Site <- Places
  Links = {"y", "z"}
  MaxConcurrent = 1
  MaxGets = 4
  MaxHiccups = 1
  MaxDays = 1
  Session = {"s1"}
  Call = {"c1", "c2"}
  MaxAsked = 2
  MaxTurns = 3
  MaxParallel = 1
INVARIANT OneTakesNew
INVARIANT OutageBuriesNone
INVARIANT UnzipSound
 
INVARIANT CarrySound
INVARIANT BucketSound
INVARIANT CallsSound
CHECK_DEADLOCK FALSE

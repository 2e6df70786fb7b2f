\* Letters coming in, kept, and their copies going out, with every mishap of the services.
SPECIFICATION Spec
CONSTANTS
  Letter = {"l1", "l2"}
  Source = {"in", "trash"}
  Mid <- OneMid
  Gmail = TRUE
  PerRun = 1
  MaxPurge = 2
  MaxUid = 2
  Mishaps = {"move", "refuse", "lose", "half", "crash", "renew"}
  MaxMishaps = 1
  Incoming <- FourLetters
  Day <- ThreeDays
  Kind <- AllKinds
  First = 3
  MaxTries = 2
  Gap = 2
  TailLen = 1
  PerPass = 2
  Budget = 2
  Orders = {"rising", "falling"}
  Faults = {"ingest", "half", "crash", "stop", "search", "reset", "vanish"}
  MaxFaults = 1
  Accounts <- FourAccounts
 
INVARIANT PurgeSound
INVARIANT BoxSound
CHECK_DEADLOCK FALSE

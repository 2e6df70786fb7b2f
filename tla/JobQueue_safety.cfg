\* Every call over a photo and a document, with failures, pauses and restarts, within the named bound.
CONSTANTS
  p1 = p1
  d1 = d1
  Asset = {p1, d1}
  KindOf <- Kinds
  Bad = {}
  PhotoParallel = 1
  VideoAlongside = FALSE
  KeepOriginals = FALSE
  Pages = 2
  PagesPerJob = 1
  MaxAttempts = 2
  Caller = {c1}
  Ops = {"upload", "enqueue", "retry", "retryErrors", "clear", "rebuild", "copy", "pause"}
  MaxJobs = 2
  MaxFail = 1
  MaxRestart = 1
CONSTRAINT OneTrouble
SPECIFICATION Spec
INVARIANT TypeOK
INVARIANT SlotsSound
 
CHECK_DEADLOCK FALSE

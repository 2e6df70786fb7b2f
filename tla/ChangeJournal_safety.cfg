\* Two writers, deletions and every fault, in an account where something changed within 90 days: the pruning keeps the last
\* row of the journal ("pruneAll" is left out).
SPECIFICATION Spec
CONSTANTS
  None = None
  Item = {a, b}
  Writer = {w1, w2}
  MaxSeq = 4
  Limit = 2
  Start = None
  Faults = {"rollback", "delete", "crash", "offline", "stop", "cut", "lost", "prune", "pruneInQuery"}
SYMMETRY FileSymmetry
INVARIANT CursorCoversAllButMissed
PROPERTY MirrorNeverGoesBack
CHECK_DEADLOCK FALSE

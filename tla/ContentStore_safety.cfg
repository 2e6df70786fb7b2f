\* Every interleaving of two uploads, a purge, a sweep, a flush and restarts, within the named bound.
CONSTANTS
  Sha = {s1, s2}
  Name = {n1}
  EntryId = {e1, e2}
  AssetId = {a1, a2}
  Uploader = {u1, u2}
  Purger = {p1}
  Sweeper = {w1}
  Flusher = {f1}
  Policies <- MCPolicies
  None = None
SYMMETRY Symmetry
CONSTRAINT OneContentOrOneEntry
SPECIFICATION Spec
INVARIANT TypeOK
INVARIANT BytesLostOnlyInLastWindow
INVARIANT SweepSparesUploads
CHECK_DEADLOCK FALSE

SPECIFICATION Spec
CONSTANTS
  Caller = {c1, c2, c3}
  Parallel = 2
  Queued = 1
  Drainer = drainer
  Closer = closer
  Keeper = {k1, k2}
  None = None
PROPERTY ReleaseAfterUnload

SPECIFICATION FairSpec
CONSTANTS
  Conn = {c1, c2}
  Slots = 2
  Worker = {w1, w2}
  IdleStop = 1
  Retry = 1
  None = None
INVARIANTS OneWorker DemandsCounted
PROPERTIES RetiredWithWorker DemandServed StandbyAtLast

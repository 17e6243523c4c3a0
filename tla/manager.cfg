SPECIFICATION FairSpec
CONSTANTS
  u1 = u1
  u2 = u2
  t1 = t1
  t2 = t2
  p1 = p1
  Nobody = Nobody
  Uid <- OnePeer
  Token <- TwoTokens
  PolicyToken <- OnePolicyToken
  Ttl <- OnlyLong
  MaxTtl = 2
  LeaseLimit = 2
  IdleTimeout = 1
  StartupGuard = 2
  FailureRetry = 1
  MonitorPeriod = 1
  MaxOperation = 1
  Automatic = TRUE
  HasSchedule = TRUE
INVARIANTS DetachOnlyWhenIdle DetachAfterPromises
PROPERTIES LiveLeaseKept GrantAfterProof StandbyReached WakeReached

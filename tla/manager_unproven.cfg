SPECIFICATION Spec
CONSTANTS
  u1 = u1
  u2 = u2
  t1 = t1
  t2 = t2
  p1 = p1
  Nobody = Nobody
  Uid <- Peers
  Token <- TwoTokens
  PolicyToken <- NoPolicyToken
  Ttl <- ShortAndLong
  MaxTtl = 3
  LeaseLimit = 2
  IdleTimeout = 2
  StartupGuard = 3
  FailureRetry = 1
  MonitorPeriod = 1
  MaxOperation = 2
  Automatic = TRUE
  HasSchedule = FALSE
SYMMETRY Symmetry
PROPERTIES GrantBackendProven

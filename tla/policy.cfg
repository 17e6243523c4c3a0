SPECIFICATION FairSpec
CONSTANTS
  DayMinutes = 3
  MinuteSec = 2
  Start = {0, 2}
  End = {1}
  MaxAge = 2
  Ttl = 2
  Renew = 1
  Timeout = 1
  Lag = 2
  Join = 1
  Token = {t1, t2, t3, t4, t5}
  None = None
INVARIANTS NeverStale LeakBounded
PROPERTIES KnownAgain LeaseRunsOut

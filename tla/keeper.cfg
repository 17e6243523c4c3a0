SPECIFICATION FairSpec
CONSTANTS
  Ttl = 4
  Renew = 2
  Grace = 2
  Timeout = 2
  Join = 1
  MaxAge = 3
  Token = {t1, t2, t3}
  None = None
INVARIANTS KeptUnderPromise HealthyMeansRecent
PROPERTIES HealthyAgain LeaseRunsOut

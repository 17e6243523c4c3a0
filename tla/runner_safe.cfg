SPECIFICATION RunnerFairSpec
CONSTANTS
  Ttl = 17
  RenewInterval = 4
  FailureGrace = 2
  RetryDelay = 1
  RequestTimeout = 2
  PollInterval = 2
  ShutdownTimeout = 1
INVARIANT WorkerWithinLeaseIfSafe
PROPERTIES WorkerGetsItsGrace WorkerEnds

CONSTANTS
  Threads = {t1, t2}
  Limit = 2
  Window = 2
  MaxRetries = 1
  RetryDelay = 1
  MaxLag = 1
  MaxBurst = 1
SPECIFICATION Spec
INVARIANTS
  RateHonoured
  LimiterRemembers
PROPERTY EveryCallEnds

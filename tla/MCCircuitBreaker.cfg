CONSTANTS
  Callers = {c1, c2, c3}
  FailureThreshold = 2
  RecoveryTimeout = 1
  HalfOpenMax = 2
  MaxTime = 3
  MaxCalls = 5
SPECIFICATION Spec
INVARIANTS
  TypeOK
  TrippedIffThreshold
  ProbeAccounting
  StatsBalance
PROPERTIES
  CooldownHonoured
  ProbesResolve

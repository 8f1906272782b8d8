CONSTANTS
  Keys = {k1}
  Rates = {0, 2, 7}
  Lifetime = 90
  Second = 2
  Jumps = {17, 43}
  MaxTime = 120
SPECIFICATION Spec
INVARIANTS
  WindowBound
  RetryAfterExact
PROPERTY Buckets

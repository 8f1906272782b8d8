CONSTANTS
  Keys = {k1, k2}
  Instances = {1, 2}
  MaxEntries <- Capacities
  TTL <- Lifetimes
  None = None
  Torn = Torn
  MaxTime = 3
  MaxCrashes = 2
SPECIFICATION Spec
SYMMETRY Symmetry
INVARIANTS
  CapacityBound
  NoStaleHit
  OneCrashNeverPoisons
  DiskCoversMemory
  ClearIsFinal

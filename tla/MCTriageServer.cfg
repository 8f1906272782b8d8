CONSTANTS
  Workers = {w1, w2}
  Fingerprints = {f1}
  Window = 1
  MaxSuppressed = 1
  AlertAfter = 2
  DayLength = 2
  Days = {0, 1}
  MaxClock = 3
  MaxDumps = 4
SPECIFICATION Spec
SYMMETRY WorkersSymmetry
INVARIANTS
  SuppressionBound
  AlertOnce
  OutcomesMatchRows
  QueriesCoverWindow
PROPERTY RowsKept

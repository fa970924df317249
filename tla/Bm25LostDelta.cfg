CONSTANTS
  v = v
  b1 = b1
  b2 = b2
  t1 = t1
  t2 = t2
  t3 = t3
  word = word
  Vacuum = v
  Backends <- MCBackends
  Tids <- MCTids3
  Terms = {word}
  Texts <- MCTexts
  BuiltTids <- MCBuilt
  BuiltTexts <- MCBuiltText
  DeltaCap = 1
  Threshold = 25
  Overlap = TRUE
  MaxNew = 2
  MaxQueries = 1
  MaxDeletes = 0
  MaxVacuums = 1
  MaxCancels = 0
  CancelAt = {}
SPECIFICATION Spec
SYMMETRY Symmetry
INVARIANT QueryComplete
CHECK_DEADLOCK FALSE

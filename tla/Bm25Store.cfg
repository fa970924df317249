CONSTANTS
  v = v
  b1 = b1
  b2 = b2
  t1 = t1
  t2 = t2
  t3 = t3
  word = word
  Vacuum = v
  Backends <- MCBackends
  Tids <- MCTids
  Terms = {word}
  Texts <- MCAllTexts
  BuiltTids <- MCBuilt
  BuiltTexts <- MCBuiltText
  DeltaCap = 1
  Threshold = 25
  Overlap = FALSE
  MaxNew = 2
  MaxQueries = 2
  MaxDeletes = 1
  MaxVacuums = 1
  MaxCancels = 1
  CancelAt = {"tail", "append", "meta", "replace"}
SPECIFICATION Spec
SYMMETRY Symmetry
INVARIANTS TypeOK QueryComplete RightRow CountedOnce
PROPERTIES ImplementsTextIndex
CHECK_DEADLOCK FALSE

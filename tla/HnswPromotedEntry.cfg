SPECIFICATION Spec
CHECK_DEADLOCK FALSE
CONSTANTS
  Inserters = {i1}
  Scanners = {s1}
  Vacuum = v
  Tids = {1, 2, 3}
  TidVal <- TwoValues
  BuiltTids <- Built2
  BuiltLevel <- Flat2
  NSlots = 3
  M = 1
  MaxLevel = 1
  HeapTidsMax = 2
  MaxVacuums = 1
  MaxCancels = 0
INVARIANTS ScansNeverReadDeleted

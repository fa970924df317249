SPECIFICATION Spec
CHECK_DEADLOCK FALSE
CONSTANTS
  Inserters = {i1}
  Scanners = {s1}
  Vacuum = v
  Tids = {1, 2, 3, 4, 5}
  Indexed = {1, 2, 3, 5}
  NLists = 4
  TidDist <- Nearby
  QueryDists <- Orders
  NBlocks = 6
  PageCap = 1
  BuiltOwner <- Owner5
  BuiltTids <- Tuples5
  NBuilt = 5
  Probes = 1
  MaxProbesOption = 2
  Iterative = TRUE
  MaxVacuums = 1
  MaxCancels = 0
INVARIANTS ScanComplete ProbesNearest

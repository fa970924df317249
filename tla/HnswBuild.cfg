SPECIFICATION Spec
CHECK_DEADLOCK FALSE
CONSTANTS
  PageMax = 4
  ItemId = 1
  Workers = {w1, w2}
  Leader = w1
  Rows = 5
  Val <- RowValues
  Null = null
  M = 1
  MaxLevel = 1
  HeapTidsMax = 2
  ElemBytes <- Bytes
  MemoryTotal = 10
  Margin = 3
INVARIANTS TypeOK EntryHighest GraphSound RowsOnce
PROPERTIES BuildEnds

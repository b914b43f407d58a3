SPECIFICATION FairSpec
CONSTANTS
  KmapPages = 16
  DynPages = 4
  BlockSizes = {1, 4}
  MAX_ORDER = 2
  power_of2 <- PowersOfTwo
  Capacity <- Capacities
  FvaNodes = 2
  RvaNodes = 6
  MdtNodes = 1
  ReserveSize = 2
  Region = 4
  Requests <- FewRequests
  MaxHeld = 2
  AnyBlock = FALSE
INVARIANTS RangesPartition HeapAccounted NoFalseAlarm
PROPERTIES PromiseSpec FreesEnd
CHECK_DEADLOCK FALSE

SPECIFICATION FairSpec
CONSTANTS
  KmapPages = 12
  DynPages = 6
  BlockSizes = {1, 4}
  MAX_ORDER = 2
  power_of2 <- PowersOfTwo
  Capacity <- Capacities
  FvaNodes = 2
  RvaNodes = 7
  MdtNodes = 2
  ReserveSize = 3
  Region = 4
  Requests <- MixedRequests
  MaxHeld = 2
  AnyBlock = FALSE
PROPERTY RefillEnds
CHECK_DEADLOCK FALSE

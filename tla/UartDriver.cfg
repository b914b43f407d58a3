SPECIFICATION FairSpec
CONSTANTS
  c0 = c0
  c1 = c1
  NULL = NULL
  Cores <- OneCore
  IrqCore = c0
  TxSize = 4
  RxSize = 4
  FifoSize = 2
  TxLevel = 2
  MaxPut = 4
  MaxSync = 1
  MaxArrived = 4
  MaxString = 2
INVARIANTS TypeOK BytesKeepOrder NoOverrun HandlerFindsItsSource
PROPERTY EveryByteMovesOn
CHECK_DEADLOCK FALSE

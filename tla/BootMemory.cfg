SPECIFICATION Spec
CONSTANTS
  Layouts <- Maps
  PageBytes = 4
  NodeBytes = 1
  ListNodeBytes = 1
  Calls <- InitCalls
  MaxTables = 1
  MaxCalls = 3
  LowSpan = 20
  HighSpan = 40
  BlockBytes = 2
  EMPTY_BLOCK = 4
  NULL = NULL
  Values = {0, 1}
INVARIANTS EarlySound ListSpared PoolSound RingSound
CHECK_DEADLOCK FALSE

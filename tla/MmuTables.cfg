SPECIFICATION FairSpec
CONSTANTS
  a = a
  NoAttr = NoAttr
  MaxLevel = 3
  Fanout = 2
  VaPages = 4
  Deltas <- AlignedAndNot
  Attrs = {a}
  TableMemory = 5
  FreeWorks = TRUE
  CarefulUnmaps = TRUE
INVARIANTS TypeOK TablesSound PeekIsWalk
PROPERTIES PromiseSpec CallsEnd
CHECK_DEADLOCK FALSE

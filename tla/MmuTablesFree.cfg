SPECIFICATION Spec
CONSTANTS
  a = a
  NoAttr = NoAttr
  MaxLevel = 3
  Fanout = 2
  VaPages = 4
  Deltas <- AlignedAndNot
  Attrs = {a}
  TableMemory = 8
  FreeWorks = TRUE
  CarefulUnmaps = TRUE
INVARIANT PagesNeverTakenForTables
CHECK_DEADLOCK FALSE

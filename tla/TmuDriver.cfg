SPECIFICATION FairSpec
CONSTANTS
  Cores = {c0, c1}
  IrqCore = c0
  Probes = {0, 1}
  MaxCalls = 2
INVARIANTS StatusMirrorsTier WarningsNotLost
PROPERTIES CallsEnd
CHECK_DEADLOCK FALSE

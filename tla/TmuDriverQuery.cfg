SPECIFICATION SpecAnyCall
CONSTANTS
  Cores = {c0, c1}
  IrqCore = c0
  Probes = {0, 1}
  MaxCalls = 2
INVARIANT NoCoreWaitsForItself
CHECK_DEADLOCK FALSE

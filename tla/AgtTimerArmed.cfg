SPECIFICATION SpecAnyCall
CONSTANTS
  Callbacks = {f}
  NULL = null
  MaxTime = 2
INVARIANT CallbackNeverSpins

SPECIFICATION FairSpec
CONSTANTS
  Callbacks = {f, g}
  NULL = null
  MaxTime = 1
INVARIANTS TypeOK ThreadNeverDeferred
PROPERTIES PromiseSpec TimersEnd

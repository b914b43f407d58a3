SPECIFICATION FairLockSpec
CONSTANTS
  Cores = {c0, c1, c2}
  UNLOCKED_VALUE = free
  NestLimit = 2
INVARIANTS LockTypeOK MutualExclusion NoAlarm NoLostWakeup
PROPERTIES HolderServed SomeCoreGetsIn

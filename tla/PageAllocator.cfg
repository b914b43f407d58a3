SPECIFICATION FairSpec
CONSTANTS
  N = 9
  MAX_ORDER = 3
  power_of2 <- PowersOfTwo
  MemRegs <- SmallRegions
INVARIANTS
  TypeOK LinksConsistent BlocksSound NoPageLost FullyCoalesced AlarmsAreDue
PROPERTIES LedgerSpec CallsEnd

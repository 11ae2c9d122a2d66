SPECIFICATION FairSpec
CONSTANTS
  Zaps = {z1, z2}
  None = none
  Window = 1
  MaxTime = 2
INVARIANTS
  IInv
  OneEventPerZap
  RecordedWasPublished
  NoSettlementMissed
PROPERTIES
  PublishedInWindow
CHECK_DEADLOCK FALSE

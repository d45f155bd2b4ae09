SPECIFICATION FairSpec
CONSTANTS
  Owner = own
  Thieves = {t1, t2}
  Capacity = 2
  MaxBodies = 5
INVARIANTS
  TypeOK
  SlotExclusive
  ClaimIsPublished
PROPERTIES
  PublishReturns
  IsWorkDeque
CHECK_DEADLOCK FALSE

SPECIFICATION FairSpec
CONSTANTS
  Threads = {t1, t2, t3}
  Capacity = 2
  Callers = {"plain", "blocking"}
  MaxTickets = 5
INVARIANTS
  TypeOK
  SlotExclusive
  ItemsInPlace
  DropDrainsAll
PROPERTIES
  FullHonest
  EmptyHonest
  BlockedPopReturns
  BlockedPushReturns
  IsFifo
CHECK_DEADLOCK FALSE

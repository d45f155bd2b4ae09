SPECIFICATION Spec
CONSTANTS
  NWorkers = 2
  Extensions = {1}
  Producers = {p1}
  Dropper = drop
  JecMod = 4
  RoundsUntilSleepy = 0
  MailCap = 1
  MaxJobs = 2
  MaxSubmit = 1
  MaxSlot = 1
  MaxMail = 1
  MaxPush = 1
INVARIANTS
  TypeOK
  CountersExact
  CountBackBeforeWork
  MailNotStranded
  ReleasedIsUnparked
  InjectedHasSearcher
  ShutdownLeavesNoSleeper

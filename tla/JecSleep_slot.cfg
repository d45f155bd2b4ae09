SPECIFICATION Spec
CONSTANTS
  NWorkers = 2
  Extensions = {}
  Producers = {p1}
  Dropper = drop
  JecMod = 8
  RoundsUntilSleepy = 0
  MailCap = 1
  MaxJobs = 2
  MaxSubmit = 0
  MaxSlot = 1
  MaxMail = 0
  MaxPush = 0
INVARIANTS
  SlotNotStranded

SPECIFICATION FairSpec
CONSTANTS
  NWorkers = 2
  Extensions = {}
  Producers = {p1}
  Dropper = drop
  JecMod = 2
  RoundsUntilSleepy = 0
  MailCap = 1
  MaxJobs = 2
  MaxSubmit = 1
  MaxSlot = 0
  MaxMail = 1
  MaxPush = 0
PROPERTIES
  InjectedTaken
  MailTaken
  DropEnds

SPECIFICATION FairSpec
CONSTANTS
  NWorkers = 3
  Roots = {r1}
  MaxForks = 1
  DequeCap = 1
  Levers = {"mail"}
PROPERTIES
  MailFound

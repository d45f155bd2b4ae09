SPECIFICATION Spec
CONSTANTS
  NWorkers = 2
  Roots = {r1}
  MaxForks = 2
  DequeCap = 1
  Levers = {"mailpark"}
INVARIANTS
  MailHasFinder

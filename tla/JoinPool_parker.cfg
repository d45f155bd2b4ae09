SPECIFICATION Spec
CONSTANTS
  NWorkers = 2
  Roots = {r1}
  MaxForks = 1
  DequeCap = 1
  Levers = {"park"}
INVARIANTS
  ParkerAlive

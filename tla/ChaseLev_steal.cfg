SPECIFICATION Spec
CONSTANTS
  Owner = own
  Thieves = {t1, t2}
  Capacity = 2
  MaxItems = 5
INVARIANTS
  TypeOK
PROPERTIES
  IsWorkDeque

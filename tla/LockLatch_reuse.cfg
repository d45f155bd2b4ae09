SPECIFICATION Spec
CONSTANTS
  MaxCalls = 3
INVARIANTS
  NoTouchAfterFree
  ResultBeforeTake

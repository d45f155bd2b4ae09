SPECIFICATION Spec
CONSTANTS
  MaxCalls = 3
INVARIANT
  ParkedIsUnparked

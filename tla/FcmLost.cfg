SPECIFICATION Spec
CONSTANTS
  Token = {a, b}
  MaxNotify = 2
INVARIANTS RegisteredStay
CHECK_DEADLOCK FALSE

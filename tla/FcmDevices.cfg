SPECIFICATION Spec
CONSTANTS
  Token = {a, b}
  MaxNotify = 3
INVARIANTS NoDuplicateTokens FileIsExact
CHECK_DEADLOCK FALSE

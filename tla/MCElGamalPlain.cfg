SPECIFICATION Spec
CONSTANTS
  P = 29
  G = 2
  Digit = 2
  MaxLen = 3
INVARIANT DecryptReturnsPlaintext
CHECK_DEADLOCK FALSE

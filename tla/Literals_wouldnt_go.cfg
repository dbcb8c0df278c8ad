SPECIFICATION Spec
CONSTANTS
  MaxSource = 7
  MaxDigits = 5
  Oct = 2
  Dec = 3
  Hex = 4
  MaxInt = 10
INVARIANT EscapesAreKnown
CHECK_DEADLOCK FALSE

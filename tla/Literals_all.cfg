SPECIFICATION Spec
CONSTANTS
  MaxSource = 7
  MaxDigits = 5
  Oct = 2
  Dec = 3
  Hex = 4
  MaxInt = 10
INVARIANTS TypeOK StringsAreRead StringsAreWritten IntegersExactly
CHECK_DEADLOCK FALSE

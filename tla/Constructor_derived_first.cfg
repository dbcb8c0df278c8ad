SPECIFICATION Spec
CONSTANTS
  Name = {A, B, C, D}
  NoBase = NoBase
INVARIANT BaseConstructedFirst
CHECK_DEADLOCK FALSE

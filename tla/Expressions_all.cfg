SPECIFICATION Spec
CONSTANTS
  A = A
  B = B
  Ghost = Ghost
  Name = {A, B}
  NoBase = NoBase
  Undeclared = Ghost
  VarTypes <- SmallVarTypes
  ElementTypes <- SmallElementTypes
  Callees <- SmallCallees
  MaxNodes = 5
CONSTRAINT Small
INVARIANTS TypeOK RejectsExactly KeptTypesAreRight GeneratesExactly
CHECK_DEADLOCK FALSE

SPECIFICATION ObjSpec
CONSTANTS
  Name = {A, B, C}
  NoBase = NoBase
  x = x
  Field = {x, y}
  Method = {f}
  Value = {0, 1}
  MaxSize = 2
CONSTRAINT Small
INVARIANT FieldsAreReached
CHECK_DEADLOCK FALSE

SPECIFICATION ObjFairSpec
CONSTANTS
  Name = {A, B, C}
  NoBase = NoBase
  x = x
  Field = {x, y}
  Method = {f}
  Value = {0, 1}
  MaxSize = 4
CONSTRAINT Small
INVARIANTS ProperExactly ObjTypeOK NewFailsExactly FieldsFailExactly DisciplinedIsSafe
PROPERTIES AllGenerated ImplementsObjectStore InstanceOfReturns
CHECK_DEADLOCK FALSE

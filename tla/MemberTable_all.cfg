SPECIFICATION Spec
CONSTANTS
  A = A
  B = B
  x = x
  Name = {Main, A, B}
  NoBase = NoBase
  Member = {main, x, A}
  Main = Main
  main = main
  IntType = IntType
  VoidType = VoidType
  Signatures <- AllSignatures
  MaxMembers = 3
CONSTRAINT Small
INVARIANTS TypeOK OverridesAreSound LegalIsAccepted AcceptedIsLegal
CHECK_DEADLOCK FALSE

SPECIFICATION Spec
CONSTANTS
  Ids = {x, y}
  MaxBody = 7
SYMMETRY Symmetry
INVARIANTS TypeOK DeclaresExactly NullLoadExactly
PROPERTY ImplementsBlocks
CHECK_DEADLOCK FALSE

SPECIFICATION Spec
CONSTANTS
  Exprs = {"plain"}
  MaxSize = 3
INVARIANT OneTerminatorPerBlock
CHECK_DEADLOCK FALSE

SPECIFICATION Spec
CONSTANTS
  Exprs = {"plain", "checked"}
  MaxSize = 5
INVARIANTS TypeOK LoopExitsAreOpenLoops HasRetStops NoDanglingTarget WellFormedExactly FlowIsPreserved
CHECK_DEADLOCK FALSE

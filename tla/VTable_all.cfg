SPECIFICATION FairTableSpec
CONSTANTS
  Name = {A, B, C}
  NoBase = NoBase
  MethodName = {f, g}
INVARIANTS TableTypeOK VirtualCallsDispatch TablesAreComplete
PROPERTY ImplementsDispatchTables
CHECK_DEADLOCK FALSE

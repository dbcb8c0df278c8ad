SPECIFICATION FairSpec
CONSTANTS
  Name = {A, B, C}
  NoBase = NoBase
  MaxDefs = 4
INVARIANTS TypeOK AcceptedIsForest LegalIsAccepted EachCycleReportedOnce
PROPERTIES OnlyCyclesAreCut EndsUnlessEarlyLasso
CHECK_DEADLOCK FALSE

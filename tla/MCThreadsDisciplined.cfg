SPECIFICATION FairSpec
CONSTANTS
  LineOrder <- MCLineOrder
  PoliteHost = TRUE
  SlowProgram = TRUE
INVARIANTS
  TypeOK
  StopsOnlyWhenRunning
  FinishedStaysReset
PROPERTIES
  WithdrawnByName
  FinishReported
  AtomicSpec

SPECIFICATION Spec
CONSTANTS
  LineOrder <- MCLineOrder
  PoliteHost = TRUE
  SlowProgram = FALSE
INVARIANT StopsOnlyWhenRunning

SPECIFICATION Spec
CONSTANT InterruptBits <- MCInterruptBits
INVARIANTS
  TypeOK
  HaltedUnlessRun
  ResetBeforeRerun
  LinesFollow
PROPERTIES
  PendingUntilCleared
  LifecycleSpec
